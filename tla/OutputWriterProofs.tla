------------------------- MODULE OutputWriterProofs -------------------------
(***************************************************************************)
(* Proofs about OutputWriter, for every number of processes and paths: its *)
(* safety, that it implements OutputTree, that its reports are true, and   *)
(* that processes that race over one package cannot all fail.              *)
(***************************************************************************)
EXTENDS OutputWriter, FiniteSetTheorems, WellFoundedInduction, TLAPS

-----------------------------------------------------------------------------
(* What the helpers do to the types *)

\* NAMESPACE is an output path.
LEMMA NamespaceIsPath == NAMESPACE \in Paths
  BY DEF Paths

\* A run that has candidates has a text or NoOutput for every path.
LEMMA WantIsFunction ==
  ASSUME RunTypeOK
  PROVE \A w \in Runs : want[w] \in [Paths -> Generated \cup {"NoOutput"}]
  BY DEF RunTypeOK, OutputSets, NoOutputs

\* A destination calls for an action of the type, or is refused.
LEMMA InspectType ==
  ASSUME TreeTypeOK, NEW w \in Runs, NEW p \in Paths
  PROVE Inspect(w, p) \in OutputActions \cup {"Refused"}
  BY DEF Inspect, OutputActions

\* A failing entry leaves the state of the run typed.
LEMMA FailType ==
  ASSUME RunTypeOK, NEW w \in Runs, NEW p \in Paths, Fail(w, p)
  PROVE RunTypeOK'
  BY DEF RunTypeOK, Fail, Goto, Stopped

\* So does an applied entry.
LEMMA CompleteType ==
  ASSUME RunTypeOK, NEW w \in Runs, NEW p \in Paths, Complete(w, p),
         temp' \in [Runs -> {"NoTemp", "Lost", "Partial"} \cup Generated]
  PROVE RunTypeOK'
  BY DEF RunTypeOK, Complete, Goto, Running

\* So does an inspection, for the history variables.
LEMMA LookType ==
  ASSUME HistoryTypeOK, NEW w \in Runs, NEW p \in Paths, Look(w, p), steady' = steady
  PROVE HistoryTypeOK'
  BY DEF HistoryTypeOK, Look

\* So does a change of the tree.
LEMMA DisturbType ==
  ASSUME HistoryTypeOK, NEW W, NEW S \in SUBSET (Paths \cup {MAN}), Disturb(W, S)
  PROVE HistoryTypeOK'
  BY DEF HistoryTypeOK, Disturb

\* Two entries cannot both be the least one left.
LEMMA CurrentUnique ==
  ASSUME NEW w \in Runs, NEW p \in Paths, NEW q \in Paths, Current(w, p), Current(w, q)
  PROVE p = q
<1>1. p \in Nat /\ q \in Nat
  BY NumRdAssumption DEF Paths, RdPaths, NAMESPACE
<1> QED
  BY <1>1 DEF Current

-----------------------------------------------------------------------------
(* Initial states *)

\* The initial states are typed.
LEMMA InitType == Init => TypeOK
<1> SUFFICES ASSUME Init PROVE TypeOK
  OBVIOUS
<1>1. TreeTypeOK
  BY DEF Init, TreeTypeOK
<1>2. RunTypeOK
  BY DEF Init, RunTypeOK, Stopped
<1>3. HistoryTypeOK /\ BoundTypeOK
  BY BoundAssumption DEF Init, HistoryTypeOK, BoundTypeOK
<1> QED
  BY <1>1, <1>2, <1>3 DEF TypeOK

\* The initial states satisfy the inductive invariant.
LEMMA InitInv == Init => WriterInv
<1> SUFFICES ASSUME Init, NEW w \in Runs
             PROVE TempInv(w) /\ WindowInv(w) /\ LedgerInv(w) /\ PreflightInv(w)
  BY DEF WriterInv
<1>1. /\ pc[w] = "idle" /\ todo[w] = {} /\ completed[w] = {} /\ failed[w] = {}
      /\ temp[w] = "NoTemp" /\ status[w] = "None"
  BY DEF Init
<1>2. TempInv(w)
  BY <1>1, TextAssumption DEF TempInv, TempSteps, Sentinels, Current
<1>3. WindowInv(w)
  BY <1>1 DEF WindowInv, Current
<1>4. LedgerInv(w)
  BY <1>1 DEF LedgerInv, WriteSteps
<1>5. PreflightInv(w)
  BY <1>1 DEF PreflightInv
<1> QED
  BY <1>2, <1>3, <1>4, <1>5

-----------------------------------------------------------------------------
(* Every step keeps the types *)

\* Every step keeps the types.
LEMMA TypeStep == TypeOK /\ WriterInv /\ [Next]_vars => TypeOK'
<1> SUFFICES ASSUME TypeOK, WriterInv, [Next]_vars PROVE TypeOK'
  OBVIOUS
<1> USE DEF TypeOK
<1>0. CASE UNCHANGED vars
  BY <1>0 DEF vars, TreeTypeOK, RunTypeOK, HistoryTypeOK, BoundTypeOK
<1>1. ASSUME NEW w \in Runs, Start(w) PROVE TreeTypeOK' /\ HistoryTypeOK' /\ BoundTypeOK'
  BY <1>1, BoundAssumption DEF Start, tree, TreeTypeOK, HistoryTypeOK, BoundTypeOK
<1>2. ASSUME NEW w \in Runs, Begin(w) PROVE TypeOK'
  <2>1. RunTypeOK'
    BY <1>2, WantsAssumption DEF Begin, Start, Goto, RunTypeOK, Running
  <2> QED
    BY <1>1, <1>2, <2>1 DEF Begin
<1>3. ASSUME NEW w \in Runs, EndBeforeGate(w) PROVE TypeOK'
  <2>1. /\ pc' \in [Runs -> Stopped \cup Running]
        /\ status' \in [Runs -> {"None", "Success", "Diagnostics", "Operational"}]
    BY <1>3 DEF EndBeforeGate, Start, Goto, RunTypeOK, Stopped
  <2>2. want' \in [Runs -> OutputSets \cup {NoOutputs}] /\ todo' \in [Runs -> SUBSET Paths]
    BY <1>3 DEF EndBeforeGate, RunTypeOK
  <2>3. /\ plan' \in [Runs -> [Paths -> OutputActions \cup {"None"}]]
        /\ errors' \in [Runs -> SUBSET Paths] /\ completed' \in [Runs -> SUBSET Paths]
        /\ failed' \in [Runs -> SUBSET Paths] /\ temp' = temp
    BY <1>3 DEF EndBeforeGate, Start, RunTypeOK
  <2>4. RunTypeOK'
    BY <2>1, <2>2, <2>3 DEF RunTypeOK
  <2> QED
    BY <1>1, <1>3, <2>4 DEF EndBeforeGate
<1>4. ASSUME NEW w \in Runs, RefusePlan(w) \/ AcceptPlan(w) \/ Finish(w) PROVE TypeOK'
  <2>0. Outputs(w) \subseteq Paths
    BY DEF Outputs
  <2>1. RunTypeOK'
    <3>1. CASE RefusePlan(w)
      BY <3>1 DEF RefusePlan, Goto, RunTypeOK, Stopped
    <3>2. CASE AcceptPlan(w)
      BY <3>2, <2>0 DEF AcceptPlan, Goto, RunTypeOK, Running
    <3>3. CASE Finish(w)
      BY <3>3 DEF Finish, Goto, RunTypeOK, Stopped
    <3> QED
      BY <1>4, <3>1, <3>2, <3>3
  <2>2. UNCHANGED <<tree, steady, foreign, bounds>>
    BY <1>4 DEF RefusePlan, AcceptPlan, Finish
  <2>3. TreeTypeOK' /\ HistoryTypeOK' /\ BoundTypeOK'
    BY <2>2 DEF tree, bounds, TreeTypeOK, HistoryTypeOK, BoundTypeOK
  <2> QED
    BY <2>1, <2>3
<1>5. ASSUME NEW w \in Runs, NEW p \in Paths, PlanEntry(w, p) PROVE TypeOK'
  <2>1. RunTypeOK'
    <3>1. /\ plan' \in [Runs -> [Paths -> OutputActions \cup {"None"}]]
          /\ errors' \in [Runs -> SUBSET Paths]
      <4>1. CASE Inspect(w, p) = "Refused"
        BY <1>5, <4>1 DEF PlanEntry, RunTypeOK
      <4>2. CASE Inspect(w, p) # "Refused"
        <5>1. Inspect(w, p) \in OutputActions
          BY <4>2, InspectType
        <5>2. plan' = [plan EXCEPT ![w][p] = Inspect(w, p)] /\ errors' = errors
          BY <1>5, <4>2 DEF PlanEntry
        <5> QED
          BY <5>1, <5>2 DEF RunTypeOK
      <4> QED
        BY <4>1, <4>2
    <3>2. todo' \in [Runs -> SUBSET Paths]
      BY <1>5 DEF PlanEntry, RunTypeOK
    <3> QED
      BY <1>5, <3>1, <3>2 DEF PlanEntry, RunTypeOK
  <2>2. TreeTypeOK' /\ BoundTypeOK'
    BY <1>5 DEF PlanEntry, tree, bounds, TreeTypeOK, BoundTypeOK
  <2>3. HistoryTypeOK'
    BY <1>5, LookType DEF PlanEntry
  <2> QED
    BY <2>1, <2>2, <2>3
<1>6. ASSUME NEW w \in Runs, NEW p \in Paths,
             RevalidateStale(w, p) \/ MakeManExists(w, p) \/ PersistFails(w, p)
      PROVE TypeOK'
  BY <1>6, FailType DEF RevalidateStale, MakeManExists, PersistFails, tree, bounds,
     TreeTypeOK, HistoryTypeOK, BoundTypeOK
<1>7. ASSUME NEW w \in Runs, NEW p \in Paths, KeepUnchanged(w, p) PROVE TypeOK'
  <2>1. RunTypeOK'
    BY <1>7, CompleteType DEF KeepUnchanged, RunTypeOK
  <2>2. HistoryTypeOK'
    BY <1>7, LookType DEF KeepUnchanged
  <2> QED
    BY <1>7, <2>1, <2>2 DEF KeepUnchanged, tree, bounds, TreeTypeOK, BoundTypeOK
<1>8. ASSUME NEW w \in Runs, NEW p \in Paths, BeginWrite(w, p) PROVE TypeOK'
  <2>1. RunTypeOK'
    BY <1>8 DEF BeginWrite, Goto, progress, RunTypeOK, Running, WriteSteps
  <2>2. HistoryTypeOK'
    BY <1>8, LookType DEF BeginWrite
  <2> QED
    BY <1>8, <2>1, <2>2 DEF BeginWrite, tree, bounds, TreeTypeOK, BoundTypeOK
<1>9. ASSUME NEW w \in Runs, NEW p \in Paths, StatMan(w, p) \/ RestatMan(w, p) \/ SetMode(w, p)
      PROVE TypeOK'
  <2>1. RunTypeOK'
    BY <1>9, FailType DEF StatMan, RestatMan, SetMode, Goto, progress, RunTypeOK, Running, WriteSteps
  <2> QED
    BY <1>9, <2>1 DEF StatMan, RestatMan, SetMode, tree, bounds, TreeTypeOK, HistoryTypeOK, BoundTypeOK
<1>10. ASSUME NEW w \in Runs, NEW p \in Paths, MakeMan(w, p) PROVE TypeOK'
  <2>1. RunTypeOK'
    BY <1>10 DEF MakeMan, Goto, progress, RunTypeOK, Running, WriteSteps
  <2>2. HistoryTypeOK'
    BY <1>10, DisturbType DEF MakeMan
  <2> QED
    BY <1>10, <2>1, <2>2 DEF MakeMan, bounds, TreeTypeOK, BoundTypeOK
<1>11. ASSUME NEW w \in Runs, NEW p \in Paths, CheckFirst(w, p) \/ CheckLast(w, p) PROVE TypeOK'
  <2>1. RunTypeOK'
    BY <1>11, FailType DEF CheckFirst, CheckLast, Goto, progress, RunTypeOK, Running, WriteSteps
  <2>2. HistoryTypeOK'
    BY <1>11, LookType DEF CheckFirst, CheckLast
  <2> QED
    BY <1>11, <2>1, <2>2 DEF CheckFirst, CheckLast, tree, bounds, TreeTypeOK, BoundTypeOK
<1>12. ASSUME NEW w \in Runs, NEW p \in Paths, CreateTemp(w, p) PROVE TypeOK'
  <2>1. RunTypeOK'
    BY <1>12, FailType DEF CreateTemp, Goto, progress, RunTypeOK, Running, WriteSteps
  <2> QED
    BY <1>12, <2>1 DEF CreateTemp, tree, bounds, TreeTypeOK, HistoryTypeOK, BoundTypeOK
<1>13. ASSUME NEW w \in Runs, NEW p \in Paths, WriteTemp(w, p) PROVE TypeOK'
  <2>1. want[w][p] \in Generated
    BY <1>13, WantIsFunction DEF WriteTemp, At, Current, WriterInv, TempInv, Outputs
  <2>2. RunTypeOK'
    BY <1>13, <2>1 DEF WriteTemp, Goto, progress, RunTypeOK, Running, WriteSteps
  <2> QED
    BY <1>13, <2>2 DEF WriteTemp, tree, bounds, TreeTypeOK, HistoryTypeOK, BoundTypeOK
<1>14. ASSUME NEW w \in Runs, NEW p \in Paths, Persist(w, p) PROVE TypeOK'
  <2>1. temp[w] \in Generated /\ FolderExists(p)
    BY <1>14, TextAssumption DEF Persist, At, WriterInv, TempInv, TempSteps, RunTypeOK, Sentinels
  <2>2. TreeTypeOK'
    BY <1>14, <2>1 DEF Persist, TreeTypeOK, Nodes, FolderExists, NAMESPACE, RdPaths
  <2>3. RunTypeOK'
    BY <1>14, CompleteType DEF Persist, RunTypeOK
  <2>4. HistoryTypeOK'
    BY <1>14, DisturbType DEF Persist
  <2> QED
    BY <1>14, <2>2, <2>3, <2>4 DEF Persist, bounds, BoundTypeOK
<1>15. ASSUME NEW w \in Runs, Kill(w) PROVE TypeOK'
  <2>1. RunTypeOK'
    BY <1>15 DEF Kill, Goto, progress, RunTypeOK, Stopped
  <2>2. TreeTypeOK'
    BY <1>15 DEF Kill, TreeTypeOK, Folder
  <2> QED
    BY <1>15, <2>1, <2>2, BoundAssumption DEF Kill, HistoryTypeOK, BoundTypeOK
<1>16. ASSUME NEW w \in Runs, RootFault(w) PROVE TypeOK'
  <2>1. RunTypeOK'
    BY <1>16 DEF RootFault, Goto, RunTypeOK, Stopped
  <2> QED
    BY <1>16, <2>1, BoundAssumption DEF RootFault, tree, TreeTypeOK, HistoryTypeOK, BoundTypeOK
<1>17. ASSUME NEW w \in Runs, NEW p \in Paths, PlanFault(w, p) PROVE TypeOK'
  <2>1. RunTypeOK'
    BY <1>17 DEF PlanFault, RunTypeOK
  <2> QED
    BY <1>17, <2>1, BoundAssumption DEF PlanFault, tree, TreeTypeOK, HistoryTypeOK, BoundTypeOK
<1>18. ASSUME NEW w \in Runs, NEW p \in Paths, ApplyFault(w, p) PROVE TypeOK'
  BY <1>18, FailType, BoundAssumption DEF ApplyFault, tree, TreeTypeOK, HistoryTypeOK, BoundTypeOK
<1>19. ASSUME NEW p \in Paths, Edit(p) PROVE TypeOK'
  <2>1. HistoryTypeOK'
    BY <1>19, DisturbType DEF Edit
  <2>2. TreeTypeOK'
    BY <1>19 DEF Edit, TreeTypeOK, FolderExists, NAMESPACE, RdPaths
  <2>3. RunTypeOK'
    BY <1>19 DEF Edit, progress, RunTypeOK
  <2> QED
    BY <1>19, <2>1, <2>2, <2>3, BoundAssumption DEF Edit, BoundTypeOK
<1>20. ASSUME NEW m \in {"missing", "dir", "blocked"}, EditMan(m) PROVE TypeOK'
  <2>1. HistoryTypeOK'
    BY <1>20, DisturbType DEF EditMan, Paths
  <2>2. TreeTypeOK'
    BY <1>20, NamespaceIsPath DEF EditMan, TreeTypeOK, Nodes, Paths, NAMESPACE, RdPaths
  <2>3. RunTypeOK'
    BY <1>20 DEF EditMan, progress, RunTypeOK
  <2> QED
    BY <1>20, <2>1, <2>2, <2>3, BoundAssumption DEF EditMan, BoundTypeOK
<1> HIDE DEF TypeOK
<1> QED
  BY <1>0, <1>2, <1>3, <1>4, <1>5, <1>6, <1>7, <1>8, <1>9, <1>10, <1>11, <1>12, <1>13,
     <1>14, <1>15, <1>16, <1>17, <1>18, <1>19, <1>20
  DEF Next, Advance, Interrupt, Environment

-----------------------------------------------------------------------------
(* What a step of one process does to another *)

Memory(v) == <<pc[v], want[v], todo[v], plan[v], errors[v], completed[v], failed[v],
               temp[v], status[v]>>

\* What v's invariants need of a step taken by somebody else.
Tolerable(v) ==
  /\ \A p \in Paths : p \notin foreign'[v] =>
       p \notin foreign[v] /\ fs'[p] = fs[p] /\ (p # NAMESPACE /\ man' = "blocked" <=> p # NAMESPACE /\ man = "blocked")
  /\ \A p \in Paths \cap steady'[v] : p \in steady[v] /\ fs'[p] = fs[p]
  /\ MAN \in steady'[v] => MAN \in steady[v] /\ man' = man

StepOf(w) == Begin(w) \/ EndBeforeGate(w) \/ Advance(w) \/ Interrupt(w)

\* A process writes only its own memory.
LEMMA OthersKeepMemory ==
  ASSUME RunTypeOK, NEW w \in Runs, NEW v \in Runs, v # w, StepOf(w)
  PROVE UNCHANGED Memory(v)
<1>1. ASSUME NEW p \in Paths, Fail(w, p) PROVE UNCHANGED Memory(v)
  BY <1>1 DEF Fail, Goto, Memory, RunTypeOK
<1>2. ASSUME NEW p \in Paths, Complete(w, p), temp'[v] = temp[v] PROVE UNCHANGED Memory(v)
  BY <1>2 DEF Complete, Goto, Memory, RunTypeOK
<1>3. ASSUME NEW l, Goto(w, l), UNCHANGED progress, temp'[v] = temp[v] PROVE UNCHANGED Memory(v)
  BY <1>3 DEF Goto, progress, Memory, RunTypeOK
<1>4. CASE Begin(w) \/ EndBeforeGate(w)
  BY <1>4 DEF Begin, EndBeforeGate, Start, Goto, Memory, RunTypeOK
<1>5. CASE RefusePlan(w) \/ AcceptPlan(w) \/ Finish(w) \/ RootFault(w)
  BY <1>5 DEF RefusePlan, AcceptPlan, Finish, RootFault, Goto, Memory, RunTypeOK
<1>6. ASSUME NEW p \in Paths, PlanEntry(w, p) \/ PlanFault(w, p) PROVE UNCHANGED Memory(v)
  BY <1>6 DEF PlanEntry, PlanFault, Memory, RunTypeOK
<1>7. ASSUME NEW p \in Paths, RevalidateStale(w, p) \/ MakeManExists(w, p) \/ PersistFails(w, p)
                              \/ ApplyFault(w, p)
      PROVE UNCHANGED Memory(v)
  BY <1>1, <1>7 DEF RevalidateStale, MakeManExists, PersistFails, ApplyFault
<1>8. ASSUME NEW p \in Paths, KeepUnchanged(w, p) \/ Persist(w, p) PROVE UNCHANGED Memory(v)
  <2>1. temp'[v] = temp[v]
    BY <1>8 DEF KeepUnchanged, Persist, RunTypeOK
  <2> QED
    BY <1>2, <1>8, <2>1 DEF KeepUnchanged, Persist
<1>9. ASSUME NEW p \in Paths, BeginWrite(w, p) \/ StatMan(w, p) \/ MakeMan(w, p) \/ WriteTemp(w, p)
      PROVE UNCHANGED Memory(v)
  <2>1. temp'[v] = temp[v] /\ UNCHANGED progress
    BY <1>9 DEF BeginWrite, StatMan, MakeMan, WriteTemp, RunTypeOK
  <2> QED
    BY <1>3, <1>9, <2>1 DEF BeginWrite, StatMan, MakeMan, WriteTemp
<1>10. ASSUME NEW p \in Paths, RestatMan(w, p) \/ CheckFirst(w, p) \/ CreateTemp(w, p)
                               \/ CheckLast(w, p) \/ SetMode(w, p)
       PROVE UNCHANGED Memory(v)
  <2>1. \/ Fail(w, p)
        \/ UNCHANGED progress /\ temp'[v] = temp[v] /\ \E l \in WriteSteps : Goto(w, l)
    BY <1>10 DEF RestatMan, CheckFirst, CreateTemp, CheckLast, SetMode, RunTypeOK, WriteSteps
  <2> QED
    BY <1>1, <1>3, <2>1
<1>11. CASE Kill(w)
  <2>1. temp'[v] = temp[v]
    BY <1>11 DEF Kill, RunTypeOK
  <2> QED
    BY <1>3, <1>11, <2>1 DEF Kill
<1> QED
  BY <1>4, <1>5, <1>6, <1>7, <1>8, <1>9, <1>10, <1>11 DEF StepOf, Advance, Interrupt

\* The tree changes under a run only with its history saying so.
LEMMA TreeEffect ==
  ASSUME TypeOK, NEW w \in Runs, NEW v \in Runs, v # w, StepOf(w)
  PROVE Tolerable(v) /\ (man = "dir" => man' = "dir")
<1>1. CASE UNCHANGED <<man, fs>> /\ steady'[v] = steady[v] /\ foreign'[v] = foreign[v]
  BY <1>1 DEF Tolerable
<1>2. ASSUME NEW p \in Paths, MakeMan(w, p) PROVE Tolerable(v) /\ (man = "dir" => man' = "dir")
  <2>1. steady'[v] = steady[v] \ {MAN} /\ foreign'[v] = foreign[v] \cup {MAN}
    BY <1>2 DEF MakeMan, Disturb
  <2> QED
    BY <1>2, <2>1 DEF MakeMan, Tolerable
<1>3. ASSUME NEW p \in Paths, Persist(w, p) PROVE Tolerable(v) /\ (man = "dir" => man' = "dir")
  <2>1. steady'[v] = steady[v] \ {p} /\ foreign'[v] = foreign[v] \cup {p}
    BY <1>3 DEF Persist, Disturb
  <2>2. \A q \in Paths : q # p => fs'[q] = fs[q]
    BY <1>3 DEF Persist, TypeOK, TreeTypeOK
  <2> QED
    BY <1>3, <2>1, <2>2 DEF Persist, Tolerable
<1>4. ASSUME NEW p \in Paths, Look(w, p), UNCHANGED <<man, fs, steady>>
      PROVE Tolerable(v) /\ (man = "dir" => man' = "dir")
  <2>1. foreign'[v] = foreign[v]
    BY <1>4 DEF Look, TypeOK, HistoryTypeOK
  <2> QED
    BY <1>1, <1>4, <2>1
<1>5. CASE Begin(w) \/ EndBeforeGate(w)
  <2>1. steady'[v] = steady[v] /\ foreign'[v] = foreign[v]
    BY <1>5 DEF Begin, EndBeforeGate, Start, TypeOK, HistoryTypeOK
  <2> QED
    BY <1>1, <1>5, <2>1 DEF Begin, EndBeforeGate, Start, tree
<1>6. CASE RefusePlan(w) \/ AcceptPlan(w) \/ Finish(w) \/ RootFault(w) \/ Kill(w)
  <2>1. UNCHANGED <<man, fs, steady, foreign>>
    BY <1>6 DEF RefusePlan, AcceptPlan, Finish, RootFault, Kill, tree
  <2> QED
    BY <1>1, <2>1
<1>7. ASSUME NEW p \in Paths,
             \/ RevalidateStale(w, p) \/ StatMan(w, p) \/ MakeManExists(w, p) \/ RestatMan(w, p)
             \/ CreateTemp(w, p) \/ WriteTemp(w, p) \/ SetMode(w, p) \/ PersistFails(w, p)
             \/ PlanFault(w, p) \/ ApplyFault(w, p)
      PROVE UNCHANGED <<man, fs, steady, foreign>>
  BY <1>7 DEF RevalidateStale, StatMan, MakeManExists, RestatMan, CreateTemp, WriteTemp,
              SetMode, PersistFails, PlanFault, ApplyFault, tree
<1>8. ASSUME NEW p \in Paths,
             PlanEntry(w, p) \/ KeepUnchanged(w, p) \/ BeginWrite(w, p) \/ CheckFirst(w, p)
             \/ CheckLast(w, p)
      PROVE Look(w, p) /\ UNCHANGED <<man, fs, steady>>
  BY <1>8 DEF PlanEntry, KeepUnchanged, BeginWrite, CheckFirst, CheckLast, tree
<1> QED
  BY <1>1, <1>2, <1>3, <1>4, <1>5, <1>6, <1>7, <1>8 DEF StepOf, Advance, Interrupt

RunInv(w) == TempInv(w) /\ WindowInv(w) /\ LedgerInv(w) /\ PreflightInv(w)

\* Paths are numbers, and the man directory is none of them.
LEMMA PathNumbers == Paths \subseteq Nat /\ MAN \in Nat /\ MAN \notin Paths
  BY NumRdAssumption DEF Paths, RdPaths, NAMESPACE, MAN

\* The part of v's invariants that does not read the tree.
LEMMA ToleratedWindow ==
  ASSUME TypeOK, NEW v \in Runs, RunInv(v), Tolerable(v),
         pc'[v] = pc[v], want'[v] = want[v], todo'[v] = todo[v], plan'[v] = plan[v]
  PROVE WindowInv(v)'
<1> SUFFICES ASSUME NEW p \in Paths, Current(v, p)'
             PROVE /\ pc'[v] \in WriteSteps => plan'[v][p] \in {"Create", "Replace"}
                   /\ pc'[v] \in {"setMode", "persist"} /\ p \notin foreign'[v]
                        => Inspect(v, p)' = plan'[v][p]
  BY DEF WindowInv
<1>1. Current(v, p)
  BY DEF Current
<1>2. p \notin foreign'[v] => p \notin foreign[v] /\ Inspect(v, p)' = Inspect(v, p)
  BY DEF Tolerable, Inspect
<1> QED
  BY <1>1, <1>2 DEF RunInv, WindowInv

\* A tolerable change of the tree, one recorded in foreign and steady, leaves
\* the ledger of a run that does not move intact ...
LEMMA ToleratedLedger ==
  ASSUME TypeOK, NEW v \in Runs, RunInv(v), Tolerable(v),
         pc'[v] = pc[v], want'[v] = want[v], todo'[v] = todo[v], errors'[v] = errors[v],
         completed'[v] = completed[v], failed'[v] = failed[v], status'[v] = status[v]
  PROVE LedgerInv(v)'
<1>1. Outputs(v)' = Outputs(v)
  BY DEF Outputs
<1>2. \A p \in completed[v] \ foreign'[v] : fs'[p] = want[v][p]
  BY DEF Tolerable, RunInv, LedgerInv, TypeOK, RunTypeOK
<1> QED
  BY <1>1, <1>2 DEF RunInv, LedgerInv

\* A destination that is still blocked was blocked before.
LEMMA BlockedBefore ==
  ASSUME TypeOK, NEW v \in Runs, Tolerable(v), want'[v] = want[v], Blocked(v)'
  PROVE Blocked(v)
<1>1. Outputs(v)' = Outputs(v) /\ Outputs(v) \subseteq Paths
  BY DEF Outputs
<1> QED
  BY <1>1 DEF Tolerable, Blocked

\* ... and what its planning knows about refusals ...
LEMMA ToleratedPreflight ==
  ASSUME TypeOK, NEW v \in Runs, RunInv(v), Tolerable(v),
         pc'[v] = pc[v], want'[v] = want[v], todo'[v] = todo[v], errors'[v] = errors[v],
         completed'[v] = completed[v]
  PROVE PreflightInv(v)'
<1>1. Outputs(v)' = Outputs(v) /\ Outputs(v) \subseteq Paths
  BY DEF Outputs
<1>2. \A p \in Outputs(v) \cap steady'[v] : p \in steady[v] /\ fs'[p] = fs[p]
  BY <1>1 DEF Tolerable
<1>3. MAN \in steady'[v] => MAN \in steady[v] /\ man' = man
  BY DEF Tolerable
<1>4. pc[v] = "planning" =>
        /\ \A p \in Outputs(v) \cap steady'[v] : fs'[p] \in Unmanaged => p \in todo[v] \cup errors[v]
        /\ MAN \in steady'[v] /\ man' = "blocked" => Outputs(v) \ {NAMESPACE} \subseteq todo[v] \cup errors[v]
  BY <1>2, <1>3 DEF RunInv, PreflightInv
<1>5. pc[v] \notin {"idle", "planning"} /\ Blocked(v)' => completed[v] = {} /\ pc[v] \in Stopped
  BY BlockedBefore DEF RunInv, PreflightInv
<1> QED
  BY <1>1, <1>4, <1>5 DEF PreflightInv

\* ... and its temporary file, as long as its folder exists.
LEMMA ToleratedTemp ==
  ASSUME TypeOK, NEW v \in Runs, RunInv(v), UNCHANGED Memory(v), man = "dir" => man' = "dir"
  PROVE TempInv(v)'
<1>1. Outputs(v)' = Outputs(v) /\ \A p \in Paths : Current(v, p)' <=> Current(v, p)
  BY DEF Outputs, Current, Memory
<1>2. \A p \in Paths : FolderExists(p) => FolderExists(p)'
  BY DEF FolderExists
<1> QED
  BY <1>1, <1>2 DEF RunInv, TempInv, Memory

\* A step of another run keeps the invariant of a run.
LEMMA OthersKeepInv ==
  ASSUME TypeOK, NEW w \in Runs, NEW v \in Runs, v # w, StepOf(w), RunInv(v)
  PROVE RunInv(v)'
<1>1. UNCHANGED Memory(v) /\ Tolerable(v) /\ (man = "dir" => man' = "dir")
  BY OthersKeepMemory, TreeEffect DEF TypeOK
<1>2. TempInv(v)'
  BY <1>1, ToleratedTemp
<1>3. WindowInv(v)'
  BY <1>1, ToleratedWindow DEF Memory
<1>4. LedgerInv(v)'
  BY <1>1, ToleratedLedger DEF Memory
<1>5. PreflightInv(v)'
  BY <1>1, ToleratedPreflight DEF Memory
<1> QED
  BY <1>2, <1>3, <1>4, <1>5 DEF RunInv

\* The environment's changes are tolerated by every run; a temporary file in
\* a removed man directory is lost.
LEMMA EnvironmentKeepsInv ==
  ASSUME TypeOK, NEW v \in Runs, Environment, RunInv(v)
  PROVE RunInv(v)'
<1>1. ASSUME NEW p \in Paths, Edit(p) PROVE RunInv(v)'
  <2>1. steady'[v] = steady[v] \ {p} /\ foreign'[v] = foreign[v] \cup {p} /\ man' = man
    BY <1>1 DEF Edit, Disturb
  <2>2. \A q \in Paths : q # p => fs'[q] = fs[q]
    BY <1>1 DEF Edit, TypeOK, TreeTypeOK
  <2>3. Tolerable(v)
    BY <2>1, <2>2 DEF Tolerable
  <2>4. UNCHANGED Memory(v)
    BY <1>1 DEF Edit, progress, Memory
  <2>5. TempInv(v)'
    BY <2>1, <2>4, ToleratedTemp
  <2>6. WindowInv(v)'
    BY <2>3, <2>4, ToleratedWindow DEF Memory
  <2>7. LedgerInv(v)'
    BY <2>3, <2>4, ToleratedLedger DEF Memory
  <2>8. PreflightInv(v)'
    BY <2>3, <2>4, ToleratedPreflight DEF Memory
  <2> QED
    BY <2>5, <2>6, <2>7, <2>8 DEF RunInv
<1>2. ASSUME NEW m \in {"missing", "dir", "blocked"}, EditMan(m) PROVE RunInv(v)'
  <2>1. /\ steady'[v] = steady[v] \ (RdPaths \cup {MAN})
        /\ foreign'[v] = foreign[v] \cup RdPaths \cup {MAN}
    BY <1>2 DEF EditMan, Disturb
  <2>2. fs'[NAMESPACE] = fs[NAMESPACE]
    BY <1>2, NamespaceIsPath DEF EditMan
  <2>3. \A q \in Paths : q = NAMESPACE \/ q \in RdPaths
    BY DEF Paths
  <2>4. Tolerable(v)
    BY <2>1, <2>2, <2>3 DEF Tolerable
  <2>5. /\ pc'[v] = pc[v] /\ UNCHANGED progress
        /\ temp'[v] = IF temp[v] # "NoTemp" /\ ~Current(v, NAMESPACE) THEN "Lost" ELSE temp[v]
    BY <1>2 DEF EditMan
  <2>6. TempInv(v)'
    <3>1. Outputs(v)' = Outputs(v) /\ \A p \in Paths : Current(v, p)' <=> Current(v, p)
      BY <2>5 DEF Outputs, Current, progress
    <3>2. todo'[v] \subseteq Outputs(v)'
      BY <2>5, <3>1 DEF progress, RunInv, TempInv
    <3>3. temp'[v] # "NoTemp" <=> pc'[v] \in TempSteps
      BY <2>5 DEF RunInv, TempInv
    <3>4. temp'[v] = "Partial" => pc'[v] = "writeTemp"
      BY <2>5 DEF RunInv, TempInv
    <3>5. ASSUME NEW p \in Paths, Current(v, p), temp'[v] \notin {"NoTemp", "Lost"}
          PROVE FolderExists(p)' /\ temp'[v] = temp[v]
      <4>1. Current(v, NAMESPACE) /\ temp'[v] = temp[v]
        BY <2>5, <3>5
      <4>2. p = NAMESPACE
        BY <3>5, <4>1, CurrentUnique, NamespaceIsPath
      <4> QED
        BY <4>1, <4>2 DEF FolderExists
    <3>6. want'[v] = want[v]
      BY <2>5 DEF progress
    <3>7. \A t \in Generated : t \notin {"NoTemp", "Lost"}
      BY TextAssumption DEF Sentinels
    <3> QED
      BY <3>1, <3>2, <3>3, <3>4, <3>5, <3>6, <3>7 DEF RunInv, TempInv
  <2>7. WindowInv(v)'
    BY <2>4, <2>5, ToleratedWindow DEF progress
  <2>8. LedgerInv(v)'
    BY <2>4, <2>5, ToleratedLedger DEF progress
  <2>9. PreflightInv(v)'
    BY <2>4, <2>5, ToleratedPreflight DEF progress
  <2> QED
    BY <2>6, <2>7, <2>8, <2>9 DEF RunInv
<1> QED
  BY <1>1, <1>2 DEF Environment

-----------------------------------------------------------------------------
(* A process keeps its own invariants *)

Busy == {"applying"} \cup WriteSteps

\* The labels of a run that applies are not those of planning or of a stop.
LEMMA BusyLabels ==
  /\ Busy \cap {"idle", "planning", "ended", "killed"} = {} /\ Busy \cap Stopped = {}
  /\ TempSteps \cap Stopped = {}
  /\ TempSteps \subseteq WriteSteps /\ {"setMode", "persist"} \subseteq TempSteps
  BY DEF Busy, WriteSteps, Stopped, TempSteps

\* A run that writes has nothing in its way that was there from the start.
LEMMA BusyPreflight ==
  ASSUME NEW w \in Runs, RunInv(w), pc[w] \in Busy, pc'[w] \notin {"idle", "planning"},
         Blocked(w)' => Blocked(w)
  PROVE PreflightInv(w)'
  BY BusyLabels DEF RunInv, PreflightInv

\* A run is not newly blocked while its view of the tree stays, or man appears.
LEMMA SameBlocked ==
  ASSUME NEW w \in Runs, want'[w] = want[w], steady'[w] = steady[w], fs' = fs,
         man' = man \/ man' = "dir"
  PROVE Blocked(w)' => Blocked(w)
  BY DEF Blocked, Outputs

\* Looking at the entry in hand does not disturb the ledger: the entry is not
\* among the completed ones.
LEMMA LookedLedger ==
  ASSUME TypeOK, NEW w \in Runs, NEW p \in Paths, RunInv(w), pc[w] \in Busy, Current(w, p),
         fs' = fs, want' = want,
         foreign'[w] = foreign[w] \/ foreign'[w] = foreign[w] \ {p}
  PROVE \A q \in completed[w] \ foreign'[w] : fs'[q] = want'[w][q]
<1>1. p \notin completed[w]
  <2>1. \A q \in completed[w] : q < p
    BY DEF RunInv, LedgerInv, Busy, Current
  <2>2. p \in Nat
    BY PathNumbers
  <2> QED
    BY <2>1, <2>2
<1> QED
  BY <1>1 DEF RunInv, LedgerInv

\* A run that fails at an entry keeps its invariant.
LEMMA FailInv ==
  ASSUME TypeOK, NEW w \in Runs, NEW p \in Paths, RunInv(w), pc[w] \in Busy, Current(w, p),
         Fail(w, p), UNCHANGED <<man, fs, steady>>,
         foreign'[w] = foreign[w] \/ foreign'[w] = foreign[w] \ {p}
  PROVE RunInv(w)'
<1>1. /\ pc'[w] = "ended" /\ status'[w] = "Operational" /\ todo'[w] = todo[w] \ {p}
      /\ temp'[w] = "NoTemp" /\ want' = want /\ completed' = completed
  BY DEF Fail, Goto, TypeOK, RunTypeOK
<1>2. Outputs(w)' = Outputs(w)
  BY <1>1 DEF Outputs
<1>3. TempInv(w)'
  BY <1>1, <1>2, TextAssumption DEF RunInv, TempInv, TempSteps, Sentinels
<1>4. WindowInv(w)'
  BY <1>1 DEF WindowInv, WriteSteps
<1>5. LedgerInv(w)'
  BY <1>1, LookedLedger DEF LedgerInv, WriteSteps
<1>6. PreflightInv(w)'
  BY <1>1, SameBlocked, BusyPreflight
<1> QED
  BY <1>3, <1>4, <1>5, <1>6 DEF RunInv

\* The run moves to its next call; temp and the window are the caller's care.
LEMMA MoveInv ==
  ASSUME TypeOK, NEW w \in Runs, NEW p \in Paths, NEW l \in WriteSteps, RunInv(w),
         pc[w] \in Busy, Current(w, p), Goto(w, l), UNCHANGED progress,
         fs' = fs, steady'[w] = steady[w], man' = man \/ man' = "dir",
         foreign'[w] = foreign[w] \/ foreign'[w] = foreign[w] \ {p}
  PROVE pc'[w] = l /\ LedgerInv(w)' /\ PreflightInv(w)'
<1>1. pc'[w] = l
  BY DEF Goto, TypeOK, RunTypeOK
<1>2. Outputs(w)' = Outputs(w)
  BY DEF Outputs, progress
<1>3. LedgerInv(w)'
  <2>1. \A q \in completed[w] \ foreign'[w] : fs'[q] = want'[w][q]
    BY LookedLedger DEF progress
  <2> QED
    BY <1>1, <1>2, <2>1 DEF RunInv, LedgerInv, Busy, WriteSteps, progress
<1>4. PreflightInv(w)'
  <2>1. pc'[w] \notin {"idle", "planning"}
    BY <1>1, BusyLabels DEF Busy
  <2>2. Blocked(w)' => Blocked(w)
    BY SameBlocked DEF progress
  <2> QED
    BY <2>1, <2>2, BusyPreflight
<1> QED
  BY <1>1, <1>3, <1>4

\* A run that applies an entry keeps its invariant.
LEMMA CompleteInv ==
  ASSUME TypeOK, NEW w \in Runs, NEW p \in Paths, RunInv(w), pc[w] \in Busy, Current(w, p),
         Complete(w, p), temp'[w] = "NoTemp", fs' = [fs EXCEPT ![p] = want[w][p]], man' = man,
         steady'[w] = steady[w], foreign'[w] = foreign[w] \ {p}
  PROVE RunInv(w)'
<1>1. /\ pc'[w] = "applying" /\ todo'[w] = todo[w] \ {p} /\ completed'[w] = completed[w] \cup {p}
      /\ want' = want /\ errors' = errors /\ failed' = failed /\ status' = status
  BY DEF Complete, Goto, TypeOK, RunTypeOK
<1>2. Outputs(w)' = Outputs(w)
  BY <1>1 DEF Outputs
<1>3. p \in todo[w] /\ p \in Outputs(w) /\ todo[w] \subseteq Outputs(w) /\ completed[w] \subseteq Outputs(w)
  BY DEF RunInv, TempInv, Current, LedgerInv, Busy
<1>4. TempInv(w)'
  BY <1>1, <1>2, <1>3, TextAssumption DEF TempInv, TempSteps, Sentinels
<1>5. WindowInv(w)'
  BY <1>1 DEF WindowInv, WriteSteps
<1>6. LedgerInv(w)'
  <2>1. /\ errors[w] = {} /\ Outputs(w) = completed[w] \cup todo[w] /\ failed[w] = {} /\ status[w] = "None"
        /\ \A c \in completed[w], q \in todo[w] : c < q
    BY DEF RunInv, LedgerInv, Busy
  <2>2. Outputs(w)' = completed'[w] \cup todo'[w]
    BY <1>1, <1>2, <1>3, <2>1
  <2>3. \A c \in completed'[w], q \in todo'[w] : c < q
    <3> SUFFICES ASSUME NEW q \in todo'[w] PROVE p < q /\ \A c \in completed[w] : c < q
      BY <1>1
    <3>1. p \in Nat /\ q \in Nat /\ p <= q /\ p # q
      BY <1>1, PathNumbers DEF Current, TypeOK, RunTypeOK
    <3> QED
      BY <1>1, <2>1, <3>1
  <2>4. \A c \in completed'[w] \ foreign'[w] : fs'[c] = want'[w][c]
    <3> SUFFICES ASSUME NEW c \in completed'[w] \ foreign'[w] PROVE fs'[c] = want[w][c]
      BY <1>1
    <3>1. CASE c = p
      BY <3>1 DEF TypeOK, TreeTypeOK
    <3>2. CASE c # p
      <4>1. c \in completed[w] \ foreign[w] /\ c \in Paths
        BY <1>1, <3>2 DEF TypeOK, RunTypeOK
      <4> QED
        BY <3>2, <4>1 DEF RunInv, LedgerInv, TypeOK, TreeTypeOK
    <3> QED
      BY <3>1, <3>2
  <2> QED
    BY <1>1, <2>1, <2>2, <2>3, <2>4 DEF LedgerInv
<1>7. PreflightInv(w)'
  <2>1. want[w][p] \in Generated
    BY <1>3, WantIsFunction DEF Outputs, TypeOK
  <2>2. \A q \in Paths : fs'[q] \in Unmanaged => fs[q] \in Unmanaged
    BY <2>1, TextAssumption DEF TypeOK, TreeTypeOK
  <2>3. Blocked(w)' => Blocked(w)
    BY <1>1, <1>2, <2>2 DEF Blocked, Outputs
  <2> QED
    BY <1>1, <2>3, BusyPreflight
<1> QED
  BY <1>4, <1>5, <1>6, <1>7 DEF RunInv

\* A step of a run keeps the invariant of that run.
LEMMA OwnInv ==
  ASSUME TypeOK, NEW w \in Runs, RunInv(w), StepOf(w)
  PROVE RunInv(w)'
<1> USE DEF TypeOK
<1>1. CASE Begin(w)
  <2>1. PICK o \in Wants : /\ want' = [want EXCEPT ![w] = o]
                           /\ todo' = [todo EXCEPT ![w] = {p \in Paths : o[p] # "NoOutput"}]
    BY <1>1 DEF Begin
  <2>2. /\ pc'[w] = "planning" /\ status'[w] = "None" /\ completed'[w] = {} /\ failed'[w] = {}
        /\ errors'[w] = {} /\ temp'[w] = temp[w] /\ pc[w] \in Stopped
    BY <1>1 DEF Begin, Start, Goto, RunTypeOK
  <2>3. todo'[w] = Outputs(w)'
    BY <2>1 DEF Outputs, RunTypeOK
  <2>4. temp'[w] = "NoTemp"
    BY <2>2, BusyLabels DEF RunInv, TempInv
  <2>5. TempInv(w)'
    BY <2>2, <2>3, <2>4, TextAssumption DEF TempInv, TempSteps, Sentinels
  <2>6. WindowInv(w)'
    BY <2>2 DEF WindowInv, WriteSteps
  <2>7. LedgerInv(w)'
    BY <2>2 DEF LedgerInv, WriteSteps
  <2>8. PreflightInv(w)'
    BY <2>2, <2>3 DEF PreflightInv
  <2> QED
    BY <2>5, <2>6, <2>7, <2>8 DEF RunInv
<1>2. CASE EndBeforeGate(w)
  <2>1. /\ want'[w] = NoOutputs /\ todo'[w] = {} /\ pc'[w] = "ended"
        /\ status'[w] \in {"Operational", "Diagnostics"}
    BY <1>2 DEF EndBeforeGate, Goto, RunTypeOK
  <2>2. /\ completed'[w] = {} /\ failed'[w] = {} /\ temp'[w] = temp[w] /\ pc[w] \in Stopped
    BY <1>2 DEF EndBeforeGate, Start, RunTypeOK
  <2>3. temp'[w] = "NoTemp"
    BY <2>2, BusyLabels DEF RunInv, TempInv
  <2>4. TempInv(w)'
    BY <2>1, <2>3, TextAssumption DEF TempInv, TempSteps, Sentinels, Current
  <2>5. WindowInv(w)' /\ LedgerInv(w)' /\ PreflightInv(w)'
    BY <2>1, <2>2 DEF WindowInv, LedgerInv, PreflightInv, WriteSteps, Stopped, Current
  <2> QED
    BY <2>4, <2>5 DEF RunInv
<1>3. ASSUME RefusePlan(w) \/ RootFault(w) PROVE RunInv(w)'
  <2>1. /\ pc[w] = "planning" /\ pc'[w] = "ended" /\ status'[w] = "Operational"
        /\ UNCHANGED <<man, fs, want, todo, plan, errors, completed, failed, temp, steady, foreign>>
    BY <1>3 DEF RefusePlan, RootFault, Goto, RunTypeOK, tree
  <2>2. Outputs(w)' = Outputs(w)
    BY <2>1 DEF Outputs
  <2>3. TempInv(w)'
    BY <2>1, <2>2 DEF RunInv, TempInv, TempSteps, Current, FolderExists
  <2>4. WindowInv(w)' /\ LedgerInv(w)' /\ PreflightInv(w)'
    BY <2>1, <2>2 DEF RunInv, WindowInv, LedgerInv, PreflightInv, WriteSteps, Stopped
  <2> QED
    BY <2>3, <2>4 DEF RunInv
<1>4. CASE AcceptPlan(w)
  <2>1. /\ pc[w] = "planning" /\ pc'[w] = "applying" /\ todo[w] = {} /\ errors[w] = {}
        /\ todo'[w] = Outputs(w)
        /\ UNCHANGED <<man, fs, want, plan, errors, completed, failed, temp, status, steady, foreign>>
    BY <1>4 DEF AcceptPlan, Goto, RunTypeOK, tree
  <2>2. Outputs(w)' = Outputs(w) /\ completed[w] = {} /\ failed[w] = {} /\ status[w] = "None"
    BY <2>1 DEF Outputs, RunInv, LedgerInv
  <2>3. temp[w] = "NoTemp"
    BY <2>1 DEF RunInv, TempInv, TempSteps
  <2>4. TempInv(w)'
    BY <2>1, <2>2, <2>3, TextAssumption DEF TempInv, TempSteps, Sentinels
  <2>5. WindowInv(w)' /\ LedgerInv(w)'
    BY <2>1, <2>2 DEF WindowInv, LedgerInv, WriteSteps
  <2>6. ~Blocked(w)
    <3>1. \A p \in Outputs(w) \cap steady[w] : fs[p] \notin Unmanaged
      BY <2>1 DEF RunInv, PreflightInv
    <3>2. MAN \in steady[w] /\ man = "blocked" => Outputs(w) \subseteq {NAMESPACE}
      BY <2>1 DEF RunInv, PreflightInv
    <3> QED
      BY <3>1, <3>2 DEF Blocked
  <2>7. PreflightInv(w)'
    BY <2>1, <2>2, <2>6 DEF PreflightInv, Blocked
  <2> QED
    BY <2>4, <2>5, <2>7 DEF RunInv
<1>5. ASSUME NEW p \in Paths, PlanEntry(w, p) \/ PlanFault(w, p) PROVE RunInv(w)'
  <2>1. /\ pc[w] = "planning" /\ todo'[w] = todo[w] \ {p} /\ todo[w] \subseteq Outputs(w)
        /\ UNCHANGED <<man, fs, pc, want, completed, failed, temp, status, steady>>
        /\ foreign'[w] = foreign[w] \/ foreign'[w] = foreign[w] \ {p}
    BY <1>5 DEF PlanEntry, PlanFault, Look, RunTypeOK, HistoryTypeOK, tree, RunInv, TempInv
  <2>2. errors[w] \subseteq errors'[w]
    BY <1>5 DEF PlanEntry, PlanFault, RunTypeOK
  <2>3. Outputs(w)' = Outputs(w) /\ completed[w] = {}
    BY <2>1 DEF Outputs, RunInv, LedgerInv
  <2>4. TempInv(w)'
    <3>1. temp[w] = "NoTemp"
      BY <2>1 DEF RunInv, TempInv, TempSteps
    <3> QED
      BY <2>1, <2>3, <3>1, TextAssumption DEF TempInv, TempSteps, Sentinels
  <2>5. WindowInv(w)' /\ LedgerInv(w)'
    BY <2>1, <2>3 DEF RunInv, WindowInv, LedgerInv, WriteSteps
  <2>6. p \in todo[w] /\ (Inspect(w, p) = "Refused" \/ PlanFault(w, p) => p \in errors'[w])
    BY <1>5 DEF PlanEntry, PlanFault, Current, RunTypeOK
  <2>7. /\ fs[p] \in Unmanaged => Inspect(w, p) = "Refused"
        /\ p # NAMESPACE /\ man = "blocked" => Inspect(w, p) = "Refused"
    BY TextAssumption DEF Inspect, Sentinels
  <2>8. PlanEntry(w, p) \/ p \in errors'[w]
    BY <1>5, <2>6
  <2>9. PreflightInv(w)'
    BY <1>5, <2>1, <2>2, <2>3, <2>6, <2>7 DEF RunInv, PreflightInv
  <2> QED
    BY <2>4, <2>5, <2>9 DEF RunInv
<1>6. ASSUME NEW p \in Paths,
             RevalidateStale(w, p) \/ MakeManExists(w, p) \/ PersistFails(w, p) \/ ApplyFault(w, p)
      PROVE RunInv(w)'
  BY <1>6, FailInv DEF RevalidateStale, MakeManExists, PersistFails, ApplyFault, At, tree, Busy, WriteSteps
<1>7. CASE Finish(w)
  <2>1. /\ pc[w] = "applying" /\ pc'[w] = "ended" /\ todo[w] = {} /\ status'[w] = "Success"
        /\ UNCHANGED <<man, fs, want, todo, plan, errors, completed, failed, temp, steady, foreign>>
    BY <1>7 DEF Finish, Goto, RunTypeOK, tree
  <2>2. Outputs(w)' = Outputs(w) /\ completed[w] = Outputs(w)
    BY <2>1 DEF Outputs, RunInv, LedgerInv
  <2>3. TempInv(w)'
    BY <2>1, <2>2 DEF RunInv, TempInv, TempSteps, Current, FolderExists
  <2>4. WindowInv(w)' /\ LedgerInv(w)'
    BY <2>1, <2>2 DEF RunInv, WindowInv, LedgerInv, WriteSteps
  <2>5. PreflightInv(w)'
    BY <2>1, SameBlocked, BusyPreflight DEF Busy
  <2> QED
    BY <2>3, <2>4, <2>5 DEF RunInv
<1>8. CASE Kill(w)
  <2>1. /\ pc[w] \in Running /\ pc'[w] = "killed" /\ temp'[w] = "NoTemp"
        /\ UNCHANGED <<man, fs, want, todo, plan, errors, completed, failed, status, steady, foreign>>
    BY <1>8 DEF Kill, Goto, RunTypeOK, progress
  <2>2. Outputs(w)' = Outputs(w)
    BY <2>1 DEF Outputs
  <2>3. TempInv(w)'
    BY <2>1, <2>2, TextAssumption DEF RunInv, TempInv, TempSteps, Sentinels
  <2>4. WindowInv(w)' /\ LedgerInv(w)'
    BY <2>1, <2>2 DEF RunInv, WindowInv, LedgerInv, WriteSteps
  <2>5. PreflightInv(w)'
    <3>1. CASE pc[w] = "planning"
      BY <2>1, <3>1 DEF RunInv, LedgerInv, PreflightInv, Stopped
    <3>2. CASE pc[w] # "planning"
      BY <2>1, <3>2, SameBlocked, BusyPreflight DEF Running, Busy
    <3> QED
      BY <3>1, <3>2
  <2> QED
    BY <2>3, <2>4, <2>5 DEF RunInv
<1>9. ASSUME NEW p \in Paths, BeginWrite(w, p) PROVE RunInv(w)'
  <2>1. PICK l \in WriteSteps : l \in {"checkFirst", "statMan"} /\ Goto(w, l)
    BY <1>9 DEF BeginWrite, WriteSteps
  <2>2. /\ pc[w] = "applying" /\ Current(w, p) /\ UNCHANGED <<man, fs, progress, temp, steady>>
        /\ foreign'[w] = foreign[w] \ {p}
        /\ plan[w][p] # "Unchanged" /\ Inspect(w, p) = plan[w][p]
    BY <1>9 DEF BeginWrite, At, Look, HistoryTypeOK, tree
  <2>3. pc'[w] = l /\ LedgerInv(w)' /\ PreflightInv(w)'
    BY <2>1, <2>2, MoveInv DEF Busy
  <2>4. plan[w][p] \in {"Create", "Replace"}
    BY <2>2, InspectType DEF RunTypeOK, OutputActions
  <2>5. WindowInv(w)'
    <3> SUFFICES ASSUME NEW q \in Paths, Current(w, q)' PROVE plan'[w][q] \in {"Create", "Replace"}
      BY <2>1, <2>3 DEF WindowInv
    <3>1. q = p
      BY <2>2, CurrentUnique DEF Current, progress
    <3> QED
      BY <2>2, <2>4, <3>1 DEF progress
  <2>6. TempInv(w)'
    BY <2>1, <2>2, <2>3 DEF RunInv, TempInv, TempSteps, Outputs, Current, FolderExists, progress
  <2> QED
    BY <2>3, <2>5, <2>6 DEF RunInv
<1>10. ASSUME NEW p \in Paths, NEW l \in WriteSteps, pc[w] \in WriteSteps, Current(w, p), Goto(w, l),
              UNCHANGED <<fs, progress, steady>>, foreign'[w] \in {foreign[w], foreign[w] \ {p}},
              man' = man, temp'[w] = temp[w], pc[w] \in TempSteps <=> l \in TempSteps,
              temp[w] # "Partial",
              l \in {"setMode", "persist"} =>
                \/ Inspect(w, p) = plan[w][p]
                \/ pc[w] \in {"setMode", "persist"} /\ foreign'[w] = foreign[w]
       PROVE RunInv(w)'
  <2>1. pc'[w] = l /\ LedgerInv(w)' /\ PreflightInv(w)'
    BY <1>10, MoveInv DEF Busy
  <2>2. \A q \in Paths : Current(w, q)' => q = p
    BY <1>10, CurrentUnique DEF Current, progress
  <2>3. WindowInv(w)'
    <3>1. Inspect(w, p)' = Inspect(w, p) /\ plan' = plan
      BY <1>10 DEF Inspect, progress
    <3>2. plan[w][p] \in {"Create", "Replace"}
      BY <1>10 DEF RunInv, WindowInv
    <3>3. l \in {"setMode", "persist"} /\ p \notin foreign'[w] => Inspect(w, p) = plan[w][p]
      BY <1>10 DEF RunInv, WindowInv
    <3> QED
      BY <2>1, <2>2, <3>1, <3>2, <3>3 DEF WindowInv
  <2>4. TempInv(w)'
    BY <1>10, <2>1 DEF RunInv, TempInv, Outputs, Current, FolderExists, progress
  <2> QED
    BY <2>1, <2>3, <2>4 DEF RunInv
<1>11. ASSUME NEW p \in Paths, StatMan(w, p) PROVE RunInv(w)'
  <2>1. PICK l \in {"makeMan", "restatMan"} : Goto(w, l)
    BY <1>11 DEF StatMan
  <2>2. temp[w] # "Partial"
    BY <1>11 DEF StatMan, At, RunInv, TempInv
  <2> QED
    BY <1>10, <1>11, <2>1, <2>2 DEF StatMan, At, tree, WriteSteps, TempSteps
<1>12. ASSUME NEW p \in Paths, MakeMan(w, p) PROVE RunInv(w)'
  <2>1. /\ pc[w] = "makeMan" /\ Current(w, p) /\ Goto(w, "restatMan") /\ man' = "dir"
        /\ UNCHANGED <<fs, progress, temp>> /\ man = "missing"
        /\ steady'[w] = steady[w] /\ foreign'[w] = foreign[w] \ {MAN}
    BY <1>12 DEF MakeMan, At, Disturb
  <2>2. "restatMan" \in WriteSteps /\ pc[w] \in Busy /\ "restatMan" \notin TempSteps
    BY <2>1 DEF WriteSteps, Busy, TempSteps
  <2>3. pc'[w] = "restatMan"
    BY <2>1 DEF Goto, RunTypeOK
  <2>4. \A q \in completed[w] \ foreign'[w] : fs'[q] = want'[w][q]
    <3>1. completed[w] \subseteq Paths
      BY DEF RunTypeOK
    <3> QED
      BY <2>1, <3>1, PathNumbers DEF RunInv, LedgerInv, progress
  <2>5. LedgerInv(w)'
    BY <2>1, <2>2, <2>3, <2>4 DEF RunInv, LedgerInv, Busy, WriteSteps, progress, Outputs
  <2>6. PreflightInv(w)'
    BY <2>1, <2>2, <2>3, SameBlocked, BusyPreflight DEF progress
  <2>7. WindowInv(w)'
    BY <2>1, <2>3 DEF RunInv, WindowInv, WriteSteps, Current, progress
  <2>8. TempInv(w)'
    BY <2>1, <2>2, <2>3 DEF RunInv, TempInv, TempSteps, Outputs, Current, FolderExists, progress
  <2> QED
    BY <2>5, <2>6, <2>7, <2>8 DEF RunInv
<1>13. ASSUME NEW p \in Paths, RestatMan(w, p) PROVE RunInv(w)'
  <2>1. CASE Fail(w, p)
    BY <1>13, <2>1, FailInv DEF RestatMan, At, tree, Busy, WriteSteps
  <2>2. CASE Goto(w, "checkFirst") /\ UNCHANGED <<progress, temp>>
    <3>1. temp[w] # "Partial"
      BY <1>13 DEF RestatMan, At, RunInv, TempInv
    <3> QED
      BY <1>10, <1>13, <2>2, <3>1 DEF RestatMan, At, tree, WriteSteps, TempSteps
  <2> QED
    BY <1>13, <2>1, <2>2 DEF RestatMan
<1>14. ASSUME NEW p \in Paths, CheckFirst(w, p) PROVE RunInv(w)'
  <2>0. foreign'[w] = foreign[w] \ {p}
    BY <1>14 DEF CheckFirst, Look, HistoryTypeOK
  <2>1. CASE Fail(w, p)
    BY <1>14, <2>0, <2>1, FailInv DEF CheckFirst, At, tree, Busy, WriteSteps
  <2>2. CASE Goto(w, "createTemp") /\ UNCHANGED <<progress, temp>>
    <3>1. temp[w] # "Partial"
      BY <1>14 DEF CheckFirst, At, RunInv, TempInv
    <3> QED
      BY <1>10, <1>14, <2>0, <2>2, <3>1 DEF CheckFirst, At, tree, WriteSteps, TempSteps
  <2> QED
    BY <1>14, <2>1, <2>2 DEF CheckFirst
<1>15. ASSUME NEW p \in Paths, CheckLast(w, p) PROVE RunInv(w)'
  <2>0. foreign'[w] = foreign[w] \ {p}
    BY <1>15 DEF CheckLast, Look, HistoryTypeOK
  <2>1. CASE Fail(w, p)
    BY <1>15, <2>0, <2>1, FailInv DEF CheckLast, At, tree, Busy, WriteSteps
  <2>2. CASE ~Fail(w, p)
    <3>1. PICK l \in {"setMode", "persist"} : Goto(w, l)
      BY <1>15, <2>2 DEF CheckLast
    <3>2. temp[w] # "Partial"
      BY <1>15 DEF CheckLast, At, RunInv, TempInv
    <3>3. Inspect(w, p) = plan[w][p] /\ UNCHANGED <<progress, temp>>
      BY <1>15, <2>2 DEF CheckLast
    <3> QED
      BY <1>10, <1>15, <2>0, <3>1, <3>2, <3>3 DEF CheckLast, At, tree, WriteSteps, TempSteps
  <2> QED
    BY <2>1, <2>2
<1>16. ASSUME NEW p \in Paths, SetMode(w, p) PROVE RunInv(w)'
  <2>1. CASE Fail(w, p)
    BY <1>16, <2>1, FailInv DEF SetMode, At, tree, Busy, WriteSteps
  <2>2. CASE Goto(w, "persist") /\ UNCHANGED <<progress, temp>>
    <3>1. temp[w] # "Partial"
      BY <1>16 DEF SetMode, At, RunInv, TempInv
    <3> QED
      BY <1>10, <1>16, <2>2, <3>1 DEF SetMode, At, tree, WriteSteps, TempSteps
  <2> QED
    BY <1>16, <2>1, <2>2 DEF SetMode
<1>17. ASSUME NEW p \in Paths, CreateTemp(w, p) PROVE RunInv(w)'
  <2>1. CASE Fail(w, p)
    BY <1>17, <2>1, FailInv DEF CreateTemp, At, tree, Busy, WriteSteps
  <2>2. CASE ~Fail(w, p)
    <3>1. /\ pc[w] = "createTemp" /\ Current(w, p) /\ FolderExists(p) /\ temp'[w] = "Partial"
          /\ Goto(w, "writeTemp") /\ UNCHANGED <<man, fs, steady, foreign, progress>>
      BY <1>17, <2>2 DEF CreateTemp, At, tree, RunTypeOK
    <3>2. pc'[w] = "writeTemp" /\ LedgerInv(w)' /\ PreflightInv(w)'
      BY <3>1, MoveInv DEF WriteSteps, Busy
    <3>3. \A q \in Paths : Current(w, q)' => q = p
      BY <3>1, CurrentUnique DEF Current, progress
    <3>4. TempInv(w)'
      BY <3>1, <3>2, <3>3, TextAssumption
      DEF RunInv, TempInv, TempSteps, Outputs, FolderExists, progress, Sentinels
    <3>5. WindowInv(w)'
      BY <3>1, <3>2 DEF RunInv, WindowInv, WriteSteps, Current, progress
    <3> QED
      BY <3>2, <3>4, <3>5 DEF RunInv
  <2> QED
    BY <2>1, <2>2
<1>18. ASSUME NEW p \in Paths, WriteTemp(w, p) PROVE RunInv(w)'
  <2>1. /\ pc[w] = "writeTemp" /\ Current(w, p) /\ temp'[w] \in {"Lost", want[w][p]}
        /\ temp[w] # "NoTemp" /\ (temp'[w] # "Lost" => temp[w] # "Lost")
        /\ Goto(w, "checkLast") /\ UNCHANGED <<man, fs, steady, foreign, progress>>
    <3>1. pc[w] = "writeTemp" /\ temp[w] # "NoTemp"
      BY <1>18 DEF WriteTemp, At, RunInv, TempInv, TempSteps
    <3> QED
      BY <1>18, <3>1 DEF WriteTemp, At, tree, RunTypeOK
  <2>2. pc'[w] = "checkLast" /\ LedgerInv(w)' /\ PreflightInv(w)'
    BY <2>1, MoveInv DEF WriteSteps, Busy
  <2>3. \A q \in Paths : Current(w, q)' => q = p
    BY <2>1, CurrentUnique DEF Current, progress
  <2>4. want[w][p] \in Generated
    BY <2>1, WantIsFunction DEF Current, RunInv, TempInv, Outputs
  <2>5. temp'[w] \notin {"NoTemp", "Partial"}
    BY <2>1, <2>4, TextAssumption DEF Sentinels
  <2>6. temp'[w] # "Lost" => FolderExists(p)
    BY <2>1 DEF RunInv, TempInv
  <2>7. temp'[w] \in Generated => temp'[w] = want[w][p]
    BY <2>1, TextAssumption DEF Sentinels
  <2>8. TempInv(w)'
    BY <2>1, <2>2, <2>3, <2>5, <2>6, <2>7
    DEF RunInv, TempInv, TempSteps, Outputs, FolderExists, progress
  <2>9. WindowInv(w)'
    BY <2>1, <2>2 DEF RunInv, WindowInv, WriteSteps, Current, progress
  <2> QED
    BY <2>2, <2>8, <2>9 DEF RunInv
<1>19. ASSUME NEW p \in Paths, KeepUnchanged(w, p) PROVE RunInv(w)'
  <2>1. fs[p] = want[w][p]
    BY <1>19, InspectType DEF KeepUnchanged, Inspect
  <2>2. fs = [fs EXCEPT ![p] = want[w][p]]
    BY <2>1 DEF TreeTypeOK
  <2>3. temp[w] = "NoTemp"
    BY <1>19 DEF KeepUnchanged, At, RunInv, TempInv, TempSteps
  <2>4. foreign'[w] = foreign[w] \ {p}
    BY <1>19 DEF KeepUnchanged, Look, HistoryTypeOK
  <2> QED
    BY <1>19, <2>2, <2>3, <2>4, CompleteInv DEF KeepUnchanged, At, tree, Busy
<1>20. ASSUME NEW p \in Paths, Persist(w, p) PROVE RunInv(w)'
  <2>1. temp[w] = want[w][p]
    <3>1. temp[w] \in Generated
      BY <1>20, TextAssumption DEF Persist, At, RunInv, TempInv, TempSteps, RunTypeOK
    <3> QED
      BY <1>20, <3>1 DEF Persist, At, RunInv, TempInv
  <2>2. steady'[w] = steady[w] /\ foreign'[w] = foreign[w] \ {p} /\ temp'[w] = "NoTemp"
    BY <1>20 DEF Persist, Disturb, RunTypeOK
  <2> QED
    BY <1>20, <2>1, <2>2, CompleteInv DEF Persist, At, Busy, WriteSteps
<1> QED
  BY <1>1, <1>2, <1>3, <1>4, <1>5, <1>6, <1>7, <1>8, <1>9, <1>11, <1>12, <1>13, <1>14, <1>15,
     <1>16, <1>17, <1>18, <1>19, <1>20
  DEF StepOf, Advance, Interrupt

-----------------------------------------------------------------------------
(* The invariant *)

\* Every step keeps the inductive invariant.
LEMMA InvStep == TypeOK /\ WriterInv /\ [Next]_vars => WriterInv'
<1> SUFFICES ASSUME TypeOK, WriterInv, [Next]_vars, NEW v \in Runs PROVE RunInv(v)'
  BY DEF WriterInv, RunInv
<1>0. RunInv(v)
  BY DEF WriterInv, RunInv
<1>1. CASE UNCHANGED vars
  BY <1>0, <1>1 DEF vars, RunInv, TempInv, WindowInv, LedgerInv, PreflightInv, Blocked, Inspect,
                    Current, FolderExists, Outputs
<1>2. ASSUME NEW w \in Runs, StepOf(w) PROVE RunInv(v)'
  BY <1>0, <1>2, OwnInv, OthersKeepInv
<1>3. CASE Environment
  BY <1>0, <1>3, EnvironmentKeepsInv
<1> QED
  BY <1>1, <1>2, <1>3 DEF Next, StepOf

\* The types and the inductive invariant hold in every behaviour of the
\* writer, for any number of processes, paths and texts and any bounds.
THEOREM Invariance == Spec => [](TypeOK /\ WriterInv)
<1>1. Init => TypeOK /\ WriterInv
  BY InitType, InitInv
<1>2. TypeOK /\ WriterInv /\ [Next]_vars => (TypeOK /\ WriterInv)'
  BY TypeStep, InvStep
<1> QED
  BY <1>1, <1>2, PTL DEF Spec

\* Every variable keeps its type; no destination ever holds a partial text.
THEOREM Typing == Spec => []TypeOK
  BY Invariance, PTL

\* plan_outputs is all or nothing: with a destination in the way that was
\* there from the start, a run applies no entry.
THEOREM PreflightSafe == Spec => []PreflightIsAllOrNothing
<1>1. WriterInv => PreflightIsAllOrNothing
  BY DEF WriterInv, PreflightIsAllOrNothing, PreflightInv, LedgerInv
<1> QED
  BY <1>1, Invariance, PTL

\* apply_outputs reports success only for a tree that holds every output.
THEOREM SuccessSafe == Spec => []SuccessMeansPublished
<1>1. WriterInv => SuccessMeansPublished
  BY DEF WriterInv, SuccessMeansPublished, LedgerInv
<1> QED
  BY <1>1, Invariance, PTL

\* The only step of a run that changes a destination is its rename.
LEMMA OnlyPersistWrites ==
  ASSUME TypeOK, NEW w \in Runs, StepOf(w), fs' # fs
  PROVE \E p \in Paths : Persist(w, p)
<1>1. CASE Begin(w) \/ EndBeforeGate(w)
  BY <1>1 DEF Begin, EndBeforeGate, Start, tree
<1>2. CASE RefusePlan(w) \/ AcceptPlan(w) \/ Finish(w) \/ RootFault(w) \/ Kill(w)
  BY <1>2 DEF RefusePlan, AcceptPlan, Finish, RootFault, Kill, tree
<1>3. ASSUME NEW p \in Paths,
             \/ RevalidateStale(w, p) \/ StatMan(w, p) \/ MakeMan(w, p) \/ MakeManExists(w, p)
             \/ RestatMan(w, p) \/ CreateTemp(w, p) \/ WriteTemp(w, p) \/ SetMode(w, p)
             \/ PersistFails(w, p) \/ PlanFault(w, p) \/ ApplyFault(w, p) \/ PlanEntry(w, p)
             \/ KeepUnchanged(w, p) \/ BeginWrite(w, p) \/ CheckFirst(w, p) \/ CheckLast(w, p)
      PROVE fs' = fs
  BY <1>3 DEF RevalidateStale, StatMan, MakeMan, MakeManExists, RestatMan, CreateTemp, WriteTemp,
     SetMode, PersistFails, PlanFault, ApplyFault, PlanEntry, KeepUnchanged, BeginWrite,
     CheckFirst, CheckLast, tree
<1> QED
  BY <1>1, <1>2, <1>3 DEF StepOf, Advance, Interrupt

\* What a rename finds at its destination is what the plan expects, or news.
LEMMA PersistFinds ==
  ASSUME TypeOK, WriterInv, NEW w \in Runs, NEW p \in Paths, Persist(w, p), p \notin foreign[w]
  PROVE fs[p] \notin Unmanaged /\ fs[p] # want[w][p]
<1>1. Inspect(w, p) = plan[w][p] /\ plan[w][p] \in {"Create", "Replace"}
  BY DEF Persist, At, WriterInv, WindowInv, WriteSteps
<1>2. want[w][p] \in Generated
  BY WantIsFunction DEF Persist, At, Current, WriterInv, TempInv, Outputs, TypeOK
<1> QED
  BY <1>1, <1>2, TextAssumption DEF Inspect, Sentinels

\* A rename puts the whole text of the entry at its path, and nothing elsewhere.
LEMMA PersistWrites ==
  ASSUME TypeOK, NEW w \in Runs, NEW p \in Paths, WriterInv, Persist(w, p)
  PROVE /\ Writes(w, p) /\ \A q \in Paths : q # p => fs'[q] = fs[q]
        /\ fs'[p] = want[w][p]
<1>1. p \notin completed[w]
  <2>1. p \in Nat /\ \A q \in completed[w] : q < p
    BY PathNumbers DEF Persist, At, Current, WriterInv, LedgerInv, WriteSteps
  <2> QED
    BY <2>1
<1>2. temp[w] = want[w][p]
  <2>1. temp[w] \in Generated
    BY TextAssumption DEF Persist, At, WriterInv, TempInv, TempSteps, TypeOK, RunTypeOK
  <2> QED
    BY <2>1 DEF Persist, At, WriterInv, TempInv
<1> QED
  BY <1>1, <1>2 DEF Persist, At, Complete, Writes, TypeOK, TreeTypeOK, RunTypeOK

\* write_entry's guarantee: a hand-written, foreign or unreadable node is
\* replaced only if it appeared between the last inspection and the rename.
THEOREM UnmanagedSafe == Spec => UnmanagedSurvives
<1>1. ASSUME TypeOK, WriterInv, [Next]_vars, NEW p \in Paths,
             fs[p] \in Unmanaged, fs'[p] # fs[p], edits' = edits
      PROVE \E w \in Runs : Writes(w, p) /\ p \in foreign[w]
  <2>0. edits \in Nat
    BY <1>1, BoundAssumption DEF TypeOK, BoundTypeOK
  <2>1. ~Environment
    <3>1. edits' # edits + 1
      BY <1>1, <2>0
    <3> QED
      BY <3>1 DEF Environment, Edit, EditMan
  <2>2. PICK w \in Runs : StepOf(w)
    BY <1>1, <2>1 DEF Next, StepOf, vars
  <2>3. PICK q \in Paths : Persist(w, q)
    BY <1>1, <2>2, OnlyPersistWrites
  <2>4. q = p /\ Writes(w, p)
    BY <1>1, <2>3, PersistWrites
  <2> QED
    BY <1>1, <2>3, <2>4, PersistFinds
<1>2. TypeOK /\ WriterInv /\ [Next]_vars =>
        [\A p \in Paths : fs[p] \in Unmanaged /\ fs'[p] # fs[p] /\ edits' = edits
           => \E w \in Runs : Writes(w, p) /\ p \in foreign[w]]_vars
  BY <1>1
<1> QED
  BY <1>2, Invariance, PTL DEF Spec, UnmanagedSurvives

\* A run completes an entry in a persist step only by renaming.
LEMMA WritesIsPersist ==
  ASSUME TypeOK, NEW w \in Runs, NEW v \in Runs, StepOf(w), NEW p \in Paths, Writes(v, p)
  PROVE Persist(v, p)
<1>1. v = w
  BY OthersKeepMemory DEF Writes, Memory, TypeOK
<1>2. completed'[w] # completed[w] /\ pc[w] = "persist" /\ p \in completed'[w] \ completed[w]
  BY <1>1 DEF Writes
<1>3. ~Begin(w) /\ ~EndBeforeGate(w) /\ ~RefusePlan(w) /\ ~AcceptPlan(w) /\ ~Finish(w)
      /\ ~RootFault(w)
  BY <1>2 DEF Begin, EndBeforeGate, Start, Stopped, RefusePlan, AcceptPlan, Finish, RootFault
<1>4. ~Kill(w)
  BY <1>2 DEF Kill, progress
<1>5. ASSUME NEW q \in Paths
      PROVE /\ ~PlanEntry(w, q) /\ ~RevalidateStale(w, q) /\ ~KeepUnchanged(w, q) /\ ~BeginWrite(w, q)
            /\ ~StatMan(w, q) /\ ~MakeMan(w, q) /\ ~MakeManExists(w, q) /\ ~RestatMan(w, q)
            /\ ~CheckFirst(w, q) /\ ~CreateTemp(w, q) /\ ~WriteTemp(w, q) /\ ~CheckLast(w, q)
            /\ ~SetMode(w, q) /\ ~PlanFault(w, q)
  BY <1>2 DEF PlanEntry, RevalidateStale, KeepUnchanged, BeginWrite, StatMan, MakeMan,
     MakeManExists, RestatMan, CheckFirst, CreateTemp, WriteTemp, CheckLast, SetMode, PlanFault, At
<1>6. ASSUME NEW q \in Paths PROVE ~PersistFails(w, q) /\ ~ApplyFault(w, q)
  BY <1>2 DEF PersistFails, ApplyFault, Fail
<1>7. PICK q \in Paths : Persist(w, q)
  BY <1>3, <1>4, <1>5, <1>6 DEF StepOf, Advance, Interrupt
<1>8. q = p
  BY <1>2, <1>7 DEF Persist, Complete, TypeOK, RunTypeOK
<1> QED
  BY <1>1, <1>7, <1>8

\* A file that already holds the output is left alone.
THEOREM UnchangedSafe == Spec => UnchangedIsNotRewritten
<1>1. ASSUME TypeOK, WriterInv, [Next]_vars, NEW w \in Runs, NEW p \in Paths,
             Writes(w, p), fs[p] = want[w][p]
      PROVE p \in foreign[w]
  <2>1. completed' # completed
    BY <1>1 DEF Writes
  <2>2. ~Environment /\ ~UNCHANGED vars
    BY <2>1 DEF Environment, Edit, EditMan, progress, vars
  <2>3. PICK v \in Runs : StepOf(v)
    BY <1>1, <2>2 DEF Next, StepOf
  <2>4. Persist(w, p)
    BY <1>1, <2>3, WritesIsPersist
  <2> QED
    BY <1>1, <2>4, PersistFinds
<1>2. TypeOK /\ WriterInv /\ [Next]_vars =>
        [\A w \in Runs, p \in Paths : Writes(w, p) /\ fs[p] = want[w][p] => p \in foreign[w]]_vars
  BY <1>1
<1> QED
  BY <1>2, Invariance, PTL DEF Spec, UnchangedIsNotRewritten

-----------------------------------------------------------------------------
(* The detailed protocol implements OutputTree *)

\* The abstract tree has the paths and nodes of the writer ...
LEMMA SamePaths == Tree!Paths = Paths /\ Tree!Nodes = Nodes
  BY NumRdAssumption DEF Tree!Paths, Paths, RdPaths, NAMESPACE, Tree!Nodes, Nodes

\* ... and the same outputs of each run.
LEMMA SameOutputs == \A w \in Runs : Tree!Outputs(w) = Outputs(w)
  BY SamePaths DEF Tree!Outputs, Outputs

\* Between the gate and the end, what is left to do is what is not published.
LEMMA LeftToPublish ==
  ASSUME TypeOK, WriterInv, NEW w \in Runs, pc[w] \in Busy
  PROVE Outputs(w) \ completed[w] = todo[w]
<1>1. /\ Outputs(w) = completed[w] \cup todo[w]
      /\ \A c \in completed[w], q \in todo[w] : c < q
  BY DEF WriterInv, LedgerInv, Busy
<1>2. completed[w] \cap todo[w] = {}
  <2> SUFFICES ASSUME NEW c \in completed[w] \cap todo[w] PROVE FALSE
    OBVIOUS
  <2>1. c \in Nat
    BY PathNumbers DEF TypeOK, RunTypeOK
  <2> QED
    BY <1>1, <2>1
<1> QED
  BY <1>1, <1>2

\* The initial states map to initial states of the abstract tree.
LEMMA TreeInit == Init => Tree!Init
<1> SUFFICES ASSUME Init PROVE Tree!Init
  OBVIOUS
<1>1. Phase = [w \in Runs |-> "idle"]
  BY DEF Init, Phase, Running, WriteSteps
<1>2. {w \in Runs : status[w] = "Success"} = {}
  BY DEF Init
<1> QED
  BY <1>1, <1>2, SamePaths DEF Init, Tree!Init, NoOutputs

\* A step that writes no destination, completes nothing and stays on one
\* side of the run's end is invisible.
LEMMA InvisibleStep ==
  ASSUME TypeOK, NEW w \in Runs, NEW l, Goto(w, l), l \in Running, pc[w] \in Running,
         UNCHANGED <<fs, want, completed, status, edits>>
  PROVE UNCHANGED Tree!vars
<1>1. Phase' = Phase
  BY DEF Phase, Goto, TypeOK, RunTypeOK
<1> QED
  BY <1>1 DEF Tree!vars

\* A run that stops, with or without Success, is the abstract End.
LEMMA EndStep ==
  ASSUME TypeOK, NEW w \in Runs, NEW l \in {"ended", "killed"}, Goto(w, l), pc[w] \in Running,
         UNCHANGED <<fs, want, completed, edits>>, NEW t, status' = [status EXCEPT ![w] = t],
         status[w] # "Success", t = "Success" => completed[w] = Outputs(w)
  PROVE Tree!End(w)
<1>1. Phase[w] = "running" /\ Phase' = [Phase EXCEPT ![w] = "ended"]
  BY DEF Phase, Goto, TypeOK, RunTypeOK, Running, WriteSteps
<1>2. \A v \in Runs : v # w => status'[v] = status[v]
  BY DEF TypeOK, RunTypeOK
<1>3. status'[w] = t
  BY DEF TypeOK, RunTypeOK
<1>4. {v \in Runs : status'[v] = "Success"} =
        IF t = "Success" THEN {v \in Runs : status[v] = "Success"} \cup {w}
                         ELSE {v \in Runs : status[v] = "Success"}
  BY <1>2, <1>3
<1>5. w \in {v \in Runs : status'[v] = "Success"} => completed[w] = Tree!Outputs(w)
  BY <1>3, SameOutputs
<1> QED
  BY <1>1, <1>4, <1>5 DEF Tree!End

\* An applied entry is published in the abstract tree.
LEMMA PublishStep ==
  ASSUME TypeOK, WriterInv, NEW w \in Runs, NEW p \in Paths, pc[w] \in Busy, Current(w, p),
         Complete(w, p), fs' = [fs EXCEPT ![p] = want[w][p]], edits' = edits
  PROVE Tree!Publish(w, p)
<1>1. Phase[w] = "running" /\ Phase' = Phase
  BY DEF Phase, Complete, Goto, TypeOK, RunTypeOK, Running, Busy
<1>2. /\ p \in Tree!Outputs(w) \ completed[w]
      /\ \A q \in Tree!Outputs(w) \ completed[w] : p <= q
  BY LeftToPublish, SameOutputs DEF Current
<1> QED
  BY <1>1, <1>2 DEF Tree!Publish, Complete

\* A run whose gate opens begins in the abstract tree.
LEMMA BeginStep ==
  ASSUME TypeOK, NEW w \in Runs, Begin(w)
  PROVE Tree!Begin(w)
<1>1. pc[w] \notin Running /\ pc' = [pc EXCEPT ![w] = "planning"]
  BY DEF Begin, Start, Goto, Stopped, Running, WriteSteps
<1>2. Phase[w] # "running" /\ Phase' = [Phase EXCEPT ![w] = "running"]
  BY <1>1 DEF Phase, TypeOK, RunTypeOK, Running
<1>3. {v \in Runs : status'[v] = "Success"} = {v \in Runs : status[v] = "Success"} \ {w}
  BY DEF Begin, TypeOK, RunTypeOK
<1> QED
  BY <1>2, <1>3 DEF Begin, Start, tree, Tree!Begin

\* A run whose gate stays shut is refused in the abstract tree.
LEMMA RefuseStep ==
  ASSUME TypeOK, NEW w \in Runs, EndBeforeGate(w)
  PROVE Tree!Refuse(w)
<1>1. pc[w] \notin Running /\ pc' = [pc EXCEPT ![w] = "ended"]
  BY DEF EndBeforeGate, Start, Goto, Stopped, Running, WriteSteps
<1>2. Phase[w] # "running" /\ Phase' = [Phase EXCEPT ![w] = "ended"]
  BY <1>1 DEF Phase, TypeOK, RunTypeOK, Running, WriteSteps
<1>3. {v \in Runs : status'[v] = "Success"} = {v \in Runs : status[v] = "Success"} \ {w}
  BY DEF EndBeforeGate, TypeOK, RunTypeOK
<1>4. want' = [want EXCEPT ![w] = [p \in Tree!Paths |-> "NoOutput"]]
  BY SamePaths DEF EndBeforeGate, NoOutputs
<1> QED
  BY <1>2, <1>3, <1>4 DEF EndBeforeGate, Start, tree, Tree!Refuse

\* Every step maps to a step of the abstract tree or a stutter.
LEMMA TreeStep ==
  ASSUME TypeOK, WriterInv, TypeOK', [Next]_vars
  PROVE [Tree!Next]_(Tree!vars)
<1>0. CASE UNCHANGED vars
  BY <1>0 DEF vars, Tree!vars, Phase
<1>1. ASSUME NEW w \in Runs, Begin(w) \/ EndBeforeGate(w) PROVE Tree!Next
  BY <1>1, BeginStep, RefuseStep DEF Tree!Next
<1>2. ASSUME NEW w \in Runs, pc[w] \in {"planning"} \cup Busy
      PROVE pc[w] \in Running /\ status[w] # "Success"
  BY <1>2 DEF WriterInv, LedgerInv, Busy, Running
<1>3. ASSUME NEW w \in Runs, RefusePlan(w) \/ RootFault(w) \/ Finish(w) PROVE Tree!Next
  <2>1. PICK t \in {"Operational", "Success"} :
          /\ status' = [status EXCEPT ![w] = t] /\ Goto(w, "ended")
          /\ UNCHANGED <<fs, want, completed, edits>> /\ pc[w] \in {"planning"} \cup Busy
          /\ t = "Success" => pc[w] = "applying" /\ todo[w] = {}
    BY <1>3 DEF RefusePlan, RootFault, Finish, tree, bounds, Busy
  <2>2. t = "Success" => completed[w] = Outputs(w)
    BY <2>1 DEF WriterInv, LedgerInv
  <2>3. Tree!End(w)
    BY <1>2, <2>1, <2>2, EndStep
  <2> QED
    BY <2>3 DEF Tree!Next
<1>4. ASSUME NEW w \in Runs, NEW p \in Paths, pc[w] \in Busy, Fail(w, p), UNCHANGED <<fs, edits>>
      PROVE Tree!Next
  <2>1. Tree!End(w)
    BY <1>2, <1>4, EndStep DEF Fail
  <2> QED
    BY <2>1 DEF Tree!Next
<1>5. ASSUME NEW w \in Runs, Kill(w) PROVE Tree!Next
  <2>1. pc[w] \in Running /\ status[w] # "Success"
    BY <1>2, <1>5 DEF Kill, Running, Busy
  <2>2. status' = [status EXCEPT ![w] = status[w]]
    BY <1>5 DEF Kill, progress, TypeOK, RunTypeOK
  <2>3. Tree!End(w)
    BY <1>5, <2>1, <2>2, EndStep DEF Kill, progress
  <2> QED
    BY <2>3 DEF Tree!Next
<1>6. ASSUME NEW w \in Runs, AcceptPlan(w) PROVE UNCHANGED Tree!vars
  <2>1. "applying" \in Running /\ pc[w] \in Running
    BY <1>6 DEF AcceptPlan, Running
  <2> QED
    BY <1>6, <2>1, InvisibleStep DEF AcceptPlan, tree, bounds
<1>7. ASSUME NEW w \in Runs, NEW p \in Paths, PlanEntry(w, p) \/ PlanFault(w, p)
      PROVE UNCHANGED Tree!vars
  BY <1>7 DEF PlanEntry, PlanFault, tree, bounds, Tree!vars, Phase
<1>8. ASSUME NEW w \in Runs, NEW p \in Paths, KeepUnchanged(w, p) \/ Persist(w, p)
      PROVE Tree!Next
  <2>1. pc[w] \in Busy /\ Current(w, p) /\ Complete(w, p) /\ edits' = edits
    BY <1>8 DEF KeepUnchanged, Persist, At, Busy, WriteSteps, bounds
  <2>2. fs' = [fs EXCEPT ![p] = want[w][p]]
    <3>1. CASE KeepUnchanged(w, p)
      <4>1. fs[p] = want[w][p]
        BY <3>1 DEF KeepUnchanged, Inspect
      <4> QED
        BY <3>1, <4>1 DEF KeepUnchanged, tree, TypeOK, TreeTypeOK
    <3>2. CASE Persist(w, p)
      <4>1. fs' = [fs EXCEPT ![p] = temp[w]]
        BY <3>2 DEF Persist
      <4>2. temp[w] = want[w][p]
        <5>1. temp[w] \in Generated
          BY <3>2 DEF Persist, At, WriterInv, TempInv, TempSteps, TypeOK, RunTypeOK
        <5> QED
          BY <3>2, <5>1 DEF Persist, At, WriterInv, TempInv
      <4> QED
        BY <4>1, <4>2
    <3> QED
      BY <1>8, <3>1, <3>2
  <2>3. Tree!Publish(w, p)
    BY <2>1, <2>2, PublishStep
  <2> QED
    BY <2>3, SamePaths DEF Tree!Next
<1>9. ASSUME NEW w \in Runs, NEW p \in Paths,
             \/ RevalidateStale(w, p) \/ MakeManExists(w, p) \/ PersistFails(w, p) \/ ApplyFault(w, p)
      PROVE Tree!Next
  <2>1. pc[w] \in Busy /\ Fail(w, p) /\ UNCHANGED <<fs, edits>>
    BY <1>9 DEF RevalidateStale, MakeManExists, PersistFails, ApplyFault, At, Busy, WriteSteps, tree, bounds
  <2> QED
    BY <1>4, <2>1
<1>10. ASSUME NEW w \in Runs, NEW p \in Paths,
              \/ RestatMan(w, p) \/ CheckFirst(w, p) \/ CreateTemp(w, p) \/ CheckLast(w, p)
              \/ SetMode(w, p) \/ BeginWrite(w, p) \/ StatMan(w, p) \/ MakeMan(w, p) \/ WriteTemp(w, p)
       PROVE Tree!Next \/ UNCHANGED Tree!vars
  <2>1. pc[w] \in Busy /\ UNCHANGED <<fs, edits>>
    BY <1>10 DEF RestatMan, CheckFirst, CreateTemp, CheckLast, SetMode, BeginWrite, StatMan, MakeMan,
       WriteTemp, At, Busy, WriteSteps, tree, bounds
  <2>2. Fail(w, p) \/ \E l \in WriteSteps : Goto(w, l) /\ UNCHANGED progress
    BY <1>10 DEF RestatMan, CheckFirst, CreateTemp, CheckLast, SetMode, BeginWrite, StatMan, MakeMan,
       WriteTemp, WriteSteps
  <2>3. CASE Fail(w, p)
    BY <1>4, <2>1, <2>3
  <2>4. ASSUME NEW l \in WriteSteps, Goto(w, l), UNCHANGED progress PROVE UNCHANGED Tree!vars
    <3>1. l \in Running /\ pc[w] \in Running
      BY <2>1 DEF Running, Busy
    <3> QED
      BY <2>1, <2>4, <3>1, InvisibleStep DEF progress
  <2> QED
    BY <2>2, <2>3, <2>4
<1>11. ASSUME Environment PROVE Tree!Next
  <2>1. /\ edits < MaxEdits /\ edits' = edits + 1
        /\ UNCHANGED <<pc, want, completed, status>>
    BY <1>11 DEF Environment, Edit, EditMan, progress
  <2>2. fs' \in [Tree!Paths -> Tree!Nodes]
    BY SamePaths DEF TypeOK, TreeTypeOK
  <2>3. Tree!Edit
    BY <2>1, <2>2 DEF Tree!Edit, Phase
  <2> QED
    BY <2>3 DEF Tree!Next
<1> QED
  BY <1>0, <1>1, <1>3, <1>5, <1>6, <1>7, <1>8, <1>9, <1>10, <1>11
  DEF Next, Advance, Interrupt

\* roxy doc's writer implements OutputTree: whole texts, one at a time, in
\* path order, and Success only after the last of them.
THEOREM Implements == Spec => ImplementsTree
<1>1. Init => Tree!Init
  BY TreeInit
<1>2. TypeOK /\ WriterInv /\ TypeOK' /\ [Next]_vars => [Tree!Next]_(Tree!vars)
  BY TreeStep
<1> QED
  BY <1>1, <1>2, Invariance, PTL DEF Spec, Tree!Spec, ImplementsTree

-----------------------------------------------------------------------------
(* Reports *)

\* An entry that fails is reported once, between the applied entries and
\* those that were not attempted.
LEMMA FailReport ==
  ASSUME TypeOK, NEW w \in Runs, NEW p \in Paths, RunInv(w), pc[w] \in Busy, Current(w, p),
         Fail(w, p)
  PROVE /\ failed'[w] = {p} /\ status'[w] = "Operational" /\ want' = want
        /\ Outputs(w)' = completed'[w] \cup failed'[w] \cup todo'[w]
        /\ \A c \in completed'[w], q \in failed'[w] \cup todo'[w] : c < q
        /\ \A f \in failed'[w], q \in todo'[w] : f < q
<1>1. /\ failed'[w] = {p} /\ status'[w] = "Operational" /\ want' = want
      /\ todo'[w] = todo[w] \ {p} /\ completed' = completed
  BY DEF Fail, TypeOK, RunTypeOK
<1>2. Outputs(w)' = Outputs(w) /\ p \in todo[w]
  BY <1>1 DEF Outputs, Current
<1>3. /\ Outputs(w) = completed[w] \cup todo[w]
      /\ \A c \in completed[w], q \in todo[w] : c < q
  BY DEF RunInv, LedgerInv, Busy
<1>4. \A q \in todo[w] \ {p} : p < q
  <2>1. \A q \in todo[w] : q \in Nat /\ p \in Nat /\ p <= q
    BY PathNumbers DEF Current, TypeOK, RunTypeOK
  <2> QED
    BY <2>1
<1> QED
  BY <1>1, <1>2, <1>3, <1>4

\* The report of one run.
Accounts(w) ==
  pc[w] = "ended" /\ errors[w] = {} /\ completed[w] \cup failed[w] # {} =>
     /\ Outputs(w) = completed[w] \cup failed[w] \cup todo[w]
     /\ \A p \in completed[w], q \in failed[w] \cup todo[w] : p < q
     /\ \A p \in failed[w], q \in todo[w] : p < q
     /\ status[w] = "Success" <=> failed[w] = {}

\* Every failure goes through Fail, and every other end is RefusePlan,
\* RootFault, EndBeforeGate or Finish.
LEMMA EndsBy ==
  ASSUME TypeOK, NEW w \in Runs, StepOf(w), pc'[w] = "ended"
  PROVE \/ EndBeforeGate(w) \/ RefusePlan(w) \/ RootFault(w) \/ Finish(w)
        \/ \E p \in Paths : pc[w] \in Busy /\ Current(w, p) /\ Fail(w, p)
<1> USE DEF TypeOK, RunTypeOK
<1>1. ~Begin(w) /\ ~AcceptPlan(w) /\ ~Kill(w)
  BY DEF Begin, AcceptPlan, Kill, Goto
<1>2. ASSUME NEW p \in Paths
      PROVE ~PlanEntry(w, p) /\ ~PlanFault(w, p)
  BY DEF PlanEntry, PlanFault
<1>3. ASSUME NEW p \in Paths
      PROVE /\ ~KeepUnchanged(w, p) /\ ~BeginWrite(w, p) /\ ~StatMan(w, p) /\ ~MakeMan(w, p)
            /\ ~WriteTemp(w, p) /\ ~Persist(w, p)
  BY DEF KeepUnchanged, BeginWrite, StatMan, MakeMan, WriteTemp, Persist, Complete, Goto
<1>4. ASSUME NEW p \in Paths,
             \/ RevalidateStale(w, p) \/ MakeManExists(w, p) \/ PersistFails(w, p) \/ ApplyFault(w, p)
             \/ RestatMan(w, p) \/ CheckFirst(w, p) \/ CreateTemp(w, p) \/ CheckLast(w, p)
             \/ SetMode(w, p)
      PROVE pc[w] \in Busy /\ Current(w, p) /\ Fail(w, p)
  <2>1. pc[w] \in Busy /\ Current(w, p)
    BY <1>4 DEF RevalidateStale, MakeManExists, PersistFails, ApplyFault, RestatMan, CheckFirst,
       CreateTemp, CheckLast, SetMode, At, Busy, WriteSteps
  <2>2. Fail(w, p) \/ \E l \in WriteSteps : Goto(w, l)
    BY <1>4 DEF RevalidateStale, MakeManExists, PersistFails, ApplyFault, RestatMan, CheckFirst,
       CreateTemp, CheckLast, SetMode, WriteSteps
  <2>3. ASSUME NEW l \in WriteSteps, Goto(w, l) PROVE FALSE
    BY <2>3 DEF Goto, WriteSteps
  <2> QED
    BY <2>1, <2>2, <2>3
<1> QED
  BY <1>1, <1>2, <1>3, <1>4 DEF StepOf, Advance, Interrupt

\* A step of a run leaves its report true.
LEMMA OwnReport ==
  ASSUME TypeOK, NEW w \in Runs, RunInv(w), StepOf(w)
  PROVE Accounts(w)'
<1> SUFFICES ASSUME pc'[w] = "ended" PROVE Accounts(w)'
  BY DEF Accounts
<1>1. CASE EndBeforeGate(w)
  <2>1. completed'[w] = {} /\ failed'[w] = {}
    BY <1>1 DEF EndBeforeGate, Start, TypeOK, RunTypeOK
  <2> QED
    BY <2>1 DEF Accounts
<1>2. CASE RefusePlan(w) \/ RootFault(w)
  <2>1. completed'[w] = {} /\ failed'[w] = {}
    BY <1>2 DEF RefusePlan, RootFault, RunInv, LedgerInv
  <2> QED
    BY <2>1 DEF Accounts
<1>3. CASE Finish(w)
  <2>1. /\ todo'[w] = {} /\ failed'[w] = {} /\ status'[w] = "Success"
        /\ completed'[w] = Outputs(w)' /\ pc[w] = "applying"
    <3>1. /\ UNCHANGED <<want, todo, completed, failed>> /\ todo[w] = {} /\ pc[w] = "applying"
          /\ status'[w] = "Success"
      BY <1>3 DEF Finish, TypeOK, RunTypeOK
    <3>2. failed[w] = {} /\ Outputs(w) = completed[w] \cup todo[w]
      BY <3>1 DEF RunInv, LedgerInv
    <3> QED
      BY <3>1, <3>2 DEF Outputs
  <2> QED
    BY <2>1 DEF Accounts
<1>4. ASSUME NEW p \in Paths, pc[w] \in Busy, Current(w, p), Fail(w, p) PROVE Accounts(w)'
  BY <1>4, FailReport DEF Accounts
<1> QED
  BY <1>1, <1>2, <1>3, <1>4, EndsBy

\* Every step leaves every report true.
LEMMA ReportStep ==
  TypeOK /\ WriterInv /\ ReportAccounts /\ [Next]_vars => ReportAccounts'
<1> SUFFICES ASSUME TypeOK, WriterInv, ReportAccounts, [Next]_vars, NEW v \in Runs
             PROVE Accounts(v)'
  BY DEF ReportAccounts, Accounts
<1>1. Accounts(v)
  BY DEF ReportAccounts, Accounts
<1>2. ASSUME UNCHANGED Memory(v) PROVE Accounts(v)'
  BY <1>1, <1>2 DEF Accounts, Memory, Outputs
<1>3. CASE UNCHANGED vars
  BY <1>2, <1>3 DEF vars, Memory
<1>4. CASE Environment
  <2>1. temp'[v] = temp[v] \/ \E m \in {"missing", "dir", "blocked"} : EditMan(m)
    BY <1>4 DEF Environment, Edit
  <2>2. pc' = pc /\ UNCHANGED progress
    BY <1>4 DEF Environment, Edit, EditMan
  <2> QED
    BY <1>1, <2>2 DEF Accounts, progress, Outputs
<1>5. ASSUME NEW w \in Runs, StepOf(w) PROVE Accounts(v)'
  <2>1. CASE v = w
    BY <1>5, <2>1, OwnReport DEF WriterInv, RunInv
  <2>2. CASE v # w
    BY <1>2, <1>5, <2>2, OthersKeepMemory DEF TypeOK
  <2> QED
    BY <2>1, <2>2
<1> QED
  BY <1>3, <1>4, <1>5 DEF Next, StepOf

-----------------------------------------------------------------------------
(* A run that is left alone *)

\* What the invariant of a quiet run says is about its memory and the tree.
LEMMA QuietSame ==
  ASSUME RunTypeOK, NEW v \in Runs, QuietInv(v), UNCHANGED Memory(v),
         Quiet(v)' => Quiet(v) /\ man' = man /\ \A p \in Paths : fs'[p] = fs[p]
  PROVE QuietInv(v)'
<1> SUFFICES ASSUME Quiet(v)' PROVE QuietInv(v)'
  BY DEF QuietInv
<1>1. Quiet(v) /\ man' = man /\ (\A p \in Paths : fs'[p] = fs[p]) /\ steady'[v] = steady[v]
  BY DEF Quiet
<1>2. /\ Outputs(v)' = Outputs(v) /\ (Blocked(v)' <=> Blocked(v))
      /\ \A p \in Paths : /\ Current(v, p)' <=> Current(v, p)
                          /\ Inspect(v, p)' = Inspect(v, p)
                          /\ FolderExists(p)' <=> FolderExists(p)
  BY <1>1 DEF Outputs, Blocked, Current, Inspect, FolderExists, Memory
<1>3. /\ errors[v] \subseteq Paths /\ todo[v] \subseteq Paths /\ Outputs(v) \subseteq Paths
      /\ errors[v] = errors'[v] /\ todo'[v] = todo[v] /\ plan'[v] = plan[v]
  BY DEF RunTypeOK, Outputs, Memory
<1> QED
  BY <1>1, <1>2, <1>3, NamespaceIsPath DEF QuietInv, Memory

\* No step takes a failure of the file system back.
LEMMA FaultsGrow ==
  ASSUME NEW w \in Runs, StepOf(w)
  PROVE faults' = faults \/ faults' = faults + 1
  BY DEF StepOf, Advance, Interrupt, Begin, EndBeforeGate, Start, RefusePlan, AcceptPlan, Finish, Kill,
   RootFault, PlanFault, ApplyFault, PlanEntry, RevalidateStale, KeepUnchanged, BeginWrite, StatMan,
   MakeMan, MakeManExists, RestatMan, CheckFirst, CreateTemp, WriteTemp, CheckLast, SetMode, Persist,
   PersistFails, bounds

\* A run is no longer quiet when another run changes the tree ...
LEMMA OthersKeepQuiet ==
  ASSUME TypeOK, NEW w \in Runs, NEW v \in Runs, v # w, StepOf(w), QuietInv(v)
  PROVE QuietInv(v)'
<1>1. UNCHANGED Memory(v) /\ Tolerable(v)
  BY OthersKeepMemory, TreeEffect DEF TypeOK
<1>2. Quiet(v)' => Quiet(v) /\ man' = man /\ \A p \in Paths : fs'[p] = fs[p]
  <2> SUFFICES ASSUME Quiet(v)' PROVE Quiet(v) /\ man' = man /\ \A p \in Paths : fs'[p] = fs[p]
    OBVIOUS
  <2>1. /\ steady'[v] = Paths \cup {MAN} /\ faults' = 0 /\ want[v] # NoOutputs
        /\ faults = 0
    <3>1. faults' = 0 /\ faults \in Nat /\ (faults' = faults \/ faults' = faults + 1)
      BY FaultsGrow, BoundAssumption DEF Quiet, TypeOK, BoundTypeOK
    <3> QED
      BY <1>1, <3>1 DEF Quiet, Memory
  <2>2. /\ \A p \in Paths : p \in steady[v] /\ fs'[p] = fs[p]
        /\ MAN \in steady[v] /\ man' = man
    BY <1>1, <2>1 DEF Tolerable
  <2>3. steady[v] = Paths \cup {MAN}
    BY <2>2 DEF TypeOK, HistoryTypeOK
  <2> QED
    BY <2>1, <2>2, <2>3 DEF Quiet
<1> QED
  BY <1>1, <1>2, QuietSame DEF TypeOK

\* ... or the environment does.
LEMMA EnvironmentKeepsQuiet ==
  ASSUME TypeOK, NEW v \in Runs, Environment
  PROVE QuietInv(v)'
<1>1. \E q \in Paths \cup {MAN} : q \notin steady'[v]
  <2>1. ASSUME NEW p \in Paths, Edit(p) PROVE p \notin steady'[v]
    BY <2>1 DEF Edit, Disturb
  <2>2. ASSUME NEW m \in {"missing", "dir", "blocked"}, EditMan(m) PROVE MAN \notin steady'[v]
    BY <2>2 DEF EditMan, Disturb
  <2> QED
    BY <2>1, <2>2 DEF Environment
<1> QED
  BY <1>1 DEF QuietInv, Quiet

\* A run that is left alone moves on without failing: each of its checks
\* finds what the one before it found.
LEMMA QuietNeverFails ==
  ASSUME TypeOK, NEW w \in Runs, NEW p \in Paths, RunInv(w), QuietInv(w), Quiet(w)
  PROVE /\ ~RevalidateStale(w, p) /\ ~MakeManExists(w, p) /\ ~PersistFails(w, p)
        /\ StatMan(w, p) => man # "blocked"
        /\ RestatMan(w, p) => man = "dir" /\ Goto(w, "checkFirst") /\ UNCHANGED <<progress, temp>>
        /\ CheckFirst(w, p) => Goto(w, "createTemp") /\ UNCHANGED <<progress, temp>>
        /\ CreateTemp(w, p) => /\ Goto(w, "writeTemp") /\ UNCHANGED progress
                               /\ temp'[w] = "Partial"
        /\ CheckLast(w, p) => /\ Goto(w, "setMode") \/ Goto(w, "persist")
                              /\ UNCHANGED <<progress, temp>>
        /\ SetMode(w, p) => Goto(w, "persist") /\ UNCHANGED <<progress, temp>>
<1>1. pc[w] \in Busy /\ Current(w, p) => Inspect(w, p) = plan[w][p]
  BY DEF QuietInv, Busy, Current
<1>2. pc[w] \in WriteSteps /\ Current(w, p) => plan[w][p] \in {"Create", "Replace"}
  BY DEF RunInv, WindowInv
<1>3. temp[w] # "Lost"
  BY DEF QuietInv
<1>4. ~RevalidateStale(w, p)
  BY <1>1 DEF RevalidateStale, At, Busy
<1>5. ~MakeManExists(w, p)
  BY DEF MakeManExists, At, QuietInv
<1>6. ~PersistFails(w, p)
  <2>1. fs[p] \in Unmanaged => Inspect(w, p) = "Refused"
    BY TextAssumption DEF Inspect, Sentinels
  <2> QED
    BY <1>1, <1>2, <1>3, <2>1 DEF PersistFails, At, Busy, WriteSteps
<1>7. StatMan(w, p) => man # "blocked"
  <2>1. StatMan(w, p) => p # NAMESPACE
    BY DEF StatMan, At, QuietInv
  <2>2. p # NAMESPACE /\ man = "blocked" => Inspect(w, p) = "Refused"
    BY DEF Inspect
  <2> QED
    BY <1>1, <1>2, <2>1, <2>2 DEF StatMan, At, Busy, WriteSteps
<1>8. RestatMan(w, p) => man = "dir" /\ Goto(w, "checkFirst") /\ UNCHANGED <<progress, temp>>
  BY DEF RestatMan, At, QuietInv
<1>9. /\ CheckFirst(w, p) => Goto(w, "createTemp") /\ UNCHANGED <<progress, temp>>
      /\ CheckLast(w, p) => /\ Goto(w, "setMode") \/ Goto(w, "persist")
                            /\ UNCHANGED <<progress, temp>>
  BY <1>1 DEF CheckFirst, CheckLast, At, Busy, WriteSteps
<1>10. CreateTemp(w, p) => /\ Goto(w, "writeTemp") /\ UNCHANGED progress
                           /\ temp'[w] = "Partial"
  <2>1. CreateTemp(w, p) => FolderExists(p)
    BY DEF CreateTemp, At, QuietInv
  <2> QED
    BY <2>1 DEF CreateTemp, TypeOK, RunTypeOK
<1>11. SetMode(w, p) => Goto(w, "persist") /\ UNCHANGED <<progress, temp>>
  BY <1>3 DEF SetMode
<1> QED
  BY <1>4, <1>5, <1>6, <1>7, <1>8, <1>9, <1>10, <1>11

\* The run moves to its next call and is still undisturbed.
LEMMA QuietMove ==
  ASSUME TypeOK, NEW w \in Runs, NEW p \in Paths, NEW l \in WriteSteps, QuietInv(w), Quiet(w),
         pc[w] \in Busy, Current(w, p), Goto(w, l), UNCHANGED progress, fs' = fs,
         man' = man \/ (man' = "dir" /\ man = "missing"), temp'[w] # "Lost",
         l \in {"statMan", "makeMan", "restatMan"} => p # NAMESPACE,
         l = "makeMan" => man' = "missing",
         l = "restatMan" => man' = "dir",
         l \in {"checkFirst", "createTemp"} \cup TempSteps => p = NAMESPACE \/ man' = "dir"
  PROVE QuietInv(w)'
<1>1. pc'[w] = l /\ l # "planning" /\ l # "ended"
  BY DEF Goto, TypeOK, RunTypeOK, WriteSteps
<1>2. /\ \A q \in Paths : Current(w, q)' <=> Current(w, q)
      /\ \A q \in Paths : Current(w, q) => q = p
      /\ \A q \in todo[w] : Inspect(w, q)' = Inspect(w, q)
  BY CurrentUnique DEF Current, Inspect, progress
<1>3. \A q \in todo[w] : Inspect(w, q) = plan[w][q]
  BY DEF QuietInv, Busy
<1> QED
  BY <1>1, <1>2, <1>3, NamespaceIsPath DEF QuietInv, progress, FolderExists

\* A step of a run that is left alone keeps what the run knows.
LEMMA OwnQuiet ==
  ASSUME TypeOK, TypeOK', NEW w \in Runs, RunInv(w), QuietInv(w), StepOf(w)
  PROVE QuietInv(w)'
<1> SUFFICES ASSUME Quiet(w)' PROVE QuietInv(w)'
  BY DEF QuietInv
<1>0. faults' = 0 /\ faults = 0
  <2>1. faults' = 0 /\ faults \in Nat /\ (faults' = faults \/ faults' = faults + 1)
    BY FaultsGrow, BoundAssumption DEF Quiet, TypeOK, BoundTypeOK
  <2> QED
    BY <2>1
<1> USE DEF TypeOK
<1>1. CASE Begin(w)
  <2>1. /\ pc'[w] = "planning" /\ temp'[w] = temp[w] /\ errors'[w] = {}
    BY <1>1 DEF Begin, Start, Goto, RunTypeOK
  <2>2. todo'[w] = Outputs(w)'
    BY <1>1 DEF Begin, Outputs, RunTypeOK
  <2>3. temp[w] = "NoTemp"
    BY <1>1, BusyLabels DEF Begin, Start, RunInv, TempInv
  <2> QED
    BY <2>1, <2>2, <2>3 DEF QuietInv, WriteSteps, TempSteps
<1>2. CASE EndBeforeGate(w)
  <2>1. want'[w] = NoOutputs
    BY <1>2 DEF EndBeforeGate, RunTypeOK
  <2> QED
    BY <2>1 DEF Quiet
<1>3. ASSUME ~Begin(w), ~EndBeforeGate(w) PROVE want'[w] = want[w] /\ steady'[w] = steady[w]
  BY <1>3 DEF StepOf, Advance, Interrupt, RefusePlan, AcceptPlan, Finish, Kill,
     RootFault, PlanFault, ApplyFault, PlanEntry, RevalidateStale, KeepUnchanged, BeginWrite, StatMan,
     MakeMan, MakeManExists, RestatMan, CheckFirst, CreateTemp, WriteTemp, CheckLast, SetMode, Persist,
     PersistFails, progress, Fail, Complete, Disturb
<1>4. SUFFICES ASSUME ~Begin(w), ~EndBeforeGate(w), Quiet(w) PROVE QuietInv(w)'
  BY <1>0, <1>1, <1>2, <1>3 DEF Quiet
<1>5. ~RootFault(w) /\ \A p \in Paths : ~PlanFault(w, p) /\ ~ApplyFault(w, p)
  BY <1>0 DEF RootFault, PlanFault, ApplyFault
<1>6. CASE RefusePlan(w)
  <2>1. PICK p \in errors[w] : p \in Outputs(w) /\ Inspect(w, p) = "Refused"
    BY <1>4, <1>6 DEF RefusePlan, QuietInv
  <2>2. /\ pc'[w] = "ended" /\ UNCHANGED <<man, fs, want, steady>> /\ temp'[w] = temp[w]
    BY <1>6 DEF RefusePlan, Goto, RunTypeOK, tree
  <2>3. Blocked(w)'
    <3>1. p \in Paths /\ p \in Outputs(w)' \cap steady'[w] /\ MAN \in steady'[w]
      BY <1>4, <2>1, <2>2 DEF Quiet, Outputs
    <3>2. (p # NAMESPACE /\ man = "blocked") \/ fs[p] \in Unmanaged
      BY <2>1, InspectType, <3>1 DEF Inspect, OutputActions
    <3> QED
      BY <2>2, <3>1, <3>2 DEF Blocked
  <2> QED
    BY <1>4, <2>2, <2>3 DEF QuietInv, WriteSteps, TempSteps
<1>7. CASE AcceptPlan(w)
  <2>1. /\ pc'[w] = "applying" /\ todo'[w] = Outputs(w) /\ UNCHANGED <<man, fs, want, plan, temp>>
        /\ pc[w] = "planning" /\ todo[w] = {} /\ errors[w] = {}
    BY <1>7 DEF AcceptPlan, Goto, RunTypeOK, tree
  <2>2. \A p \in Outputs(w) : Inspect(w, p)' = plan'[w][p]
    BY <1>4, <2>1 DEF QuietInv, Inspect
  <2> QED
    BY <1>4, <2>1, <2>2 DEF QuietInv, WriteSteps, TempSteps
<1>8. ASSUME NEW p \in Paths, PlanEntry(w, p) PROVE QuietInv(w)'
  <2>1. /\ pc[w] = "planning" /\ p \in todo[w] /\ todo[w] \subseteq Outputs(w)
        /\ todo'[w] = todo[w] \ {p} /\ UNCHANGED <<man, fs, pc, want, temp>>
    BY <1>8 DEF PlanEntry, Current, RunInv, TempInv, RunTypeOK, tree
  <2>2. /\ Outputs(w)' = Outputs(w) /\ p \in Outputs(w)
        /\ \A q \in Paths : Inspect(w, q)' = Inspect(w, q)
    BY <2>1 DEF Outputs, Inspect
  <2>3. CASE Inspect(w, p) = "Refused"
    <3>1. errors'[w] = errors[w] \cup {p} /\ plan' = plan
      BY <1>8, <2>3 DEF PlanEntry, RunTypeOK
    <3>2. \A q \in errors'[w] : q \in Outputs(w) /\ Inspect(w, q) = "Refused"
      BY <1>4, <2>1, <2>2, <2>3, <3>1 DEF QuietInv
    <3>3. \A q \in Outputs(w) \ (todo'[w] \cup errors'[w]) : Inspect(w, q) = plan'[w][q]
      BY <1>4, <2>1, <2>2, <3>1 DEF QuietInv
    <3> QED
      BY <1>4, <2>1, <2>2, <3>2, <3>3 DEF QuietInv, WriteSteps, TempSteps, Outputs
  <2>4. CASE Inspect(w, p) # "Refused"
    <3>1. errors' = errors /\ plan' = [plan EXCEPT ![w][p] = Inspect(w, p)]
      BY <1>8, <2>4 DEF PlanEntry
    <3>2. \A q \in Paths : plan'[w][q] = IF q = p THEN Inspect(w, p) ELSE plan[w][q]
      BY <3>1 DEF RunTypeOK
    <3>3. \A q \in errors'[w] : q \in Outputs(w) /\ Inspect(w, q) = "Refused"
      BY <1>4, <2>1, <3>1 DEF QuietInv
    <3>4. \A q \in Outputs(w) \ (todo'[w] \cup errors'[w]) : Inspect(w, q) = plan'[w][q]
      BY <1>4, <2>1, <3>1, <3>2 DEF QuietInv, Outputs
    <3> QED
      BY <1>4, <2>1, <2>2, <3>3, <3>4 DEF QuietInv, WriteSteps, TempSteps, Outputs
  <2> QED
    BY <2>3, <2>4
<1>9. ASSUME NEW p \in Paths, pc[w] \in Busy, Current(w, p), Complete(w, p), temp'[w] = "NoTemp",
             man' = man, \A q \in Paths : q # p => fs'[q] = fs[q]
      PROVE QuietInv(w)'
  <2>1. /\ pc'[w] = "applying" /\ todo'[w] = todo[w] \ {p} /\ UNCHANGED <<want, plan>>
        /\ todo[w] \subseteq Paths
    BY <1>9 DEF Complete, Goto, RunTypeOK
  <2>2. \A q \in todo'[w] : Inspect(w, q)' = Inspect(w, q) /\ Inspect(w, q) = plan[w][q]
    BY <1>4, <1>9, <2>1 DEF QuietInv, Inspect, Busy
  <2> QED
    BY <1>9, <2>1, <2>2 DEF QuietInv, WriteSteps, TempSteps
<1>10. ASSUME NEW p \in Paths, KeepUnchanged(w, p) \/ Persist(w, p) PROVE QuietInv(w)'
  <2>1. temp'[w] = "NoTemp"
    <3>1. CASE KeepUnchanged(w, p)
      BY <3>1 DEF KeepUnchanged, At, RunInv, TempInv, TempSteps
    <3>2. CASE Persist(w, p)
      BY <3>2 DEF Persist, RunTypeOK
    <3> QED
      BY <1>10, <3>1, <3>2
  <2>2. man' = man /\ \A q \in Paths : q # p => fs'[q] = fs[q]
    BY <1>10 DEF KeepUnchanged, Persist, tree, TreeTypeOK
  <2> QED
    BY <1>9, <1>10, <2>1, <2>2 DEF KeepUnchanged, Persist, At, Busy, WriteSteps
<1>11. CASE Kill(w)
  <2>1. pc'[w] = "killed" /\ temp'[w] = "NoTemp"
    BY <1>11 DEF Kill, Goto, RunTypeOK
  <2> QED
    BY <2>1 DEF QuietInv, WriteSteps, TempSteps
<1>12. CASE Finish(w)
  <2>1. pc'[w] = "ended" /\ temp'[w] = temp[w] /\ status'[w] = "Success"
    BY <1>12 DEF Finish, Goto, RunTypeOK
  <2> QED
    BY <1>4, <2>1 DEF QuietInv, WriteSteps, TempSteps
<1>13. temp[w] # "Lost" /\ \A p \in Paths : pc[w] \in Busy /\ Current(w, p) => want[w][p] # "Lost"
  <2>1. \A p \in Paths : pc[w] \in Busy /\ Current(w, p) => want[w][p] \in Generated
    BY WantIsFunction DEF Current, RunInv, TempInv, Outputs
  <2> QED
    BY <1>4, <2>1, TextAssumption DEF QuietInv, Sentinels
<1>14. ASSUME NEW p \in Paths, BeginWrite(w, p) PROVE QuietInv(w)'
  <2>1. /\ pc[w] \in Busy /\ Current(w, p) /\ UNCHANGED progress /\ fs' = fs /\ man' = man
        /\ temp'[w] # "Lost"
    BY <1>13, <1>14 DEF BeginWrite, At, Busy, tree
  <2>2. PICK l \in {"checkFirst", "statMan"} : Goto(w, l) /\ (l = "checkFirst" <=> p = NAMESPACE)
    BY <1>14 DEF BeginWrite
  <2>3. /\ l \in WriteSteps /\ l # "makeMan" /\ l # "restatMan"
        /\ l \in {"statMan", "makeMan", "restatMan"} => p # NAMESPACE
        /\ l \in {"checkFirst", "createTemp"} \cup TempSteps => p = NAMESPACE
    BY <2>2 DEF WriteSteps, TempSteps, FolderExists
  <2> QED
    BY <1>4, <2>1, <2>2, <2>3, QuietMove
<1>15. ASSUME NEW p \in Paths, StatMan(w, p) PROVE QuietInv(w)'
  <2>1. p # NAMESPACE /\ man \in {"missing", "dir"}
    BY <1>4, <1>15, QuietNeverFails DEF StatMan, At, QuietInv, TreeTypeOK
  <2>2. PICK l \in {"makeMan", "restatMan"} :
          Goto(w, l) /\ (l = "makeMan" => man = "missing") /\ (l = "restatMan" => man = "dir")
    BY <1>15, <2>1 DEF StatMan
  <2>3. /\ pc[w] \in Busy /\ Current(w, p) /\ UNCHANGED progress /\ fs' = fs /\ man' = man
        /\ temp'[w] # "Lost"
    BY <1>13, <1>15 DEF StatMan, At, Busy, WriteSteps, tree
  <2>4. l \in WriteSteps /\ l \notin {"checkFirst", "createTemp"} \cup TempSteps
    BY <2>2 DEF WriteSteps, TempSteps
  <2> QED
    BY <1>4, <2>1, <2>2, <2>3, <2>4, QuietMove
<1>16. ASSUME NEW p \in Paths, MakeMan(w, p) PROVE QuietInv(w)'
  <2>1. p # NAMESPACE
    BY <1>4, <1>16 DEF MakeMan, At, QuietInv
  <2> QED
    BY <1>4, <1>13, <1>16, <2>1, QuietMove DEF MakeMan, At, Busy, WriteSteps, TempSteps
<1>17. ASSUME NEW p \in Paths, RestatMan(w, p) PROVE QuietInv(w)'
  <2>1. man = "dir" /\ Goto(w, "checkFirst") /\ UNCHANGED <<progress, temp>>
    BY <1>4, <1>17, QuietNeverFails
  <2>2. /\ pc[w] \in Busy /\ Current(w, p) /\ UNCHANGED progress /\ fs' = fs /\ man' = man
        /\ temp'[w] # "Lost" /\ (p = NAMESPACE \/ man' = "dir")
    BY <1>13, <1>17, <2>1 DEF RestatMan, At, Busy, WriteSteps, tree, FolderExists
  <2>3. "checkFirst" \in WriteSteps
    BY DEF WriteSteps
  <2> QED
    BY <1>4, <2>1, <2>2, <2>3, QuietMove
<1>18. ASSUME NEW p \in Paths, CheckFirst(w, p) \/ CreateTemp(w, p) \/ WriteTemp(w, p)
                               \/ CheckLast(w, p) \/ SetMode(w, p)
       PROVE QuietInv(w)'
  <2>1. /\ UNCHANGED <<man, fs>> /\ Current(w, p) /\ pc[w] \in Busy
        /\ pc[w] \in {"checkFirst", "createTemp"} \cup TempSteps
    BY <1>18 DEF CheckFirst, CreateTemp, WriteTemp, CheckLast, SetMode, tree, At, Busy, WriteSteps,
       TempSteps
  <2>2. p = NAMESPACE \/ man' = "dir"
    BY <1>4, <2>1 DEF QuietInv, FolderExists
  <2>3. UNCHANGED progress /\ temp'[w] # "Lost" /\ \E l \in {"createTemp"} \cup TempSteps : Goto(w, l)
    <3>1. CASE WriteTemp(w, p)
      <4>1. temp'[w] = want[w][p]
        BY <1>13, <3>1 DEF WriteTemp, RunTypeOK
      <4> QED
        BY <1>13, <2>1, <3>1, <4>1 DEF WriteTemp, TempSteps
    <3>2. CASE CreateTemp(w, p)
      BY <1>4, <3>2, QuietNeverFails DEF TempSteps
    <3>3. CASE CheckFirst(w, p) \/ CheckLast(w, p) \/ SetMode(w, p)
      BY <1>4, <1>13, <3>3, QuietNeverFails DEF TempSteps
    <3> QED
      BY <1>18, <3>1, <3>2, <3>3
  <2>4. PICK l \in {"createTemp"} \cup TempSteps : Goto(w, l)
    BY <2>3
  <2>5. l \in WriteSteps /\ l \notin {"statMan", "makeMan", "restatMan"}
    BY <2>4 DEF WriteSteps, TempSteps
  <2> HIDE DEF TypeOK
  <2> QED
    BY <1>4, <2>1, <2>2, <2>3, <2>4, <2>5, QuietMove
<1> QED
  BY <1>4, <1>5, <1>6, <1>7, <1>8, <1>10, <1>11, <1>12, <1>14, <1>15, <1>16, <1>17, <1>18,
     QuietNeverFails
  DEF StepOf, Advance, Interrupt

\* Every step keeps what the runs that are left alone know.
LEMMA QuietStep ==
  TypeOK /\ TypeOK' /\ WriterInv /\ (\A w \in Runs : QuietInv(w)) /\ [Next]_vars
    => \A w \in Runs : QuietInv(w)'
<1> SUFFICES ASSUME TypeOK, TypeOK', WriterInv, \A w \in Runs : QuietInv(w), [Next]_vars, NEW v \in Runs
             PROVE QuietInv(v)'
  OBVIOUS
<1>1. CASE UNCHANGED vars
  BY <1>1, QuietSame DEF vars, Memory, Quiet, TypeOK
<1>2. ASSUME NEW w \in Runs, StepOf(w) PROVE QuietInv(v)'
  BY <1>2, OwnQuiet, OthersKeepQuiet DEF WriterInv, RunInv
<1>3. CASE Environment
  BY <1>3, EnvironmentKeepsQuiet
<1> QED
  BY <1>1, <1>2, <1>3 DEF Next, StepOf

\* The reports of the writer are true in every behaviour, for any number of
\* processes, paths and texts: a report accounts for every entry once, and a
\* run that nothing disturbed over a tree with nothing to refuse succeeded.
THEOREM ReportsTrue == Spec => []ReportsAreTrue
<1> DEFINE QInv == \A w \in Runs : QuietInv(w)
<1>1. Init => ReportAccounts /\ QInv
  <2> SUFFICES ASSUME Init, NEW w \in Runs PROVE Accounts(w) /\ QuietInv(w)
    BY DEF ReportAccounts, Accounts
  <2>1. pc[w] = "idle" /\ temp[w] = "NoTemp"
    BY DEF Init
  <2> QED
    BY <2>1 DEF Accounts, QuietInv, WriteSteps, TempSteps
<1>2. TypeOK /\ TypeOK' /\ WriterInv /\ ReportAccounts /\ QInv /\ [Next]_vars => ReportAccounts' /\ QInv'
  BY ReportStep, QuietStep
<1>3. ReportAccounts /\ QInv => ReportsAreTrue
  BY DEF ReportsAreTrue, QuietRunSucceeds, QuietInv, Quiet
<1> HIDE DEF QInv
<1> QED
  BY <1>1, <1>2, <1>3, Invariance, PTL DEF Spec


-----------------------------------------------------------------------------
(* Processes that race *)

\* The bounds only grow.
LEMMA BoundsGrow ==
  ASSUME NEW w \in Runs, StepOf(w)
  PROVE /\ edits' = edits
        /\ kills' = kills \/ kills' = kills + 1
        /\ IF Begin(w) \/ EndBeforeGate(w) THEN starts' = starts + 1 ELSE starts' = starts
  BY DEF StepOf, Advance, Interrupt, Begin, EndBeforeGate, Start, RefusePlan, AcceptPlan, Finish, Kill,
   RootFault, PlanFault, ApplyFault, PlanEntry, RevalidateStale, KeepUnchanged, BeginWrite, StatMan,
   MakeMan, MakeManExists, RestatMan, CheckFirst, CreateTemp, WriteTemp, CheckLast, SetMode, Persist,
   PersistFails, bounds

\* A process that has started is never idle again, and takes no step before.
LEMMA NeverIdleAgain ==
  ASSUME TypeOK, NEW w \in Runs, StepOf(w)
  PROVE /\ pc'[w] # "idle"
        /\ pc[w] = "idle" => Begin(w) \/ EndBeforeGate(w)
<1> USE DEF TypeOK, RunTypeOK, Goto
<1>1. CASE Begin(w) \/ EndBeforeGate(w)
  BY <1>1 DEF Begin, EndBeforeGate
<1>2. CASE RefusePlan(w) \/ AcceptPlan(w) \/ Finish(w) \/ Kill(w) \/ RootFault(w)
  BY <1>2 DEF RefusePlan, AcceptPlan, Finish, Kill, RootFault, Running, WriteSteps
<1>3. ASSUME NEW p \in Paths, PlanEntry(w, p) \/ PlanFault(w, p)
      PROVE pc'[w] # "idle" /\ pc[w] # "idle"
  BY <1>3 DEF PlanEntry, PlanFault
<1>4. ASSUME NEW p \in Paths, KeepUnchanged(w, p) \/ Persist(w, p)
      PROVE pc'[w] # "idle" /\ pc[w] # "idle"
  BY <1>4 DEF KeepUnchanged, Persist, Complete, At
<1>5. ASSUME NEW p \in Paths,
             \/ RevalidateStale(w, p) \/ MakeManExists(w, p) \/ PersistFails(w, p) \/ ApplyFault(w, p)
      PROVE pc'[w] # "idle" /\ pc[w] # "idle"
  BY <1>5 DEF RevalidateStale, MakeManExists, PersistFails, ApplyFault, Fail, At, WriteSteps
<1>6. ASSUME NEW p \in Paths,
             \/ BeginWrite(w, p) \/ StatMan(w, p) \/ MakeMan(w, p) \/ WriteTemp(w, p)
             \/ RestatMan(w, p) \/ CheckFirst(w, p) \/ CreateTemp(w, p) \/ CheckLast(w, p)
             \/ SetMode(w, p)
      PROVE pc'[w] # "idle" /\ pc[w] # "idle"
  BY <1>6 DEF BeginWrite, StatMan, MakeMan, WriteTemp, RestatMan, CheckFirst, CreateTemp, CheckLast,
     SetMode, Fail, At
<1> QED
  BY <1>1, <1>2, <1>3, <1>4, <1>5, <1>6 DEF StepOf, Advance, Interrupt

\* A start of a process that was started before leaves fewer started
\* processes than starts.
LEMMA StartsCount ==
  ASSUME TypeOK, NEW w \in Runs, StepOf(w), Cardinality(Started) <= starts
  PROVE /\ Cardinality(Started') <= starts'
        /\ OnlyRuns' => OnlyRuns /\ (Begin(w) \/ EndBeforeGate(w) => pc[w] = "idle")
<1>1. Started \subseteq Runs /\ Started' = Started \cup {w} /\ (w \in Started <=> pc[w] # "idle")
  <2>1. \A v \in Runs \ {w} : pc'[v] = pc[v]
    BY OthersKeepMemory DEF Memory, TypeOK
  <2> QED
    BY <2>1, NeverIdleAgain DEF Started
<1>2. IsFiniteSet(Started) /\ Cardinality(Started) \in Nat
  BY <1>1, RunsAssumption, FS_Subset, FS_CardinalityType
<1>3. Cardinality(Started') = IF w \in Started THEN Cardinality(Started) ELSE Cardinality(Started) + 1
  BY <1>1, <1>2, FS_AddElement
<1>4. starts \in Nat /\ edits \in Nat /\ faults \in Nat /\ kills \in Nat
  BY BoundAssumption DEF TypeOK, BoundTypeOK
<1>5. w \notin Started => Begin(w) \/ EndBeforeGate(w)
  BY <1>1, NeverIdleAgain
<1> QED
  BY <1>1, <1>2, <1>3, <1>4, <1>5, BoundsGrow, FaultsGrow DEF OnlyRuns

\* What the runs applied stays applied, unless a run is started again.
LEMMA CompletedGrows ==
  ASSUME TypeOK, WriterInv, NEW w \in Runs, StepOf(w),
         Begin(w) \/ EndBeforeGate(w) => pc[w] = "idle"
  PROVE \A v \in Runs : completed[v] \subseteq completed'[v]
<1>1. \A v \in Runs \ {w} : completed'[v] = completed[v]
  BY OthersKeepMemory DEF Memory, TypeOK
<1>2. completed[w] \subseteq completed'[w]
  <2>1. CASE Begin(w) \/ EndBeforeGate(w)
    BY <2>1 DEF WriterInv, LedgerInv
  <2>2. ASSUME NEW p \in Paths, Complete(w, p) PROVE completed[w] \subseteq completed'[w]
    BY <2>2 DEF Complete, TypeOK, RunTypeOK
  <2>3. CASE ~Begin(w) /\ ~EndBeforeGate(w) /\ \A p \in Paths : ~Complete(w, p)
    <3>1. completed' = completed
      BY <2>3 DEF StepOf, Advance, Interrupt, RefusePlan, AcceptPlan, Finish, Kill,
         RootFault, PlanFault, ApplyFault, PlanEntry, RevalidateStale, KeepUnchanged, BeginWrite, StatMan,
         MakeMan, MakeManExists, RestatMan, CheckFirst, CreateTemp, WriteTemp, CheckLast, SetMode, Persist,
         PersistFails, progress, Fail
    <3> QED
      BY <3>1
  <2> QED
    BY <2>1, <2>2, <2>3
<1> QED
  BY <1>1, <1>2

\* Only a rename changes a destination and only make man the directory.
LEMMA TreeGrows ==
  ASSUME TypeOK, WriterInv, NEW w \in Runs, StepOf(w), FoundInv(w)
  PROVE /\ man' = man \/ (man = "missing" /\ man' = "dir")
        /\ \A p \in Paths :
             \/ fs'[p] = fs[p]
             \/ fs'[p] \in Generated /\ fs[p] \notin Unmanaged /\ p \in completed'[w]
<1>1. man' = man \/ (man = "missing" /\ man' = "dir")
    BY DEF StepOf, Advance, Interrupt, Begin, EndBeforeGate, Start, RefusePlan, AcceptPlan, Finish, Kill,
     RootFault, PlanFault, ApplyFault, PlanEntry, RevalidateStale, KeepUnchanged, BeginWrite, StatMan,
     MakeMan, MakeManExists, RestatMan, CheckFirst, CreateTemp, WriteTemp, CheckLast, SetMode, Persist,
     PersistFails, tree
<1>2. ASSUME NEW p \in Paths, fs'[p] # fs[p]
      PROVE fs'[p] \in Generated /\ fs[p] \notin Unmanaged /\ p \in completed'[w]
  <2>1. PICK q \in Paths : Persist(w, q)
    BY <1>2, OnlyPersistWrites
  <2>2. q = p /\ Writes(w, p) /\ fs'[p] = want[w][p]
    BY <1>2, <2>1, PersistWrites
  <2>3. want[w][p] \in Generated
    BY <2>1, <2>2, WantIsFunction DEF Persist, At, Current, WriterInv, TempInv, Outputs, TypeOK
  <2>4. fs[p] \notin Unmanaged
    BY <2>1, <2>2, PersistFinds, TextAssumption DEF FoundInv
  <2> QED
    BY <2>2, <2>3, <2>4 DEF Writes
<1> QED
  BY <1>1, <1>2

\* A path is foreign to a run because another run wrote it.
LEMMA ForeignGrows ==
  ASSUME TypeOK, WriterInv, NEW w \in Runs, StepOf(w), NEW v \in Runs
  PROVE \A p \in foreign'[v] \cap Paths : p \in foreign[v] \/ fs'[p] \in Generated
<1>1. ASSUME NEW p \in Paths, Look(w, p) PROVE foreign'[v] \subseteq foreign[v]
  BY <1>1 DEF Look, TypeOK, HistoryTypeOK
<1>2. ASSUME NEW p \in Paths, MakeMan(w, p) PROVE foreign'[v] \subseteq foreign[v] \cup {MAN}
  BY <1>2 DEF MakeMan, Disturb
<1>3. ASSUME NEW p \in Paths, Persist(w, p)
      PROVE foreign'[v] \subseteq foreign[v] \cup {p} /\ fs'[p] \in Generated
  <2>1. foreign'[v] \subseteq foreign[v] \cup {p}
    BY <1>3 DEF Persist, Disturb
  <2>2. fs'[p] = want[w][p]
    BY <1>3, PersistWrites
  <2>3. want[w][p] \in Generated
    BY <1>3, WantIsFunction DEF Persist, At, Current, WriterInv, TempInv, Outputs, TypeOK
  <2> QED
    BY <2>1, <2>2, <2>3
<1>4. CASE Begin(w) \/ EndBeforeGate(w)
  BY <1>4 DEF Begin, EndBeforeGate, Start, TypeOK, HistoryTypeOK
<1>5. CASE /\ ~Begin(w) /\ ~EndBeforeGate(w)
           /\ \A p \in Paths : ~MakeMan(w, p) /\ ~Persist(w, p) /\ ~Look(w, p)
  <2>1. foreign' = foreign
    BY <1>5 DEF StepOf, Advance, Interrupt, RefusePlan, AcceptPlan, Finish, Kill,
     RootFault, PlanFault, ApplyFault, PlanEntry, RevalidateStale, KeepUnchanged, BeginWrite, StatMan,
     MakeManExists, RestatMan, CheckFirst, CreateTemp, WriteTemp, CheckLast, SetMode, PersistFails
  <2> QED
    BY <2>1
<1> QED
  BY <1>1, <1>2, <1>3, <1>4, <1>5, PathNumbers

\* A run that races fails only at an entry another run applied, or because
\* another run has made the man directory.
LEMMA RaceFails ==
  ASSUME TypeOK, NEW w \in Runs, NEW p \in Paths, RunInv(w), PlannedInv(w), FoundInv(w), FolderInv(w)
  PROVE /\ RevalidateStale(w, p) => Overtaken(w, p)
        /\ MakeManExists(w, p) => p \in RdPaths /\ completed[w] \cap RdPaths = {} /\ SomePastMan
        /\ PersistFails(w, p) => Overtaken(w, p)
        /\ StatMan(w, p) => man # "blocked"
        /\ RestatMan(w, p) => man = "dir" /\ Goto(w, "checkFirst") /\ UNCHANGED <<progress, temp>>
        /\ CheckFirst(w, p) => \/ Goto(w, "createTemp") /\ UNCHANGED <<progress, temp>>
                               \/ Fail(w, p) /\ Overtaken(w, p)
        /\ CreateTemp(w, p) => Goto(w, "writeTemp") /\ UNCHANGED progress /\ temp'[w] = "Partial"
        /\ CheckLast(w, p) => \/ /\ Goto(w, "setMode") \/ Goto(w, "persist")
                                 /\ UNCHANGED <<progress, temp>>
                              \/ Fail(w, p) /\ Overtaken(w, p)
        /\ SetMode(w, p) => Goto(w, "persist") /\ UNCHANGED <<progress, temp>>
<1>1. pc[w] \in Busy /\ Current(w, p) => Overtaken(w, p) \/ Inspect(w, p) = plan[w][p]
  <2> SUFFICES ASSUME pc[w] \in Busy, Current(w, p)
               PROVE Overtaken(w, p) \/ Inspect(w, p) = plan[w][p]
    OBVIOUS
  <2>1. plan[w][p] # "None"
    BY DEF PlannedInv, Busy, Current
  <2>2. p \notin completed[w]
    <3>1. p \in Nat /\ \A q \in completed[w] : q < p
      BY PathNumbers DEF Current, RunInv, LedgerInv, Busy
    <3> QED
      BY <3>1
  <2> QED
    BY <2>1, <2>2 DEF FoundInv
<1>2. pc[w] \in WriteSteps /\ Current(w, p) => plan[w][p] \in {"Create", "Replace"}
  BY DEF RunInv, WindowInv
<1>3. temp[w] # "Lost"
  BY DEF FolderInv
<1>4. RevalidateStale(w, p) => Overtaken(w, p)
  BY <1>1 DEF RevalidateStale, At, Busy
<1>5. MakeManExists(w, p) => p \in RdPaths /\ completed[w] \cap RdPaths = {} /\ SomePastMan
  BY DEF MakeManExists, At, FolderInv, Paths
<1>6. PersistFails(w, p) => Overtaken(w, p)
  <2>1. fs[p] \in Unmanaged => Inspect(w, p) = "Refused"
    BY TextAssumption DEF Inspect, Sentinels
  <2> QED
    BY <1>1, <1>2, <1>3, <2>1 DEF PersistFails, At, Busy, WriteSteps
<1>7. StatMan(w, p) => man # "blocked"
  <2>1. StatMan(w, p) => p \in RdPaths
    BY DEF StatMan, At, FolderInv, Paths
  <2> QED
    BY <1>2, <2>1 DEF StatMan, At, WriteSteps, FoundInv
<1>8. RestatMan(w, p) => man = "dir" /\ Goto(w, "checkFirst") /\ UNCHANGED <<progress, temp>>
  BY DEF RestatMan, At, FolderInv
<1>9. CheckFirst(w, p) => \/ Goto(w, "createTemp") /\ UNCHANGED <<progress, temp>>
                          \/ Fail(w, p) /\ Overtaken(w, p)
  BY <1>1 DEF CheckFirst, At, Busy, WriteSteps
<1>10. CheckLast(w, p) => \/ /\ Goto(w, "setMode") \/ Goto(w, "persist")
                             /\ UNCHANGED <<progress, temp>>
                          \/ Fail(w, p) /\ Overtaken(w, p)
  BY <1>1 DEF CheckLast, At, Busy, WriteSteps
<1>11. CreateTemp(w, p) => Goto(w, "writeTemp") /\ UNCHANGED progress /\ temp'[w] = "Partial"
  <2>1. CreateTemp(w, p) => FolderExists(p)
    BY DEF CreateTemp, At, FolderInv
  <2> QED
    BY <2>1 DEF CreateTemp, TypeOK, RunTypeOK
<1>12. SetMode(w, p) => Goto(w, "persist") /\ UNCHANGED <<progress, temp>>
  BY <1>3 DEF SetMode
<1> QED
  BY <1>4, <1>5, <1>6, <1>7, <1>8, <1>9, <1>10, <1>11, <1>12

\* Why a run that races ends without Success.
LEMMA RaceEnds ==
  ASSUME TypeOK, NEW w \in Runs, RunInv(w), PlannedInv(w), FoundInv(w), FolderInv(w), StepOf(w),
         faults' = faults, NEW p \in Paths, pc[w] \in Busy, Current(w, p), Fail(w, p)
  PROVE /\ failed'[w] = {p} /\ completed' = completed
        /\ \/ Overtaken(w, p)
           \/ pc[w] = "makeMan" /\ p \in RdPaths /\ completed[w] \cap RdPaths = {} /\ SomePastMan
<1>1. /\ pc'[w] = "ended" /\ failed'[w] = {p} /\ completed' = completed
      /\ status'[w] = "Operational" /\ temp'[w] = "NoTemp"
  BY DEF Fail, Goto, TypeOK, RunTypeOK
<1>2. /\ pc[w] \notin Stopped /\ pc[w] # "planning"
  BY BusyLabels
<1>3. ASSUME NEW q \in Paths, Current(w, q) PROVE q = p
  BY <1>3, CurrentUnique
<1>4. ~Begin(w) /\ ~EndBeforeGate(w) /\ ~RefusePlan(w) /\ ~AcceptPlan(w) /\ ~Finish(w) /\ ~RootFault(w)
      /\ ~Kill(w)
  BY <1>1, <1>2 DEF Begin, EndBeforeGate, Start, RefusePlan, AcceptPlan, Finish, RootFault, Kill, Goto,
     TypeOK, RunTypeOK
<1>5. ASSUME NEW q \in Paths
      PROVE /\ ~PlanEntry(w, q) /\ ~PlanFault(w, q) /\ ~KeepUnchanged(w, q) /\ ~BeginWrite(w, q)
            /\ ~StatMan(w, q) /\ ~MakeMan(w, q) /\ ~WriteTemp(w, q) /\ ~Persist(w, q) /\ ~ApplyFault(w, q)
  BY <1>1, <1>2, BoundAssumption
  DEF PlanEntry, PlanFault, KeepUnchanged, BeginWrite, StatMan, MakeMan, WriteTemp, Persist, ApplyFault, Complete, Goto, TypeOK, RunTypeOK, BoundTypeOK
<1>6. ASSUME NEW q \in Paths, NEW l \in WriteSteps PROVE ~Goto(w, l)
  BY <1>1 DEF Goto, WriteSteps, TypeOK, RunTypeOK
<1>7. ASSUME NEW q \in Paths,
             \/ RevalidateStale(w, q) \/ MakeManExists(w, q) \/ RestatMan(w, q) \/ CheckFirst(w, q)
             \/ CreateTemp(w, q) \/ CheckLast(w, q) \/ SetMode(w, q) \/ PersistFails(w, q)
      PROVE \/ Overtaken(w, p)
            \/ pc[w] = "makeMan" /\ p \in RdPaths /\ completed[w] \cap RdPaths = {} /\ SomePastMan
  <2>1. q = p
    BY <1>3, <1>7 DEF RevalidateStale, MakeManExists, RestatMan, CheckFirst, CreateTemp, CheckLast,
       SetMode, PersistFails, At
  <2>2. {"checkFirst", "createTemp", "writeTemp", "setMode", "persist"} \subseteq WriteSteps
    BY DEF WriteSteps
  <2>3. MakeManExists(w, q) => pc[w] = "makeMan"
    BY DEF MakeManExists, At
  <2> QED
    BY <1>6, <1>7, <2>1, <2>2, <2>3, RaceFails
<1> QED
  BY <1>1, <1>4, <1>5, <1>7 DEF StepOf, Advance, Interrupt

\* How the tree and the applied entries may change while only the runs interfere.
Growth ==
  /\ \A v \in Runs : completed[v] \subseteq completed'[v]
  /\ man' = man \/ (man = "missing" /\ man' = "dir")
  /\ \A p \in Paths :
       \/ fs'[p] = fs[p]
       \/ /\ fs'[p] \in Generated /\ fs[p] \notin Unmanaged
          /\ \E u \in Runs : p \in completed'[u]
  /\ \A v \in Runs : \A p \in foreign'[v] \cap Paths : p \in foreign[v] \/ fs'[p] \in Generated

\* The steps of a run that is started once are of this kind.
LEMMA StepGrows ==
  ASSUME TypeOK, WriterInv, NEW w \in Runs, StepOf(w), FoundInv(w),
         Begin(w) \/ EndBeforeGate(w) => pc[w] = "idle"
  PROVE Growth
  BY CompletedGrows, TreeGrows, ForeignGrows DEF Growth

\* What has been overtaken stays so.
LEMMA OvertakenKept ==
  ASSUME Growth, NEW v \in Runs, NEW p \in Paths, Overtaken(v, p)
  PROVE Overtaken(v, p)'
  BY DEF Growth, Overtaken

\* What a run has found is kept while its plan and its errors are.
LEMMA FoundKept ==
  ASSUME TypeOK, Growth, NEW v \in Runs, FoundInv(v), want'[v] = want[v], plan'[v] = plan[v],
         errors'[v] = errors[v], completed'[v] \cap RdPaths # {} => man' = "dir"
  PROVE FoundInv(v)'
<1>1. ASSUME NEW p \in Paths, plan[v][p] # "None", p \notin completed'[v]
      PROVE Overtaken(v, p)' \/ Inspect(v, p)' = plan[v][p]
  <2>1. CASE Overtaken(v, p)
    BY <2>1, OvertakenKept
  <2>2. CASE ~Overtaken(v, p) /\ fs'[p] = fs[p]
    <3>1. p \notin completed[v]
      BY <1>1 DEF Growth
    <3>2. Inspect(v, p) = plan[v][p]
      BY <1>1, <2>2, <3>1 DEF FoundInv
    <3>3. man' = "blocked" <=> man = "blocked"
      BY DEF Growth
    <3> QED
      BY <2>2, <3>2, <3>3 DEF Inspect
  <2>3. CASE fs'[p] # fs[p]
    BY <1>1, <2>3 DEF Growth, Overtaken
  <2> QED
    BY <2>1, <2>2, <2>3
<1>2. \A p \in errors[v] : (p # NAMESPACE /\ man' = "blocked") \/ fs'[p] \in Unmanaged
  <2>1. errors[v] \subseteq Paths
    BY DEF TypeOK, RunTypeOK
  <2> QED
    BY <2>1 DEF FoundInv, Growth
<1>3. \A p \in foreign'[v] \cap Paths : fs'[p] \in Generated
  BY DEF FoundInv, Growth
<1>4. man' = "blocked" => \A p \in RdPaths : plan[v][p] = "None"
  BY DEF FoundInv, Growth
<1> QED
  BY <1>1, <1>2, <1>3, <1>4 DEF FoundInv

\* The man directory a run has passed is there to stay.
LEMMA PastManKept ==
  ASSUME TypeOK, TypeOK', WriterInv, Growth, NEW w \in Runs, StepOf(w), faults' = faults, kills' = kills,
         Begin(w) \/ EndBeforeGate(w) => pc[w] = "idle",
         PlannedInv(w), FoundInv(w), FolderInv(w), SomePastMan
  PROVE SomePastMan'
<1>1. PICK m \in Runs : PastMan(m)
  BY DEF SomePastMan
<1>2. CASE m # w
  <2>1. UNCHANGED Memory(m)
    BY <1>2, OthersKeepMemory DEF TypeOK
  <2>2. \A p \in RdPaths : Overtaken(m, p) => Overtaken(m, p)'
    BY OvertakenKept DEF Paths
  <2>3. \A p \in RdPaths : Current(m, p) => Current(m, p)'
    BY <2>1 DEF Current, Memory
  <2>4. PastMan(m)'
    BY <1>1, <2>1, <2>2, <2>3 DEF PastMan, Memory
  <2> QED
    BY <2>4 DEF SomePastMan
<1>3. CASE m = w
  <2> SUFFICES PastMan(w)'
    BY DEF SomePastMan
  <2>1. CASE completed[w] \cap RdPaths # {}
    BY <2>1 DEF Growth, PastMan
  <2>2. ASSUME NEW p \in RdPaths, failed[w] = {p}, Overtaken(w, p) PROVE PastMan(w)'
    <3>1. pc[w] \notin {"idle", "planning"} \cup Busy
      BY <2>2 DEF WriterInv, LedgerInv, Busy
    <3>2. pc[w] \in {"ended", "killed"}
      BY <3>1 DEF TypeOK, RunTypeOK, Running, Stopped, Busy
    <3>3. FALSE
      <4>1. ~Begin(w) /\ ~EndBeforeGate(w)
        BY <3>2
      <4>2. ~RefusePlan(w) /\ ~AcceptPlan(w) /\ ~Finish(w) /\ ~Kill(w) /\ ~RootFault(w)
        BY <3>2 DEF RefusePlan, AcceptPlan, Finish, Kill, RootFault, Running, WriteSteps
      <4>3. ASSUME NEW q \in Paths
            PROVE /\ ~PlanEntry(w, q) /\ ~RevalidateStale(w, q) /\ ~KeepUnchanged(w, q) /\ ~BeginWrite(w, q)
                  /\ ~StatMan(w, q) /\ ~MakeMan(w, q) /\ ~MakeManExists(w, q) /\ ~RestatMan(w, q)
                  /\ ~CheckFirst(w, q) /\ ~CreateTemp(w, q) /\ ~WriteTemp(w, q) /\ ~CheckLast(w, q)
                  /\ ~SetMode(w, q) /\ ~Persist(w, q) /\ ~PersistFails(w, q) /\ ~PlanFault(w, q)
                  /\ ~ApplyFault(w, q)
        BY <3>2 DEF PlanEntry, RevalidateStale, KeepUnchanged, BeginWrite, StatMan, MakeMan,
           MakeManExists, RestatMan, CheckFirst, CreateTemp, WriteTemp, CheckLast, SetMode, Persist,
           PersistFails, PlanFault, ApplyFault, At, WriteSteps
      <4> QED
        BY <4>1, <4>2, <4>3 DEF StepOf, Advance, Interrupt
    <3> QED
      BY <3>3
  <2>3. ASSUME NEW p \in RdPaths, Current(w, p),
               pc[w] \in {"restatMan", "checkFirst", "createTemp"} \cup TempSteps
        PROVE PastMan(w)'
    <3>1. p \in Paths /\ pc[w] \in Busy /\ pc[w] # "makeMan"
      BY <2>3 DEF Paths, Busy, WriteSteps, TempSteps
    <3>2. CASE Fail(w, p)
      <4>1. failed'[w] = {p} /\ Overtaken(w, p)
        BY <2>3, <3>1, <3>2, RaceEnds DEF WriterInv, RunInv
      <4> QED
        BY <3>1, <4>1, OvertakenKept DEF PastMan
    <3>3. ASSUME NEW l \in {"checkFirst", "createTemp"} \cup TempSteps, Goto(w, l), UNCHANGED progress
          PROVE PastMan(w)'
      <4>1. pc'[w] = l /\ Current(w, p)'
        BY <2>3, <3>3 DEF Goto, progress, Current, TypeOK, RunTypeOK
      <4> QED
        BY <4>1 DEF PastMan
    <3>4. ASSUME NEW q \in Paths, Persist(w, q) PROVE PastMan(w)'
      <4>1. q = p
        BY <2>3, <3>1, <3>4, CurrentUnique DEF Persist, At
      <4>2. p \in completed'[w]
        BY <3>4, <4>1 DEF Persist, Complete, TypeOK, RunTypeOK
      <4> QED
        BY <4>2 DEF PastMan
    <3>5. ~Begin(w) /\ ~EndBeforeGate(w) /\ ~RefusePlan(w) /\ ~AcceptPlan(w) /\ ~Finish(w)
          /\ ~RootFault(w) /\ ~Kill(w)
      BY <2>3, BoundAssumption DEF Begin, EndBeforeGate, Start, Stopped, RefusePlan, AcceptPlan, Finish,
         RootFault, Kill, TempSteps, TypeOK, BoundTypeOK
    <3>6. ASSUME NEW q \in Paths
          PROVE /\ ~PlanEntry(w, q) /\ ~PlanFault(w, q) /\ ~KeepUnchanged(w, q) /\ ~BeginWrite(w, q)
                /\ ~StatMan(w, q) /\ ~MakeMan(w, q) /\ ~ApplyFault(w, q) /\ ~MakeManExists(w, q)
                /\ ~RevalidateStale(w, q)
      BY <2>3, BoundAssumption DEF PlanEntry, PlanFault, KeepUnchanged, BeginWrite, StatMan, MakeMan,
         ApplyFault, MakeManExists, RevalidateStale, At, TempSteps, TypeOK, BoundTypeOK
    <3>7. ASSUME NEW q \in Paths,
                 \/ RestatMan(w, q) \/ CheckFirst(w, q) \/ CreateTemp(w, q) \/ WriteTemp(w, q)
                 \/ CheckLast(w, q) \/ SetMode(w, q) \/ PersistFails(w, q)
          PROVE \/ Fail(w, p)
                \/ \E l \in {"checkFirst", "createTemp"} \cup TempSteps : Goto(w, l) /\ UNCHANGED progress
      <4>1. q = p
        BY <2>3, <3>1, <3>7, CurrentUnique DEF RestatMan, CheckFirst, CreateTemp, WriteTemp, CheckLast,
           SetMode, PersistFails, At
      <4> QED
        BY <3>7, <4>1 DEF RestatMan, CheckFirst, CreateTemp, WriteTemp, CheckLast, SetMode, PersistFails,
           TempSteps
    <3> QED
      BY <3>2, <3>3, <3>4, <3>5, <3>6, <3>7 DEF StepOf, Advance, Interrupt
  <2> QED
    BY <1>1, <1>3, <2>1, <2>2, <2>3 DEF PastMan
<1> QED
  BY <1>2, <1>3

\* A step of another run keeps what a racing run relies on.
LEMMA OthersKeepRace ==
  ASSUME TypeOK, TypeOK', WriterInv, Growth, NEW w \in Runs, StepOf(w), NEW v \in Runs, v # w,
         SomePastMan => SomePastMan', PlannedInv(v), FoundInv(v), FolderInv(v), CauseInv(v),
         FolderInv(w)
  PROVE PlannedInv(v)' /\ FoundInv(v)' /\ FolderInv(v)' /\ CauseInv(v)'
<1>1. UNCHANGED Memory(v)
  BY OthersKeepMemory DEF TypeOK
<1>2. /\ Outputs(v)' = Outputs(v) /\ want'[v] = want[v] /\ plan'[v] = plan[v] /\ errors'[v] = errors[v]
      /\ todo'[v] = todo[v] /\ pc'[v] = pc[v] /\ temp'[v] = temp[v] /\ status'[v] = status[v]
      /\ completed'[v] = completed[v] /\ failed'[v] = failed[v]
  BY <1>1 DEF Outputs, Memory
<1>3. PlannedInv(v)'
  BY <1>2 DEF PlannedInv
<1>4. FoundInv(v)'
  <2>1. completed'[v] \cap RdPaths # {} => man' = "dir"
    BY <1>2 DEF FoundInv, Growth
  <2> QED
    BY <1>2, <2>1, FoundKept
<1>5. FolderInv(v)'
  <2>1. \A p \in Paths : /\ Current(v, p)' <=> Current(v, p)
                         /\ FolderExists(p) => FolderExists(p)'
    BY <1>2 DEF Current, Growth, FolderExists
  <2>2. man = "missing" => man' = "missing" \/ SomePastMan'
    <3> SUFFICES ASSUME man = "missing", man' # "missing" PROVE SomePastMan'
      OBVIOUS
    <3>1. PICK p \in Paths : MakeMan(w, p)
        BY DEF StepOf, Advance, Interrupt, Begin, EndBeforeGate, Start, RefusePlan, AcceptPlan, Finish,
         Kill, RootFault, PlanFault, ApplyFault, PlanEntry, RevalidateStale, KeepUnchanged, BeginWrite,
         StatMan, MakeManExists, RestatMan, CheckFirst, CreateTemp, WriteTemp, CheckLast, SetMode,
         Persist, PersistFails, tree
    <3>2. p \in RdPaths
      BY <3>1 DEF MakeMan, At, FolderInv, Paths
    <3>3. pc'[w] = "restatMan" /\ Current(w, p)'
      BY <3>1 DEF MakeMan, At, Goto, Current, progress, TypeOK, RunTypeOK
    <3> QED
      BY <3>2, <3>3 DEF PastMan, SomePastMan
  <2>3. man = "dir" => man' = "dir"
    BY DEF Growth
  <2> QED
    BY <1>2, <2>1, <2>2, <2>3, NamespaceIsPath DEF FolderInv
<1>6. CauseInv(v)'
  BY <1>2, OvertakenKept DEF CauseInv
<1> QED
  BY <1>3, <1>4, <1>5, <1>6

\* A racing run's end has a cause.
LEMMA OwnCause ==
  ASSUME TypeOK, WriterInv, Growth, NEW w \in Runs, StepOf(w), faults' = faults,
         PlannedInv(w), FoundInv(w), FolderInv(w), CauseInv(w), SomePastMan => SomePastMan'
  PROVE CauseInv(w)'
<1> SUFFICES ASSUME pc'[w] = "ended", want'[w] # NoOutputs, errors'[w] = {}, status'[w] # "Success"
             PROVE CauseInv(w)'
  BY DEF CauseInv
<1>1. ~EndBeforeGate(w) /\ ~RefusePlan(w) /\ ~RootFault(w) /\ ~Finish(w)
  BY BoundAssumption DEF EndBeforeGate, RefusePlan, RootFault, Finish, TypeOK, RunTypeOK, BoundTypeOK
<1>2. PICK p \in Paths : pc[w] \in Busy /\ Current(w, p) /\ Fail(w, p)
  BY <1>1, EndsBy
<1>3. /\ failed'[w] = {p} /\ completed' = completed
      /\ \/ Overtaken(w, p)
         \/ p \in RdPaths /\ completed[w] \cap RdPaths = {} /\ SomePastMan
  BY <1>2, RaceEnds DEF WriterInv, RunInv
<1> QED
  BY <1>3, OvertakenKept DEF CauseInv

\* A racing run moves to its next call.
LEMMA RaceMove ==
  ASSUME TypeOK, NEW w \in Runs, NEW p \in Paths, NEW l \in WriteSteps, PlannedInv(w),
         pc[w] \in Busy, Current(w, p), Goto(w, l), UNCHANGED progress, temp'[w] # "Lost",
         l \in {"statMan", "makeMan", "restatMan"} => p # NAMESPACE,
         l = "makeMan" => man' = "missing" /\ completed[w] \cap RdPaths = {},
         l = "restatMan" => man' = "dir",
         l \in {"checkFirst", "createTemp"} \cup TempSteps => p = NAMESPACE \/ man' = "dir"
  PROVE PlannedInv(w)' /\ FolderInv(w)'
<1>1. pc'[w] = l /\ l # "planning"
  BY DEF Goto, TypeOK, RunTypeOK, WriteSteps
<1>2. /\ \A q \in Paths : Current(w, q)' <=> Current(w, q)
      /\ \A q \in Paths : Current(w, q) => q = p
      /\ todo' = todo /\ plan' = plan /\ completed' = completed
  BY CurrentUnique DEF Current, progress
<1>3. PlannedInv(w)'
  BY <1>1, <1>2 DEF PlannedInv, Busy
<1>4. FolderInv(w)'
  BY <1>1, <1>2, NamespaceIsPath DEF FolderInv, FolderExists
<1> QED
  BY <1>3, <1>4

\* A step of a racing run keeps what it relies on.
LEMMA OwnRace ==
  ASSUME TypeOK, TypeOK', WriterInv, Growth, NEW w \in Runs, StepOf(w), faults' = faults, kills' = kills,
         Begin(w) \/ EndBeforeGate(w) => pc[w] = "idle",
         PlannedInv(w), FoundInv(w), FolderInv(w)
  PROVE PlannedInv(w)' /\ FoundInv(w)' /\ FolderInv(w)'
<1> USE DEF TypeOK
<1>0. RunInv(w)
  BY DEF WriterInv, RunInv
<1>1. CASE Begin(w) \/ EndBeforeGate(w)
  <2>1. /\ pc'[w] \in {"planning", "ended"} /\ temp'[w] = temp[w] /\ errors'[w] = {}
        /\ completed'[w] = {} /\ foreign'[w] = {} /\ \A p \in Paths : plan'[w][p] = "None"
    BY <1>1 DEF Begin, EndBeforeGate, Start, Goto, RunTypeOK, HistoryTypeOK
  <2>2. temp[w] = "NoTemp"
    BY <1>0, <1>1 DEF RunInv, TempInv, TempSteps
  <2>3. todo'[w] = Outputs(w)'
    BY <1>1 DEF Begin, EndBeforeGate, Outputs, NoOutputs, RunTypeOK
  <2>4. FoundInv(w)'
    BY <2>1 DEF FoundInv, Paths
  <2> QED
    BY <2>1, <2>2, <2>3, <2>4 DEF PlannedInv, FolderInv, WriteSteps, TempSteps
<1>2. ASSUME NEW p \in Paths, PlanEntry(w, p) PROVE PlannedInv(w)' /\ FoundInv(w)' /\ FolderInv(w)'
  <2>1. /\ pc[w] = "planning" /\ p \in todo[w] /\ todo'[w] = todo[w] \ {p}
        /\ UNCHANGED <<man, fs, pc, want, completed, temp>>
        /\ foreign'[w] \subseteq foreign[w]
    BY <1>2 DEF PlanEntry, Current, Look, RunTypeOK, HistoryTypeOK, tree
  <2>2. /\ Outputs(w)' = Outputs(w) /\ \A q \in Paths : Inspect(w, q)' = Inspect(w, q)
        /\ Outputs(w) \subseteq Paths
        /\ \A q \in Paths : Overtaken(w, q)' <=> Overtaken(w, q)
    BY <2>1 DEF Outputs, Inspect, Overtaken
  <2>3. CASE Inspect(w, p) = "Refused"
    <3>1. errors'[w] = errors[w] \cup {p} /\ plan' = plan
      BY <1>2, <2>3 DEF PlanEntry, RunTypeOK
    <3>2. (p # NAMESPACE /\ man = "blocked") \/ fs[p] \in Unmanaged
      BY <2>3 DEF Inspect
    <3> QED
      BY <2>1, <2>2, <3>1, <3>2 DEF PlannedInv, FoundInv, FolderInv, WriteSteps, TempSteps
  <2>4. CASE Inspect(w, p) # "Refused"
    <3>1. errors' = errors /\ plan' = [plan EXCEPT ![w][p] = Inspect(w, p)]
      BY <1>2, <2>4 DEF PlanEntry
    <3>2. \A q \in Paths : plan'[w][q] = IF q = p THEN Inspect(w, p) ELSE plan[w][q]
      BY <3>1 DEF RunTypeOK
    <3>3. Inspect(w, p) \in OutputActions
      BY <2>4, InspectType
    <3>4. Inspect(w, p) # "None"
      BY <3>3 DEF OutputActions
    <3>5. man = "blocked" => p = NAMESPACE
      BY <2>4 DEF Inspect
    <3>6. NAMESPACE \notin RdPaths /\ RdPaths \subseteq Paths
      BY DEF NAMESPACE, RdPaths, Paths
    <3>7. PlannedInv(w)'
      BY <2>1, <2>2, <3>1, <3>2, <3>4 DEF PlannedInv, WriteSteps
    <3>8. FoundInv(w)'
      BY <2>1, <2>2, <3>1, <3>2, <3>5, <3>6 DEF FoundInv
    <3> QED
      BY <2>1, <3>7, <3>8 DEF FolderInv, WriteSteps, TempSteps
  <2> QED
    BY <2>3, <2>4
<1>3. ASSUME plan' = plan, want' = want, errors' = errors,
             completed'[w] = completed[w] \/ completed'[w] \cap RdPaths = completed[w] \cap RdPaths
               \/ man' = "dir"
      PROVE FoundInv(w)'
  <2>1. completed'[w] \cap RdPaths # {} => man' = "dir"
    BY <1>3 DEF FoundInv, Growth
  <2> QED
    BY <1>3, <2>1, FoundKept
<1>4. ASSUME pc'[w] \in {"ended", "killed"}, temp'[w] # "Lost"
      PROVE PlannedInv(w)' /\ FolderInv(w)'
  BY <1>4 DEF PlannedInv, FolderInv, WriteSteps, TempSteps
<1>5. temp[w] # "Lost"
  BY DEF FolderInv
<1>6. CASE RefusePlan(w) \/ Finish(w)
  <2>1. /\ pc'[w] = "ended" /\ UNCHANGED <<temp, plan, want, errors, completed>>
    BY <1>6 DEF RefusePlan, Finish, Goto, RunTypeOK
  <2> QED
    BY <1>3, <1>4, <1>5, <2>1
<1>7. CASE AcceptPlan(w)
  <2>1. /\ pc'[w] = "applying" /\ UNCHANGED <<temp, plan, want, errors, completed>>
        /\ todo'[w] = Outputs(w) /\ pc[w] = "planning" /\ todo[w] = {} /\ errors[w] = {}
    BY <1>7 DEF AcceptPlan, Goto, RunTypeOK
  <2> QED
    BY <1>3, <1>5, <2>1 DEF PlannedInv, FolderInv, WriteSteps, TempSteps
<1>8. ASSUME NEW p \in Paths, Fail(w, p), completed' = completed
      PROVE PlannedInv(w)' /\ FoundInv(w)' /\ FolderInv(w)'
  <2>1. /\ pc'[w] = "ended" /\ temp'[w] = "NoTemp" /\ UNCHANGED <<plan, want, errors>>
    BY <1>8 DEF Fail, Goto, RunTypeOK
  <2> QED
    BY <1>3, <1>4, <1>8, <2>1
<1>9. ASSUME NEW p \in Paths, KeepUnchanged(w, p) \/ Persist(w, p)
      PROVE PlannedInv(w)' /\ FoundInv(w)' /\ FolderInv(w)'
  <2>1. /\ pc'[w] = "applying" /\ UNCHANGED <<plan, want, errors>> /\ todo'[w] \subseteq todo[w]
        /\ completed'[w] = completed[w] \cup {p} /\ pc[w] \in Busy
    BY <1>9 DEF KeepUnchanged, Persist, Complete, Goto, RunTypeOK, At, Busy, WriteSteps
  <2>2. temp'[w] # "Lost"
    BY <1>5, <1>9 DEF KeepUnchanged, Persist, RunTypeOK
  <2>3. p \in RdPaths => man' = "dir"
    <3>1. CASE KeepUnchanged(w, p)
      <4>1. fs[p] # "Absent"
        BY <3>1 DEF KeepUnchanged, Inspect
      <4> QED
        BY <3>1, <4>1 DEF KeepUnchanged, tree, TreeTypeOK
    <3>2. CASE Persist(w, p)
      <4>1. FolderExists(p)
        BY <3>2 DEF Persist, At, FolderInv, TempSteps
      <4> QED
        BY <3>2, <4>1 DEF Persist, FolderExists, RdPaths, NAMESPACE
    <3> QED
      BY <1>9, <3>1, <3>2
  <2>4. FoundInv(w)'
    BY <1>3, <2>1, <2>3
  <2> QED
    BY <2>1, <2>2, <2>4 DEF PlannedInv, FolderInv, Busy, WriteSteps, TempSteps
<1>10. ASSUME UNCHANGED progress PROVE FoundInv(w)'
  BY <1>3, <1>10 DEF progress
<1>11. ~RootFault(w) /\ ~Kill(w) /\ \A p \in Paths : ~PlanFault(w, p) /\ ~ApplyFault(w, p)
  BY BoundAssumption DEF RootFault, Kill, PlanFault, ApplyFault, BoundTypeOK
<1>12. ASSUME NEW p \in Paths,
              RevalidateStale(w, p) \/ MakeManExists(w, p) \/ PersistFails(w, p)
       PROVE PlannedInv(w)' /\ FoundInv(w)' /\ FolderInv(w)'
  <2>1. Fail(w, p) /\ completed' = completed
    BY <1>12 DEF RevalidateStale, MakeManExists, PersistFails, Fail
  <2> QED
    BY <1>8, <2>1
<1>13. ASSUME NEW p \in Paths, BeginWrite(w, p) \/ StatMan(w, p) \/ MakeMan(w, p)
       PROVE PlannedInv(w)' /\ FoundInv(w)' /\ FolderInv(w)'
  <2>1. /\ pc[w] \in Busy /\ Current(w, p) /\ UNCHANGED progress /\ temp'[w] # "Lost"
    BY <1>5, <1>13 DEF BeginWrite, StatMan, MakeMan, At, Busy, WriteSteps
  <2>2. CASE BeginWrite(w, p)
    <3>1. PICK l \in {"checkFirst", "statMan"} : Goto(w, l) /\ (l = "checkFirst" <=> p = NAMESPACE)
      BY <2>2 DEF BeginWrite
    <3>2. /\ l \in WriteSteps /\ l # "makeMan" /\ l # "restatMan"
          /\ l \in {"statMan", "makeMan", "restatMan"} => p # NAMESPACE
          /\ l \in {"checkFirst", "createTemp"} \cup TempSteps => p = NAMESPACE
      BY <3>1 DEF WriteSteps, TempSteps
    <3> QED
      BY <1>10, <2>1, <3>1, <3>2, RaceMove
  <2>3. CASE StatMan(w, p)
    <3>1. p # NAMESPACE /\ man \in {"missing", "dir"}
      BY <1>0, <2>3, RaceFails DEF StatMan, At, FolderInv, TreeTypeOK
    <3>2. PICK l \in {"makeMan", "restatMan"} :
            Goto(w, l) /\ (l = "makeMan" => man = "missing") /\ (l = "restatMan" => man = "dir")
      BY <2>3, <3>1 DEF StatMan
    <3>3. man' = man /\ (man = "missing" => completed[w] \cap RdPaths = {})
      BY <2>3 DEF StatMan, tree, FoundInv
    <3>4. l \in WriteSteps /\ l \notin {"checkFirst", "createTemp"} \cup TempSteps
      BY <3>2 DEF WriteSteps, TempSteps
    <3> QED
      BY <1>10, <2>1, <3>1, <3>2, <3>3, <3>4, RaceMove
  <2>4. CASE MakeMan(w, p)
    <3>1. p # NAMESPACE /\ Goto(w, "restatMan") /\ man' = "dir"
      BY <2>4 DEF MakeMan, At, FolderInv
    <3>2. "restatMan" \in WriteSteps /\ "restatMan" \notin {"checkFirst", "createTemp"} \cup TempSteps
      BY DEF WriteSteps, TempSteps
    <3> QED
      BY <1>10, <2>1, <3>1, <3>2, RaceMove
  <2> QED
    BY <1>13, <2>2, <2>3, <2>4
<1>14. ASSUME NEW p \in Paths,
              \/ RestatMan(w, p) \/ CheckFirst(w, p) \/ CreateTemp(w, p) \/ WriteTemp(w, p)
              \/ CheckLast(w, p) \/ SetMode(w, p)
       PROVE PlannedInv(w)' /\ FoundInv(w)' /\ FolderInv(w)'
  <2>1. pc[w] \in Busy /\ Current(w, p) /\ man' = man
    BY <1>14 DEF RestatMan, CheckFirst, CreateTemp, WriteTemp, CheckLast, SetMode, At, Busy, WriteSteps, tree
  <2>2. p = NAMESPACE \/ man = "dir"
    BY <1>14 DEF RestatMan, CheckFirst, CreateTemp, WriteTemp, CheckLast, SetMode, At, FolderInv,
       FolderExists, TempSteps
  <2>3. CASE Fail(w, p)
    <3>1. completed' = completed
      BY <2>3 DEF Fail
    <3> QED
      BY <1>8, <2>3, <3>1
  <2>4. CASE /\ UNCHANGED progress /\ temp'[w] # "Lost"
             /\ \E l \in {"checkFirst", "createTemp"} \cup TempSteps : Goto(w, l)
    <3>1. PICK l \in {"checkFirst", "createTemp"} \cup TempSteps : Goto(w, l)
      BY <2>4
    <3>2. l \in WriteSteps /\ l \notin {"statMan", "makeMan", "restatMan"}
      BY <3>1 DEF WriteSteps, TempSteps
    <3>3. /\ l \in {"statMan", "makeMan", "restatMan"} => p # NAMESPACE
          /\ l = "makeMan" => man' = "missing" /\ completed[w] \cap RdPaths = {}
          /\ l = "restatMan" => man' = "dir"
      BY <3>2
    <3> QED
      BY <1>10, <2>1, <2>2, <2>4, <3>1, <3>2, <3>3, RaceMove
  <2>5. \/ Fail(w, p)
        \/ /\ UNCHANGED progress /\ temp'[w] # "Lost"
           /\ \E l \in {"checkFirst", "createTemp"} \cup TempSteps : Goto(w, l)
    <3>1. CASE WriteTemp(w, p)
      <4>1. want[w][p] \in Generated
        BY <1>0, <2>1, WantIsFunction DEF Current, RunInv, TempInv, Outputs
      <4>2. temp'[w] = want[w][p]
        BY <1>5, <3>1 DEF WriteTemp, RunTypeOK
      <4>3. want[w][p] # "Lost"
        BY <4>1, TextAssumption DEF Sentinels
      <4> QED
        BY <3>1, <4>2, <4>3 DEF WriteTemp, TempSteps
    <3>2. CASE CreateTemp(w, p)
      BY <1>0, <3>2, RaceFails DEF TempSteps
    <3>3. CASE RestatMan(w, p) \/ CheckFirst(w, p) \/ CheckLast(w, p) \/ SetMode(w, p)
      BY <1>0, <1>5, <3>3, RaceFails DEF TempSteps
    <3> QED
      BY <1>14, <3>1, <3>2, <3>3
  <2> QED
    BY <2>3, <2>4, <2>5
<1> QED
  BY <1>1, <1>2, <1>6, <1>7, <1>9, <1>11, <1>12, <1>13, <1>14 DEF StepOf, Advance, Interrupt

\* Every step keeps what the racing runs rely on.
LEMMA RaceStep ==
  TypeOK /\ TypeOK' /\ WriterInv /\ RaceInv /\ [Next]_vars => RaceInv'
<1> SUFFICES ASSUME TypeOK, TypeOK', WriterInv, RaceInv, [Next]_vars PROVE RaceInv'
  OBVIOUS
<1>1. CASE UNCHANGED vars
  <2>1. /\ \A w \in Runs : /\ Outputs(w)' = Outputs(w)
                           /\ \A p \in Paths : /\ Overtaken(w, p)' <=> Overtaken(w, p)
                                               /\ Inspect(w, p)' = Inspect(w, p)
                                               /\ Current(w, p)' <=> Current(w, p)
                                               /\ FolderExists(p)' <=> FolderExists(p)
        /\ Started' = Started /\ starts' = starts /\ (OnlyRuns' <=> OnlyRuns)
    BY <1>1 DEF vars, Outputs, Overtaken, Inspect, Current, FolderExists, Started, OnlyRuns
  <2>2. \A w \in Runs : PastMan(w)' <=> PastMan(w)
    BY <1>1, <2>1 DEF vars, PastMan, Paths
  <2>3. SomePastMan' <=> SomePastMan
    BY <2>2 DEF SomePastMan
  <2>4. ASSUME NEW w \in Runs
        PROVE /\ (PlannedInv(w) => PlannedInv(w)') /\ (FoundInv(w) => FoundInv(w)')
              /\ (FolderInv(w) => FolderInv(w)') /\ (CauseInv(w) => CauseInv(w)')
    <3>1. PlannedInv(w) => PlannedInv(w)'
      BY <1>1, <2>1 DEF vars, PlannedInv
    <3>2. FoundInv(w) => FoundInv(w)'
      BY <1>1, <2>1 DEF vars, FoundInv
    <3>3. FolderInv(w) => FolderInv(w)'
      BY <1>1, <2>1, <2>3, NamespaceIsPath DEF vars, FolderInv
    <3>4. CauseInv(w) => CauseInv(w)'
      BY <1>1, <2>1, <2>3 DEF vars, CauseInv
    <3> QED
      BY <3>1, <3>2, <3>3, <3>4
  <2>5. Cardinality(Started') <= starts'
    <3>1. Cardinality(Started) <= starts
      BY DEF RaceInv
    <3> QED
      BY <2>1, <3>1
  <2>6. ASSUME OnlyRuns', NEW w \in Runs
        PROVE PlannedInv(w)' /\ FoundInv(w)' /\ FolderInv(w)' /\ CauseInv(w)'
    BY <2>1, <2>4, <2>6 DEF RaceInv
  <2> QED
    BY <2>5, <2>6 DEF RaceInv
<1>2. CASE Environment
  <2>1. pc' = pc /\ starts' = starts /\ edits' = edits + 1
    BY <1>2 DEF Environment, Edit, EditMan
  <2>0. edits \in Nat
    BY BoundAssumption DEF TypeOK, BoundTypeOK
  <2>2. edits' # 0 /\ Started' = Started
    BY <2>0, <2>1 DEF Started
  <2> QED
    BY <2>1, <2>2 DEF RaceInv, OnlyRuns
<1>3. ASSUME NEW w \in Runs, StepOf(w) PROVE RaceInv'
  <2>1. /\ Cardinality(Started') <= starts'
        /\ OnlyRuns' => OnlyRuns /\ (Begin(w) \/ EndBeforeGate(w) => pc[w] = "idle")
    BY <1>3, StartsCount DEF RaceInv
  <2>2. ASSUME OnlyRuns', NEW v \in Runs
        PROVE PlannedInv(v)' /\ FoundInv(v)' /\ FolderInv(v)' /\ CauseInv(v)'
    <3>1. OnlyRuns /\ (Begin(w) \/ EndBeforeGate(w) => pc[w] = "idle")
      BY <2>1, <2>2
    <3>2. \A u \in Runs : PlannedInv(u) /\ FoundInv(u) /\ FolderInv(u) /\ CauseInv(u)
      BY <3>1 DEF RaceInv
    <3>3. faults' = faults /\ kills' = kills
      BY <2>2, <3>1 DEF OnlyRuns
    <3>4. Growth
      BY <1>3, <3>1, <3>2, StepGrows
    <3>5. SomePastMan => SomePastMan'
      BY <1>3, <3>1, <3>2, <3>3, <3>4, PastManKept
    <3>6. CASE v = w
      BY <1>3, <3>1, <3>2, <3>3, <3>4, <3>5, <3>6, OwnRace, OwnCause
    <3>7. CASE v # w
      BY <1>3, <3>2, <3>4, <3>5, <3>7, OthersKeepRace
    <3> QED
      BY <3>6, <3>7
  <2> QED
    BY <2>1, <2>2 DEF RaceInv
<1> QED
  BY <1>1, <1>2, <1>3 DEF Next, StepOf

\* A set of paths that is not empty has a last one.
LEMMA LastPath ==
  ASSUME NEW D \in SUBSET Paths, D # {}
  PROVE \E p \in D : \A q \in D : q <= p
<1> DEFINE E == {n \in Nat : NumRd - n \in D}
<1>1. E # {}
  <2>1. PICK p \in D : TRUE
    OBVIOUS
  <2>2. p \in Nat /\ p <= NumRd
    BY NumRdAssumption DEF Paths, RdPaths, NAMESPACE
  <2>3. NumRd - p \in Nat /\ NumRd - (NumRd - p) = p
    BY <2>2, NumRdAssumption
  <2> QED
    BY <2>1, <2>3
<1> DEFINE R == {s \in Nat \X Nat : s[1] < s[2]}
<1>2. IsWellFoundedOn(R, Nat)
  BY NatLessThanWellFounded DEF OpToRel
<1>3. PICK n \in E : \A m \in E : <<m, n>> \notin R
  BY <1>1, <1>2, WFMin
<1>4. NumRd - n \in D
  OBVIOUS
<1>5. ASSUME NEW q \in D PROVE q <= NumRd - n
  <2>1. q \in Nat /\ q <= NumRd
    BY NumRdAssumption DEF Paths, RdPaths, NAMESPACE
  <2>2. NumRd - q \in Nat /\ NumRd - (NumRd - q) = q
    BY <2>1, NumRdAssumption
  <2>3. NumRd - q \in E
    BY <2>2
  <2>4. ~(NumRd - q < n)
    BY <1>3, <2>2, <2>3
  <2> QED
    BY <2>1, <2>2, <2>4, NumRdAssumption
<1> QED
  BY <1>4, <1>5

\* Processes that race over one package without a lock cannot all fail, for
\* any number of processes and paths: of the runs that failed at an entry
\* another run had applied, take one that failed furthest; the run that
\* applied this entry has not failed.
LEMMA RaceHasWinner ==
  ASSUME TypeOK, WriterInv, ReportAccounts, RaceInv
  PROVE SomeRunSucceeds
<1> SUFFICES ASSUME edits = 0, faults = 0, kills = 0, starts = Cardinality(Runs),
                    \A w \in Runs : pc[w] = "ended" /\ want[w] # NoOutputs,
                    man # "blocked", \A p \in Paths : fs[p] \notin Unmanaged,
                    \A w \in Runs : status[w] # "Success"
             PROVE FALSE
  BY DEF SomeRunSucceeds
<1>1. OnlyRuns
  <2>1. Started = Runs
    BY DEF Started
  <2> QED
    BY <2>1 DEF OnlyRuns
<1>2. \A w \in Runs : errors[w] = {}
  BY <1>1 DEF RaceInv, FoundInv, TypeOK, RunTypeOK
<1>3. \A w \in Runs : \E p \in Paths :
        /\ failed[w] = {p}
        /\ \/ Overtaken(w, p)
           \/ p \in RdPaths /\ completed[w] \cap RdPaths = {} /\ SomePastMan
  BY <1>1, <1>2 DEF RaceInv, CauseInv
<1>4. \A w \in Runs : \A p \in Paths : failed[w] = {p} => \A q \in completed[w] : q < p
  BY <1>2 DEF ReportAccounts
<1> DEFINE D == {p \in Paths : \E w \in Runs : failed[w] = {p} /\ Overtaken(w, p)}
<1>5. ASSUME SomePastMan PROVE D \cap RdPaths # {}
  <2>1. PICK m \in Runs : PastMan(m)
    BY <1>5 DEF SomePastMan
  <2>2. CASE \E p \in RdPaths : failed[m] = {p} /\ Overtaken(m, p)
    BY <2>2 DEF Paths
  <2>3. CASE completed[m] \cap RdPaths # {}
    <3>1. PICK r \in completed[m] \cap RdPaths : TRUE
      BY <2>3
    <3>2. PICK p \in Paths : failed[m] = {p} /\ Overtaken(m, p)
      BY <1>3, <2>3
    <3>3. r < p
      BY <1>4, <3>1, <3>2
    <3>4. p \in RdPaths
      BY <3>1, <3>3, NumRdAssumption DEF Paths, RdPaths, NAMESPACE
    <3> QED
      BY <3>2, <3>4
  <2>4. pc[m] \notin {"restatMan", "checkFirst", "createTemp"} \cup TempSteps
    BY DEF TempSteps
  <2> QED
    BY <2>1, <2>2, <2>3, <2>4 DEF PastMan
<1>6. D # {}
  <2>1. PICK w \in Runs : TRUE
    BY RunsAssumption
  <2>2. PICK p \in Paths : failed[w] = {p} /\ (Overtaken(w, p) \/ SomePastMan)
    BY <1>3
  <2> QED
    BY <1>5, <2>2
<1>7. PICK p \in D : \A q \in D : q <= p
  BY <1>6, LastPath
<1>8. PICK w \in Runs, v \in Runs : failed[w] = {p} /\ p \in completed[v]
  BY DEF Overtaken
<1>9. PICK q \in Paths :
        /\ failed[v] = {q}
        /\ \/ Overtaken(v, q)
           \/ completed[v] \cap RdPaths = {} /\ SomePastMan
  BY <1>3
<1>10. p < q /\ p \in Nat /\ q \in Nat
  BY <1>4, <1>8, <1>9, PathNumbers
<1>11. CASE Overtaken(v, q)
  <2>1. q \in D
    BY <1>9, <1>11
  <2> QED
    BY <1>7, <1>10, <2>1
<1>12. CASE completed[v] \cap RdPaths = {} /\ SomePastMan
  <2>1. PICK r \in D \cap RdPaths : TRUE
    BY <1>5, <1>12
  <2>2. r <= p
    BY <1>7, <2>1
  <2>3. p \in RdPaths
    BY <2>1, <2>2, NumRdAssumption DEF Paths, RdPaths, NAMESPACE
  <2> QED
    BY <1>8, <1>12, <2>3
<1> QED
  BY <1>9, <1>11, <1>12

\* In every behaviour of the writer some of the racing runs succeeds.
THEOREM SomeRunSafe == Spec => []SomeRunSucceeds
<1>1. Init => ReportAccounts /\ RaceInv
  <2> SUFFICES ASSUME Init PROVE ReportAccounts /\ RaceInv
    OBVIOUS
  <2>1. \A w \in Runs : pc[w] = "idle"
    BY DEF Init
  <2>2. ReportAccounts
    BY <2>1 DEF ReportAccounts
  <2>3. Started = {} /\ starts = 0
    BY <2>1 DEF Started, Init
  <2>4. Cardinality(Started) <= starts
    BY <2>3, FS_EmptySet
  <2>5. ASSUME NEW w \in Runs
        PROVE PlannedInv(w) /\ FoundInv(w) /\ FolderInv(w) /\ CauseInv(w)
    <3>1. /\ pc[w] = "idle" /\ temp[w] = "NoTemp" /\ errors[w] = {} /\ foreign[w] = {}
          /\ completed[w] = {} /\ \A p \in Paths : plan[w][p] = "None"
      BY <2>5 DEF Init
    <3> QED
      BY <3>1 DEF PlannedInv, FoundInv, FolderInv, CauseInv, WriteSteps, TempSteps, Paths
  <2> QED
    BY <2>2, <2>4, <2>5 DEF RaceInv
<1>2. TypeOK /\ TypeOK' /\ WriterInv /\ ReportAccounts /\ RaceInv /\ [Next]_vars
        => ReportAccounts' /\ RaceInv'
  BY ReportStep, RaceStep
<1>3. TypeOK /\ WriterInv /\ ReportAccounts /\ RaceInv => SomeRunSucceeds
  BY RaceHasWinner
<1> QED
  BY <1>1, <1>2, <1>3, Invariance, PTL DEF Spec
=============================================================================
