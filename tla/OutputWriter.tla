---------------------------- MODULE OutputWriter ----------------------------
(***************************************************************************)
(* The file-writing protocol of `roxy doc`: plan_outputs inspects every    *)
(* destination, and only if none of them is refused apply_outputs writes   *)
(* them, one entry at a time in path order, each through a temporary file  *)
(* that is renamed over the destination after two more inspections.        *)
(*                                                                         *)
(* Nothing locks the package: other roxy processes, the author's editor    *)
(* and version control change the same tree between any two steps, any     *)
(* file system call may fail, and a process may be killed.                 *)
(*                                                                         *)
(* One inspection (the stat of man, the stat and the read of the           *)
(* destination) is one step.  A man that is not a directory is one state,  *)
(* blocked, through which no destination is reached.  File modes, the      *)
(* durability of a rename and a man replaced by a link behind the second   *)
(* stat of ensure_man_directory are left out.                              *)
(***************************************************************************)
EXTENDS Naturals, FiniteSets

CONSTANTS Runs,        \* the roxy processes working on the package
          NumRd,       \* how many Rd paths there are
          Generated,   \* texts whose first line is a generation marker
          Unmanaged,   \* nodes plan_outputs refuses: hand-written text, text
                       \* that is not UTF-8, a symlink, a directory
          Wants,       \* the outputs a documentation run may produce
          MaxStarts, MaxEdits, MaxFaults, MaxKills  \* bounds of the runs

\* Paths in output order: NAMESPACE sorts before man/*.Rd.
NAMESPACE == 0
RdPaths == 1 .. NumRd
Paths == {NAMESPACE} \cup RdPaths
MAN == NumRd + 1       \* the man directory itself, for the history variables

Nodes == {"Absent"} \cup Unmanaged \cup Generated
NoOutputs == [p \in Paths |-> "NoOutput"]
OutputSets == {o \in [Paths -> Generated \cup {"NoOutput"}] : o[NAMESPACE] # "NoOutput"}
OutputActions == {"Create", "Replace", "Unchanged"}

Sentinels == {"Absent", "NoOutput", "NoTemp", "Lost", "Partial"}

ASSUME NumRdAssumption == NumRd \in Nat
ASSUME RunsAssumption == IsFiniteSet(Runs) /\ Runs # {}
ASSUME WantsAssumption == Wants \subseteq OutputSets
ASSUME TextAssumption == /\ Generated \cap Unmanaged = {}
                         /\ (Generated \cup Unmanaged) \cap Sentinels = {}
ASSUME BoundAssumption == /\ MaxStarts \in Nat /\ MaxEdits \in Nat
                          /\ MaxFaults \in Nat /\ MaxKills \in Nat

VARIABLES
  \* The package directory.
  man,         \* the man directory: missing, dir, or blocked (anything else)
  fs,          \* the node at each output path
  litter,      \* directories holding the temporary file of a killed run
  \* One roxy process each.
  pc,          \* the next file system call of the run
  want,        \* candidates: the generated text for each path
  todo,        \* entries the current loop has yet to finish
  plan,        \* the planned action of each inspected entry
  errors,      \* entries plan_outputs refused
  completed,   \* WriteReport: entries applied so far
  failed,      \* the entry whose application failed
  temp,        \* the temporary file of the entry being written
  status,      \* the status the process reported
  \* History, read by no action.
  steady,      \* paths no other actor changed since the run began
  foreign,     \* paths another actor changed since the run last looked
  \* Bounds.
  starts, edits, faults, kills

tree == <<man, fs, litter>>
progress == <<want, todo, plan, errors, completed, failed, status>>
bounds == <<starts, edits, faults, kills>>
vars == <<man, fs, litter, pc, want, todo, plan, errors, completed, failed,
          temp, status, steady, foreign, starts, edits, faults, kills>>

WriteSteps == {"statMan", "makeMan", "restatMan", "checkFirst", "createTemp",
               "writeTemp", "checkLast", "setMode", "persist"}
TempSteps == {"writeTemp", "checkLast", "setMode", "persist"}
Running == {"planning", "applying"} \cup WriteSteps
Stopped == {"idle", "ended", "killed"}

-----------------------------------------------------------------------------
(* Helpers *)

Outputs(w) == {p \in Paths : want[w][p] # "NoOutput"}

\* Mutant: candidates and plan entries are not sorted.
Current_Unsorted(w, p) == p \in todo[w]

\* The entry a loop is at: the least path it has not finished.
Current(w, p) == p \in todo[w] /\ \A q \in todo[w] : p <= q

\* The directory a path and its temporary file are in.
Folder(p) == IF p = NAMESPACE THEN "root" ELSE "man"
FolderExists(p) == p = NAMESPACE \/ man = "dir"

\* Mutant: the old and the new bytes are not compared.
Inspect_NoUnchanged(w, p) ==
  IF (p # NAMESPACE /\ man = "blocked") \/ fs[p] \in Unmanaged THEN "Refused"
  ELSE IF fs[p] = "Absent" THEN "Create" ELSE "Replace"

\* inspect_destination, after inspect_man_directory for an Rd path: the
\* action the destination calls for, or Refused.  A missing man directory
\* has no node in it, so it calls for Create.
Inspect(w, p) ==
  IF p # NAMESPACE /\ man = "blocked" THEN "Refused"
  ELSE IF fs[p] = "Absent"    THEN "Create"
  ELSE IF fs[p] \in Unmanaged THEN "Refused"
  ELSE IF fs[p] = want[w][p]  THEN "Unchanged"
  ELSE "Replace"

\* The run has just looked at p.
Look(w, p) == foreign' = [foreign EXCEPT ![w] = @ \ {p}]

\* The paths S changed: the runs W did not do it, any other run did.
Disturb(W, S) ==
  /\ steady' = [v \in Runs |-> IF v \in W THEN steady[v] \ S ELSE steady[v]]
  /\ foreign' = [v \in Runs |-> IF v \in W THEN foreign[v] \cup S ELSE foreign[v] \ S]

Goto(w, label) == pc' = [pc EXCEPT ![w] = label]

\* Mutant: not_attempted starts at the failing entry.
Fail_KeepEntry(w, p) ==
  /\ Goto(w, "ended")
  /\ status' = [status EXCEPT ![w] = "Operational"]
  /\ failed' = [failed EXCEPT ![w] = {p}]
  /\ temp' = [temp EXCEPT ![w] = "NoTemp"]
  /\ UNCHANGED <<want, todo, plan, errors, completed>>

\* apply_outputs returns a WriteFailure: the temporary file is removed when
\* it is dropped, and what is left of todo is not_attempted.
Fail(w, p) ==
  /\ Goto(w, "ended")
  /\ status' = [status EXCEPT ![w] = "Operational"]
  /\ failed' = [failed EXCEPT ![w] = {p}]
  /\ todo' = [todo EXCEPT ![w] = @ \ {p}]
  /\ temp' = [temp EXCEPT ![w] = "NoTemp"]
  /\ UNCHANGED <<want, plan, errors, completed>>

\* The entry is applied and pushed to the report; the loop goes on.
Complete(w, p) ==
  /\ Goto(w, "applying")
  /\ completed' = [completed EXCEPT ![w] = @ \cup {p}]
  /\ todo' = [todo EXCEPT ![w] = @ \ {p}]
  /\ UNCHANGED <<want, plan, errors, failed, status>>

-----------------------------------------------------------------------------
Init ==
  /\ man \in {"missing", "dir", "blocked"}
  /\ fs \in [Paths -> Nodes]
  /\ man # "dir" => \A p \in RdPaths : fs[p] = "Absent"
  /\ litter = {}
  /\ pc = [w \in Runs |-> "idle"]
  /\ want = [w \in Runs |-> NoOutputs]
  /\ todo = [w \in Runs |-> {}]
  /\ plan = [w \in Runs |-> [p \in Paths |-> "None"]]
  /\ errors = [w \in Runs |-> {}]
  /\ completed = [w \in Runs |-> {}]
  /\ failed = [w \in Runs |-> {}]
  /\ temp = [w \in Runs |-> "NoTemp"]
  /\ status = [w \in Runs |-> "None"]
  /\ steady = [w \in Runs |-> Paths \cup {MAN}]
  /\ foreign = [w \in Runs |-> {}]
  /\ starts = 0 /\ edits = 0 /\ faults = 0 /\ kills = 0

-----------------------------------------------------------------------------
(* doc::run up to the write gate *)

\* A new process on the package; the previous one ended or was killed.
Start(w) ==
  /\ pc[w] \in Stopped
  /\ starts < MaxStarts
  /\ starts' = starts + 1
  /\ plan' = [plan EXCEPT ![w] = [p \in Paths |-> "None"]]
  /\ errors' = [errors EXCEPT ![w] = {}]
  /\ completed' = [completed EXCEPT ![w] = {}]
  /\ failed' = [failed EXCEPT ![w] = {}]
  /\ steady' = [steady EXCEPT ![w] = Paths \cup {MAN}]
  /\ foreign' = [foreign EXCEPT ![w] = {}]
  /\ UNCHANGED <<tree, temp, edits, faults, kills>>

\* The documentation has no errors: the gate opens and planning begins.
Begin(w) ==
  /\ Start(w)
  /\ \E o \in Wants :
       /\ want' = [want EXCEPT ![w] = o]
       /\ todo' = [todo EXCEPT ![w] = {p \in Paths : o[p] # "NoOutput"}]
  /\ status' = [status EXCEPT ![w] = "None"]
  /\ Goto(w, "planning")

\* Unreadable inputs or configuration (Operational), or documentation with
\* errors (Diagnostics): the gate stays shut.
EndBeforeGate(w) ==
  /\ Start(w)
  /\ want' = [want EXCEPT ![w] = NoOutputs]
  /\ todo' = [todo EXCEPT ![w] = {}]
  /\ \E s \in {"Operational", "Diagnostics"} : status' = [status EXCEPT ![w] = s]
  /\ Goto(w, "ended")

-----------------------------------------------------------------------------
(* plan_outputs *)

\* One candidate is inspected; a refused one is an error and the loop goes on.
PlanEntry(w, p) ==
  /\ pc[w] = "planning"
  /\ Current(w, p)
  /\ todo' = [todo EXCEPT ![w] = @ \ {p}]
  /\ IF Inspect(w, p) = "Refused"
     THEN errors' = [errors EXCEPT ![w] = @ \cup {p}] /\ plan' = plan
     ELSE plan' = [plan EXCEPT ![w][p] = Inspect(w, p)] /\ errors' = errors
  /\ Look(w, p)
  /\ UNCHANGED <<tree, pc, want, completed, failed, temp, status, steady, bounds>>

\* Any error refuses the whole plan before a single file is written.
RefusePlan(w) ==
  /\ pc[w] = "planning" /\ todo[w] = {} /\ errors[w] # {}
  /\ Goto(w, "ended")
  /\ status' = [status EXCEPT ![w] = "Operational"]
  /\ UNCHANGED <<tree, want, todo, plan, errors, completed, failed, temp, steady,
                 foreign, bounds>>

\* Mutant: refused candidates are left out and the rest is written.
AcceptPlan_Partial(w) ==
  /\ pc[w] = "planning" /\ todo[w] = {}
  /\ Goto(w, "applying")
  /\ todo' = [todo EXCEPT ![w] = Outputs(w) \ errors[w]]
  /\ UNCHANGED <<tree, want, plan, errors, completed, failed, temp, status, steady,
                 foreign, bounds>>

AcceptPlan(w) ==
  /\ pc[w] = "planning" /\ todo[w] = {} /\ errors[w] = {}
  /\ Goto(w, "applying")
  /\ todo' = [todo EXCEPT ![w] = Outputs(w)]
  /\ UNCHANGED <<tree, want, plan, errors, completed, failed, temp, status, steady,
                 foreign, bounds>>
\* canonicalize or the stat of the package root fails.
RootFault(w) ==
  /\ pc[w] = "planning" /\ todo[w] = Outputs(w)
  /\ faults < MaxFaults /\ faults' = faults + 1
  /\ Goto(w, "ended")
  /\ status' = [status EXCEPT ![w] = "Operational"]
  /\ UNCHANGED <<tree, want, todo, plan, errors, completed, failed, temp, steady,
                 foreign, starts, edits, kills>>

\* A candidate cannot be read: an error like a refusal.
PlanFault(w, p) ==
  /\ pc[w] = "planning" /\ Current(w, p)
  /\ faults < MaxFaults /\ faults' = faults + 1
  /\ todo' = [todo EXCEPT ![w] = @ \ {p}]
  /\ errors' = [errors EXCEPT ![w] = @ \cup {p}]
  /\ UNCHANGED <<tree, pc, want, plan, completed, failed, temp, status, steady,
                 foreign, starts, edits, kills>>

-----------------------------------------------------------------------------
(* apply_outputs and write_entry *)

At(w, p, label) == pc[w] = label /\ Current(w, p)

\* revalidate_entry: the destination no longer calls for the planned action.
RevalidateStale(w, p) ==
  /\ At(w, p, "applying")
  /\ Inspect(w, p) # plan[w][p]
  /\ Fail(w, p)
  /\ UNCHANGED <<tree, steady, foreign, bounds>>

\* Mutant: entries planned Unchanged are not looked at again.
KeepUnchanged_Unchecked(w, p) ==
  /\ At(w, p, "applying")
  /\ plan[w][p] = "Unchanged"
  /\ Complete(w, p)
  /\ Look(w, p)
  /\ UNCHANGED <<tree, temp, steady, bounds>>

KeepUnchanged(w, p) ==
  /\ At(w, p, "applying")
  /\ plan[w][p] = "Unchanged" /\ Inspect(w, p) = "Unchanged"
  /\ Complete(w, p)
  /\ Look(w, p)
  /\ UNCHANGED <<tree, temp, steady, bounds>>

BeginWrite(w, p) ==
  /\ At(w, p, "applying")
  /\ plan[w][p] # "Unchanged" /\ Inspect(w, p) = plan[w][p]
  /\ Goto(w, IF p = NAMESPACE THEN "checkFirst" ELSE "statMan")
  /\ Look(w, p)
  /\ UNCHANGED <<tree, progress, temp, steady, bounds>>

\* Mutant: create_dir without a stat.
StatMan_Always(w, p) ==
  /\ At(w, p, "statMan")
  /\ Goto(w, "makeMan")
  /\ UNCHANGED <<tree, progress, temp, steady, foreign, bounds>>

\* ensure_man_directory: stat, create when missing, stat again.
StatMan(w, p) ==
  /\ At(w, p, "statMan")
  /\ Goto(w, IF man = "missing" THEN "makeMan" ELSE "restatMan")
  /\ UNCHANGED <<tree, progress, temp, steady, foreign, bounds>>

MakeMan(w, p) ==
  /\ At(w, p, "makeMan")
  /\ man = "missing"
  /\ man' = "dir"
  /\ Goto(w, "restatMan")
  /\ Disturb(Runs \ {w}, {MAN})
  /\ UNCHANGED <<fs, litter, progress, temp, bounds>>

\* create_dir fails on a path that has come to exist.
MakeManExists(w, p) ==
  /\ At(w, p, "makeMan")
  /\ man # "missing"
  /\ Fail(w, p)
  /\ UNCHANGED <<tree, steady, foreign, bounds>>

RestatMan(w, p) ==
  /\ At(w, p, "restatMan")
  /\ IF man = "dir"
     THEN Goto(w, "checkFirst") /\ UNCHANGED <<progress, temp>>
     ELSE Fail(w, p)
  /\ UNCHANGED <<tree, steady, foreign, bounds>>

CheckFirst(w, p) ==
  /\ At(w, p, "checkFirst")
  /\ IF Inspect(w, p) = plan[w][p]
     THEN Goto(w, "createTemp") /\ UNCHANGED <<progress, temp>>
     ELSE Fail(w, p)
  /\ Look(w, p)
  /\ UNCHANGED <<tree, steady, bounds>>

\* Mutant: the file is put in place before it is written.
CreateTemp_InPlace(w, p) ==
  /\ At(w, p, "createTemp")
  /\ FolderExists(p)
  /\ temp' = [temp EXCEPT ![w] = "Partial"]
  /\ Goto(w, "persist")
  /\ UNCHANGED <<tree, progress, steady, foreign, bounds>>

CreateTemp(w, p) ==
  /\ At(w, p, "createTemp")
  /\ IF FolderExists(p)
     THEN /\ temp' = [temp EXCEPT ![w] = "Partial"]
          /\ Goto(w, "writeTemp")
          /\ UNCHANGED progress
     ELSE Fail(w, p)
  /\ UNCHANGED <<tree, steady, foreign, bounds>>

\* Writing and flushing succeeds on a file whose directory is gone.
WriteTemp(w, p) ==
  /\ At(w, p, "writeTemp")
  /\ temp' = [temp EXCEPT ![w] = IF @ = "Lost" THEN "Lost" ELSE want[w][p]]
  /\ Goto(w, "checkLast")
  /\ UNCHANGED <<tree, progress, steady, foreign, bounds>>

\* Mutant: the last inspection is discarded.
CheckLast_Discarded(w, p) ==
  /\ At(w, p, "checkLast")
  /\ Goto(w, IF plan[w][p] = "Replace" THEN "setMode" ELSE "persist")
  /\ Look(w, p)
  /\ UNCHANGED <<tree, progress, temp, steady, bounds>>

CheckLast(w, p) ==
  /\ At(w, p, "checkLast")
  /\ IF Inspect(w, p) = plan[w][p]
     THEN /\ Goto(w, IF plan[w][p] = "Replace" THEN "setMode" ELSE "persist")
          /\ UNCHANGED <<progress, temp>>
     ELSE Fail(w, p)
  /\ Look(w, p)
  /\ UNCHANGED <<tree, steady, bounds>>

SetMode(w, p) ==
  /\ At(w, p, "setMode")
  /\ IF temp[w] # "Lost"
     THEN Goto(w, "persist") /\ UNCHANGED <<progress, temp>>
     ELSE Fail(w, p)
  /\ UNCHANGED <<tree, steady, foreign, bounds>>

\* The rename, whatever is at the destination by now.
Persist(w, p) ==
  /\ At(w, p, "persist")
  /\ temp[w] # "Lost"
  /\ fs' = [fs EXCEPT ![p] = temp[w]]
  /\ temp' = [temp EXCEPT ![w] = "NoTemp"]
  /\ Complete(w, p)
  /\ Disturb(Runs \ {w}, {p})
  /\ UNCHANGED <<man, litter, bounds>>

\* The temporary file is gone, or a directory is in the way.
PersistFails(w, p) ==
  /\ At(w, p, "persist")
  /\ temp[w] = "Lost" \/ fs[p] \in Unmanaged
  /\ Fail(w, p)
  /\ UNCHANGED <<tree, steady, foreign, bounds>>

\* Any system call of the application may fail.
ApplyFault(w, p) ==
  /\ pc[w] \in {"applying"} \cup WriteSteps
  /\ Current(w, p)
  /\ faults < MaxFaults /\ faults' = faults + 1
  /\ Fail(w, p)
  /\ UNCHANGED <<tree, steady, foreign, starts, edits, kills>>

Finish(w) ==
  /\ pc[w] = "applying" /\ todo[w] = {}
  /\ Goto(w, "ended")
  /\ status' = [status EXCEPT ![w] = "Success"]
  /\ UNCHANGED <<tree, want, todo, plan, errors, completed, failed, temp, steady,
                 foreign, bounds>>

-----------------------------------------------------------------------------
(* What the program does not control *)

\* The process dies without dropping anything.
Kill(w) ==
  /\ pc[w] \in Running
  /\ kills < MaxKills /\ kills' = kills + 1
  /\ Goto(w, "killed")
  /\ litter' = litter \cup {Folder(p) : p \in {q \in Paths :
                              Current(w, q) /\ temp[w] \notin {"NoTemp", "Lost"}}}
  /\ temp' = [temp EXCEPT ![w] = "NoTemp"]
  /\ UNCHANGED <<man, fs, progress, steady, foreign, starts, edits, faults>>

\* The author, an editor or version control changes a file ...
Edit(p) ==
  /\ edits < MaxEdits /\ edits' = edits + 1
  /\ FolderExists(p)
  /\ \E n \in Nodes \ {fs[p]} : fs' = [fs EXCEPT ![p] = n]
  /\ Disturb(Runs, {p})
  /\ UNCHANGED <<man, litter, pc, progress, temp, starts, faults, kills>>

\* ... or creates, removes or obstructs the man directory.
EditMan(m) ==
  /\ edits < MaxEdits /\ edits' = edits + 1
  /\ m # man /\ (man = "missing" \/ m = "missing")
  /\ man' = m
  /\ fs' = [p \in Paths |-> IF p = NAMESPACE THEN fs[p] ELSE "Absent"]
  /\ temp' = [w \in Runs |-> IF temp[w] # "NoTemp" /\ ~Current(w, NAMESPACE)
                             THEN "Lost" ELSE temp[w]]
  /\ litter' = litter \ {"man"}
  /\ Disturb(Runs, RdPaths \cup {MAN})
  /\ UNCHANGED <<pc, progress, starts, faults, kills>>

-----------------------------------------------------------------------------
(* One system call of the run, whatever its outcome. *)
Advance(w) ==
  \/ RefusePlan(w) \/ AcceptPlan(w) \/ Finish(w)
  \/ \E p \in Paths :
       \/ PlanEntry(w, p)
       \/ RevalidateStale(w, p) \/ KeepUnchanged(w, p) \/ BeginWrite(w, p)
       \/ StatMan(w, p) \/ MakeMan(w, p) \/ MakeManExists(w, p) \/ RestatMan(w, p)
       \/ CheckFirst(w, p) \/ CreateTemp(w, p) \/ WriteTemp(w, p) \/ CheckLast(w, p)
       \/ SetMode(w, p) \/ Persist(w, p) \/ PersistFails(w, p)

Interrupt(w) ==
  \/ Kill(w) \/ RootFault(w)
  \/ \E p \in Paths : PlanFault(w, p) \/ ApplyFault(w, p)

Environment ==
  \/ \E p \in Paths : Edit(p)
  \/ \E m \in {"missing", "dir", "blocked"} : EditMan(m)

Next ==
  \/ \E w \in Runs : Begin(w) \/ EndBeforeGate(w) \/ Advance(w) \/ Interrupt(w)
  \/ Environment

Spec == Init /\ [][Next]_vars

-----------------------------------------------------------------------------
(* Properties *)

TreeTypeOK ==
  /\ man \in {"missing", "dir", "blocked"}
  /\ fs \in [Paths -> Nodes]
  /\ man # "dir" => \A p \in RdPaths : fs[p] = "Absent"
  /\ litter \subseteq {"root", "man"}

RunTypeOK ==
  /\ pc \in [Runs -> Stopped \cup Running]
  /\ want \in [Runs -> OutputSets \cup {NoOutputs}]
  /\ todo \in [Runs -> SUBSET Paths]
  /\ plan \in [Runs -> [Paths -> OutputActions \cup {"None"}]]
  /\ errors \in [Runs -> SUBSET Paths]
  /\ completed \in [Runs -> SUBSET Paths]
  /\ failed \in [Runs -> SUBSET Paths]
  /\ temp \in [Runs -> {"NoTemp", "Lost", "Partial"} \cup Generated]
  /\ status \in [Runs -> {"None", "Success", "Diagnostics", "Operational"}]

HistoryTypeOK ==
  /\ steady \in [Runs -> SUBSET (Paths \cup {MAN})]
  /\ foreign \in [Runs -> SUBSET (Paths \cup {MAN})]

BoundTypeOK ==
  /\ starts \in 0 .. MaxStarts /\ edits \in 0 .. MaxEdits
  /\ faults \in 0 .. MaxFaults /\ kills \in 0 .. MaxKills

\* Every variable holds a value the program can hold; in particular no
\* destination ever holds a partly written text, and nothing is in a man
\* directory that does not exist.
TypeOK == TreeTypeOK /\ RunTypeOK /\ HistoryTypeOK /\ BoundTypeOK

\* Run w's rename at p, as seen in a step.
Writes(w, p) == pc[w] = "persist" /\ p \in completed'[w] \ completed[w]

\* A file without a generation marker is overwritten by a run only when it
\* appeared after that run's last look at the path: the residual race that
\* write_entry documents, and nothing wider.
UnmanagedSurvives ==
  [][\A p \in Paths :
       fs[p] \in Unmanaged /\ fs'[p] # fs[p] /\ edits' = edits
         => \E w \in Runs : Writes(w, p) /\ p \in foreign[w]]_vars

\* A file that already holds the run's output is not rewritten (its inode
\* and time stamp stay), unless another actor produced it after the last look.
UnchangedIsNotRewritten ==
  [][\A w \in Runs, p \in Paths :
       Writes(w, p) /\ fs[p] = want[w][p] => p \in foreign[w]]_vars

\* A destination the run must refuse, and that nobody changed since it began.
Blocked(w) ==
  \/ \E p \in Outputs(w) \cap steady[w] : fs[p] \in Unmanaged
  \/ MAN \in steady[w] /\ man = "blocked" /\ Outputs(w) \ {NAMESPACE} # {}

\* Preflight is all or nothing: with one such destination in its way, even
\* the last one, a run applies no entry at all.
PreflightIsAllOrNothing ==
  \A w \in Runs : Blocked(w) => completed[w] = {}

\* A run that reports Success has published everything: each of its paths
\* holds its text unless someone changed it after the run last looked.
SuccessMeansPublished ==
  \A w \in Runs : status[w] = "Success" =>
     \A p \in Outputs(w) \ foreign[w] : fs[p] = want[w][p]

\* A run that is left alone, over a tree with nothing to refuse, does not
\* fail, whatever earlier runs that failed or were killed left behind.
QuietRunSucceeds ==
  \A w \in Runs :
     /\ pc[w] = "ended" /\ want[w] # NoOutputs
     /\ steady[w] = Paths \cup {MAN} /\ faults = 0
     /\ ~Blocked(w)
     => status[w] = "Success"

\* The report of a run that ended accounts for every entry exactly once, in
\* path order: applied, then the one that failed, then not attempted.
ReportAccounts ==
  \A w \in Runs : pc[w] = "ended" /\ errors[w] = {} /\ completed[w] \cup failed[w] # {} =>
     /\ Outputs(w) = completed[w] \cup failed[w] \cup todo[w]
     /\ \A p \in completed[w], q \in failed[w] \cup todo[w] : p < q
     /\ \A p \in failed[w], q \in todo[w] : p < q
     /\ status[w] = "Success" <=> failed[w] = {}

\* A report is true: it accounts for every entry, and it says Success of every
\* run that nothing outside disturbed.
ReportsAreTrue == ReportAccounts /\ QuietRunSucceeds

\* Processes that race over one package without a lock cannot all fail: when
\* nothing else interferes and nothing must be refused, the furthest one
\* completes.
SomeRunSucceeds ==
  ( /\ edits = 0 /\ faults = 0 /\ kills = 0 /\ starts = Cardinality(Runs)
    /\ \A w \in Runs : pc[w] = "ended" /\ want[w] # NoOutputs
    /\ man # "blocked" /\ \A p \in Paths : fs[p] \notin Unmanaged )
  => \E w \in Runs : status[w] = "Success"

-----------------------------------------------------------------------------
(* What makes them inductive *)

\* A run's loop goes over its candidates; it has a temporary file exactly
\* while it is writing one, in a folder that exists, with the entry's text.
TempInv(w) ==
  /\ todo[w] \subseteq Outputs(w)
  /\ temp[w] # "NoTemp" <=> pc[w] \in TempSteps
  /\ temp[w] = "Partial" => pc[w] = "writeTemp"
  /\ \A p \in Paths : Current(w, p) =>
       /\ temp[w] \notin {"NoTemp", "Lost"} => FolderExists(p)
       /\ temp[w] \in Generated => temp[w] = want[w][p]

\* Between the last inspection and the rename, the destination still calls
\* for the planned write unless another actor changed it.
WindowInv(w) ==
  \A p \in Paths : Current(w, p) =>
    /\ pc[w] \in WriteSteps => plan[w][p] \in {"Create", "Replace"}
    /\ pc[w] \in {"setMode", "persist"} /\ p \notin foreign[w]
         => Inspect(w, p) = plan[w][p]

\* What is applied, what is left and what the tree holds agree.
LedgerInv(w) ==
  /\ pc[w] \in {"idle", "planning"} \cup WriteSteps \cup {"applying"} =>
       failed[w] = {} /\ status[w] = "None"
  /\ pc[w] \in {"idle", "planning"} => completed[w] = {}
  /\ pc[w] \in {"applying"} \cup WriteSteps =>
       /\ errors[w] = {}
       /\ Outputs(w) = completed[w] \cup todo[w]
       /\ \A p \in completed[w], q \in todo[w] : p < q
  /\ status[w] = "Success" => completed[w] = Outputs(w)
  /\ \A p \in completed[w] \ foreign[w] : fs[p] = want[w][p]

\* A destination to refuse is still to be inspected or is an error already.
PreflightInv(w) ==
  /\ pc[w] = "planning" =>
       /\ \A p \in Outputs(w) \cap steady[w] :
            fs[p] \in Unmanaged => p \in todo[w] \cup errors[w]
       /\ MAN \in steady[w] /\ man = "blocked" =>
            Outputs(w) \ {NAMESPACE} \subseteq todo[w] \cup errors[w]
  /\ pc[w] \notin {"idle", "planning"} /\ Blocked(w) => completed[w] = {} /\ pc[w] \in Stopped

WriterInv ==
  \A w \in Runs : TempInv(w) /\ WindowInv(w) /\ LedgerInv(w) /\ PreflightInv(w)

\* What a run that is left alone has found is still so, and no step it is at
\* can fail.
Quiet(w) == steady[w] = Paths \cup {MAN} /\ faults = 0 /\ want[w] # NoOutputs
QuietInv(w) ==
  Quiet(w) =>
    /\ temp[w] # "Lost"
    /\ pc[w] = "planning" =>
         /\ \A p \in errors[w] : p \in Outputs(w) /\ Inspect(w, p) = "Refused"
         /\ \A p \in Outputs(w) \ (todo[w] \cup errors[w]) : Inspect(w, p) = plan[w][p]
    /\ pc[w] \in {"applying"} \cup WriteSteps => \A p \in todo[w] : Inspect(w, p) = plan[w][p]
    /\ pc[w] \in {"statMan", "makeMan", "restatMan"} => ~Current(w, NAMESPACE)
    /\ pc[w] = "makeMan" => man = "missing"
    /\ pc[w] = "restatMan" => man = "dir"
    /\ pc[w] \in {"checkFirst", "createTemp"} \cup TempSteps =>
         \A p \in Paths : Current(w, p) => FolderExists(p)
    /\ pc[w] = "ended" => status[w] = "Success" \/ Blocked(w)

\* Only the runs interfere with one another, and each was started once.
Started == {w \in Runs : pc[w] # "idle"}
OnlyRuns == edits = 0 /\ faults = 0 /\ kills = 0 /\ starts = Cardinality(Started)

\* Another run applied the entry.
Overtaken(w, p) == \E v \in Runs \ {w} : p \in completed[v]

\* A run that has found or made the man directory and did not fail there.
PastMan(w) ==
  \/ completed[w] \cap RdPaths # {}
  \/ /\ pc[w] \in {"restatMan", "checkFirst", "createTemp"} \cup TempSteps
     /\ \E p \in RdPaths : Current(w, p)
  \/ \E p \in RdPaths : failed[w] = {p} /\ Overtaken(w, p)
SomePastMan == \E w \in Runs : PastMan(w)

\* What a run found stays so until another run applies the entry, and a run
\* fails at an entry that another run applied, or because another run made man.
PlannedInv(w) ==
  /\ pc[w] = "planning" =>
       \A p \in Outputs(w) \ (todo[w] \cup errors[w]) : plan[w][p] # "None"
  /\ pc[w] \in {"applying"} \cup WriteSteps => \A p \in todo[w] : plan[w][p] # "None"
FoundInv(w) ==
  /\ \A p \in Paths : plan[w][p] # "None" /\ p \notin completed[w] =>
       Overtaken(w, p) \/ Inspect(w, p) = plan[w][p]
  /\ \A p \in errors[w] : (p # NAMESPACE /\ man = "blocked") \/ fs[p] \in Unmanaged
  /\ \A p \in foreign[w] \cap Paths : fs[p] \in Generated
  /\ man = "blocked" => \A p \in RdPaths : plan[w][p] = "None"
  /\ completed[w] \cap RdPaths # {} => man = "dir"
FolderInv(w) ==
  /\ temp[w] # "Lost"
  /\ pc[w] \in {"statMan", "makeMan", "restatMan"} => ~Current(w, NAMESPACE)
  /\ pc[w] = "makeMan" => completed[w] \cap RdPaths = {} /\ (man = "missing" \/ SomePastMan)
  /\ pc[w] = "restatMan" => man = "dir"
  /\ pc[w] \in {"checkFirst", "createTemp"} \cup TempSteps =>
       \A p \in Paths : Current(w, p) => FolderExists(p)
CauseInv(w) ==
  pc[w] = "ended" /\ want[w] # NoOutputs /\ errors[w] = {} /\ status[w] # "Success" =>
    \E p \in Paths :
      /\ failed[w] = {p}
      /\ \/ Overtaken(w, p)
         \/ p \in RdPaths /\ completed[w] \cap RdPaths = {} /\ SomePastMan

RaceInv ==
  /\ Cardinality(Started) <= starts
  /\ OnlyRuns => \A w \in Runs :
       PlannedInv(w) /\ FoundInv(w) /\ FolderInv(w) /\ CauseInv(w)

-----------------------------------------------------------------------------
(* The abstract promise of OutputTree *)

Phase == [w \in Runs |-> IF pc[w] \in Running THEN "running"
                         ELSE IF pc[w] = "idle" THEN "idle" ELSE "ended"]

Tree == INSTANCE OutputTree WITH phase   <- Phase,
                                 success <- {w \in Runs : status[w] = "Success"}

\* Seen from outside, a run publishes its outputs whole, one by one and in
\* path order, and says Success only after the last one: the inspections,
\* the man directory and the temporary files are invisible.
ImplementsTree == Tree!Spec
=============================================================================
