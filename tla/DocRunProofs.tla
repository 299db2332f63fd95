---------------------------- MODULE DocRunProofs ----------------------------
(***************************************************************************)
(* Proofs about DocRun: for any packages, whatever their stages have to    *)
(* say and however their topics are named.                                 *)
(*                                                                         *)
(* First the invariant of a run.  Then the documents: which lists of nodes *)
(* the writer takes, that every loop and every section of the build keeps  *)
(* to such lists, that the scan of examples does and loses nothing of      *)
(* their code, and so that a topic whose contents are taken is taken.      *)
(***************************************************************************)
EXTENDS DocRun, FoldFacts, SequenceTheorems, FiniteSetTheorems, TLAPS

-----------------------------------------------------------------------------
(* The invariant *)

Early == {"inputs", "config", "parse", "inherit"}
Judging == {"dedup", "unused", "namespace", "gate"}
\* The Rd build is over.
Judged == pc \in Judging \/ (pc = "done" /\ Ran)

Built(k) == Build(pkg.topics[k], Table)
Claims == {k \in Topics : Built(k).path # <<>>}
Rivals(k) == {j \in Claims : Built(j).path = Built(k).path}
\* What a topic can say: of inline R only errors, of other topics nothing.
WellSaid(d) ==
  /\ d = Diagnostic(d.severity, d.code, d.place)
  /\ d.code \in InlineCodes => d.severity = "Error"
Collision(k) == Diagnostic("Error", "ConflictingRdFileName", pkg.topics[k].key)

TypeInv ==
  /\ pc \in Early \cup {"topics"} \cup Judging \cup {"done"}
  /\ at \in Nat
  /\ \E Packages \in Families : pkg \in Packages

\* An error stays in its list whatever follows.
ErrorsInv == raised = Errors(Shown)

\* The topics built are the first ones; a file is a claim to its path.
TopicsInv ==
  /\ pc \in Early => rd = <<>> /\ files = Function0
  /\ pc = "topics" =>
       /\ at \in 0 .. Len(pkg.topics)
       /\ rd = [k \in 1 .. at |-> Built(k).diagnostics]
       /\ files = [k \in {c \in Claims : c <= at} |-> Built(k).path[1]]

\* Judged, the claims that nobody else makes are left; the topic that comes
\* after another one is blamed, before and after equal diagnostics are left out.
JudgedInv ==
  Judged =>
    /\ DOMAIN rd = Topics
    /\ files = [k \in {c \in Claims : Rivals(c) = {c}} |-> Built(k).path[1]]
    /\ \A k \in Topics : \A d \in rd[k] : WellSaid(d)
    /\ {d \in RdSaid : d.code = "ConflictingRdFileName"} =
         {Collision(k) : k \in {c \in Claims : \E j \in Rivals(c) : j < c}}

\* A topic without a file has an error.
LossInv ==
  Judged =>
    \A k \in Topics \ DOMAIN files :
      \/ \E e \in raised : e.place \in Places(pkg.topics[k])
      \/ \E j \in Topics \ {k} : /\ OutputPath(pkg.topics[j].key) = OutputPath(pkg.topics[k].key)
                             /\ \E e \in raised : e.place = pkg.topics[j].key

\* What was looked up of the user's is recorded, and reported unused is what
\* was not.
UsedInv ==
  /\ pc \in Early => used = {}
  /\ pc = "topics" =>
       used = pkg.user \cap (pkg.keyed \cup UNION {Built(k).looked : k \in 1 .. at})
  /\ pc \in Judging =>
       used = pkg.user \cap (pkg.keyed \cup UNION {Built(k).looked : k \in Topics})
  /\ pc \in Early \cup {"topics", "dedup", "unused"} =>
       \A d \in analysis : d.code # "UnusedInlineRSubstitution"
  /\ pc \in {"namespace", "gate"} =>
       {d \in analysis : d.code = "UnusedInlineRSubstitution"} =
         {Diagnostic("Warning", "UnusedInlineRSubstitution", <<e>>) : e \in pkg.user \ used}

\* The gate is opened only if nothing is wrong.
GateInv ==
  /\ pc # "done" => published = {}
  /\ pc \notin {"gate", "done"} => namespace = {}
  /\ pc = "done" /\ Ran =>
       /\ status = "Diagnostics" <=> HasErrorsAnywhere
       /\ HasErrorsAnywhere => published = {}

RunInv == TypeInv /\ ErrorsInv /\ TopicsInv /\ JudgedInv /\ LossInv /\ UsedInv /\ GateInv

-----------------------------------------------------------------------------
(* One topic *)

\* The package of a run is one of the packages there are.
LEMMA PackageFacts ==
  ASSUME TypeInv
  PROVE  /\ Len(pkg.topics) \in Nat /\ Topics = 1 .. Len(pkg.topics)
         /\ Len(pkg.files) \in Nat /\ DOMAIN pkg.files = 1 .. Len(pkg.files)
         /\ \A i \in DOMAIN pkg.files : \A d \in pkg.files[i] :
              d.code # "UnusedInlineRSubstitution"
         /\ \A d \in pkg.model \cup pkg.inherit : d.code # "UnusedInlineRSubstitution"
         /\ \A k \in Topics :
              /\ pkg.topics[k].blocks > 0
              /\ \A c \in ContentsOf(pkg.topics[k]) : \A d \in c.problems :
                   WellSaid(d) /\ d.code # "ConflictingRdFileName"
<1>1. PICK Packages \in Families : pkg \in Packages
  BY DEF TypeInv
<1>2. /\ IsList(pkg.files) /\ IsList(pkg.topics)
      /\ \A d \in (UNION {pkg.files[i] : i \in DOMAIN pkg.files}) \cup pkg.model \cup pkg.inherit :
           d.code # "UnusedInlineRSubstitution"
      /\ \A k \in DOMAIN pkg.topics :
           /\ pkg.topics[k].blocks > 0
           /\ \A c \in ContentsOf(pkg.topics[k]) : \A d \in c.problems :
                /\ d = Diagnostic(d.severity, d.code, d.place)
                /\ d.code # "ConflictingRdFileName"
                /\ d.code \in InlineCodes => d.severity = "Error"
  BY <1>1, PackagesAssumption
<1>3. /\ Len(pkg.topics) \in Nat /\ Topics = 1 .. Len(pkg.topics)
      /\ Len(pkg.files) \in Nat /\ DOMAIN pkg.files = 1 .. Len(pkg.files)
  BY <1>2 DEF IsList, Topics
<1>4. /\ \A i \in DOMAIN pkg.files : \A d \in pkg.files[i] :
           d.code # "UnusedInlineRSubstitution"
      /\ \A d \in pkg.model \cup pkg.inherit : d.code # "UnusedInlineRSubstitution"
  <2> DEFINE parsed == UNION {pkg.files[i] : i \in DOMAIN pkg.files}
  <2>1. \A d \in parsed \cup pkg.model \cup pkg.inherit : d.code # "UnusedInlineRSubstitution"
    BY <1>2
  <2>2. \A i \in DOMAIN pkg.files : pkg.files[i] \subseteq parsed
    OBVIOUS
  <2> HIDE DEF parsed
  <2> QED
    BY <2>1, <2>2
<1>5. \A k \in Topics :
        /\ pkg.topics[k].blocks > 0
        /\ \A c \in ContentsOf(pkg.topics[k]) : \A d \in c.problems :
             WellSaid(d) /\ d.code # "ConflictingRdFileName"
  BY <1>2, Zenon DEF Topics, WellSaid
<1> QED
  BY <1>3, <1>4, <1>5

\* What the conversion of a content has to say is at a place of the content,
\* and of inline R it has only errors.
LEMMA FoundSays ==
  ASSUME NEW c, NEW Known, NEW d \in Found(c, Known),
         \A p \in c.problems : WellSaid(p) /\ p.code # "ConflictingRdFileName"
  PROVE  /\ WellSaid(d) /\ d.code # "ConflictingRdFileName"
         /\ d.place \in {e.place : e \in c.inline} \cup {p.place : p \in c.problems} \cup {c.place}
<1> DEFINE Missing == {Diagnostic("Error", "UndefinedInlineRSubstitution", e.place) :
                         e \in {met \in c.inline : met.expr \notin Known}}
           Told == {Diagnostic("Error", IssueCode(issue), c.place) : issue \in Lower(c.source).issues}
<1>1. \A e : WellSaid(Diagnostic("Error", "UndefinedInlineRSubstitution", e))
  BY DEF WellSaid, Diagnostic
<1>2. \A issue, e : /\ WellSaid(Diagnostic("Error", IssueCode(issue), e))
                    /\ IssueCode(issue) # "ConflictingRdFileName"
  BY DEF WellSaid, Diagnostic, IssueCode
<1>3. CASE d \in c.problems
  BY <1>3
<1>4. CASE d \in Missing
  BY <1>1, <1>4 DEF Diagnostic
<1>5. CASE d \in Told
  BY <1>2, <1>5 DEF Diagnostic
<1>6. CASE c.form = "Markdown"
  <2>1. Found(c, Known) = c.problems \cup Missing
    BY <1>6 DEF Found
  <2> QED
    BY <2>1, <1>3, <1>4
<1>7. CASE c.form = "Examples"
  <2>1. Found(c, Known) = Told
    BY <1>7 DEF Found
  <2> QED
    BY <2>1, <1>5
<1>8. CASE c.form # "Markdown" /\ c.form # "Examples"
  <2>1. Found(c, Known) = {}
    BY <1>8 DEF Found
  <2> QED
    BY <2>1
<1> QED
  BY <1>6, <1>7, <1>8

\* A topic becomes the file its name says, or has an error at a place of its
\* own; it looks up what its contents mention, if it is built at all.
LEMMA BuildSays ==
  ASSUME NEW t, NEW Known, t.blocks > 0,
         \A c \in ContentsOf(t) : \A d \in c.problems :
           WellSaid(d) /\ d.code # "ConflictingRdFileName"
  PROVE  /\ Build(t, Known).path \in {<<>>, OutputPath(t.key)}
         /\ Build(t, Known).path = <<>> =>
              \E e \in Errors(Build(t, Known).diagnostics) : e.place \in Places(t)
         /\ Build(t, Known).path # <<>> => Build(t, Known).looked = Mentions(t)
         /\ Build(t, Known).looked \subseteq Mentions(t)
         /\ \A d \in Build(t, Known).diagnostics :
              WellSaid(d) /\ d.code # "ConflictingRdFileName"
<1> DEFINE found == UNION {Found(c, Known) : c \in ContentsOf(t)}
           written == Representable(Roots(t))
           unwritten == SaidIf(~ HasErrors(found) /\ ~ written,
                               Diagnostic("Error", "RdSerializationFailed", t.key))
<1>1. \A d \in found : /\ WellSaid(d) /\ d.code # "ConflictingRdFileName"
                       /\ d.place \in Places(t)
  <2> SUFFICES ASSUME NEW c \in ContentsOf(t), NEW d \in Found(c, Known)
               PROVE  /\ WellSaid(d) /\ d.code # "ConflictingRdFileName"
                      /\ d.place \in Places(t)
    OBVIOUS
  <2>1. /\ WellSaid(d) /\ d.code # "ConflictingRdFileName"
        /\ d.place \in {e.place : e \in c.inline} \cup {p.place : p \in c.problems} \cup {c.place}
    BY FoundSays
  <2> QED
    BY <2>1 DEF Places
<1>2. \A d \in Warnings(t) : WellSaid(d) /\ d.code # "ConflictingRdFileName"
  BY DEF Warnings, SaidIf, WellSaid, Diagnostic, InlineCodes
<1>3. t.key \in Places(t)
  BY DEF Places
<1>4. CASE Refused(t)
  <2>1. Build(t, Known) = [diagnostics |-> Warnings(t) \cup Refusal(t), looked |-> {}, path |-> <<>>]
    BY <1>4 DEF Build
  <2>2. \A d \in Refusal(t) : /\ WellSaid(d) /\ d.code # "ConflictingRdFileName"
                              /\ d.severity = "Error" /\ d.place = t.key
    BY DEF Refusal, SaidIf, WellSaid, Diagnostic, InlineCodes
  <2>3. Refusal(t) # {}
    BY <1>4 DEF Refusal, Refused, SaidIf, Anchored
  <2>4. \E e \in Errors(Build(t, Known).diagnostics) : e.place \in Places(t)
    BY <2>1, <2>2, <2>3, <1>3 DEF Errors
  <2> QED
    BY <2>1, <2>2, <2>4, <1>2
<1>5. CASE ~ Refused(t)
  <2>1. Build(t, Known) =
          [diagnostics |-> Warnings(t) \cup found \cup unwritten,
           looked |-> UNION {LookedUp(c) : c \in ContentsOf(t)},
           path |-> IF ~ HasErrors(found) /\ written THEN OutputPath(t.key) ELSE <<>>]
    BY <1>5 DEF Build
  <2> HIDE DEF found, written
  <2>2. OutputPath(t.key) # <<>>
    BY <1>5 DEF Refused
  <2>3. \A d \in unwritten : /\ WellSaid(d) /\ d.code # "ConflictingRdFileName"
                             /\ d.severity = "Error" /\ d.place = t.key
    BY DEF SaidIf, WellSaid, Diagnostic, InlineCodes
  <2>4. ASSUME Build(t, Known).path = <<>>
        PROVE  \E e \in Errors(Build(t, Known).diagnostics) : e.place \in Places(t)
    <3>1. CASE HasErrors(found)
      <4>1. PICK e \in found : e.severity = "Error"
        BY <3>1 DEF HasErrors
      <4> QED
        BY <4>1, <2>1, <1>1 DEF Errors
    <3>2. CASE ~ HasErrors(found)
      <4>1. ~ written
        BY <2>1, <2>2, <2>4, <3>2
      <4>2. unwritten # {}
        BY <4>1, <3>2 DEF SaidIf
      <4> QED
        BY <4>2, <2>1, <2>3, <1>3 DEF Errors
    <3> QED
      BY <3>1, <3>2
  <2>5. Build(t, Known).looked = Mentions(t)
    BY <2>1 DEF Mentions
  <2>6. \A d \in Build(t, Known).diagnostics : WellSaid(d) /\ d.code # "ConflictingRdFileName"
    BY <2>1, <2>3, <1>1, <1>2
  <2>7. Build(t, Known).path \in {<<>>, OutputPath(t.key)}
    BY <2>1
  <2> QED
    BY <2>4, <2>5, <2>6, <2>7
<1> QED
  BY <1>4, <1>5

-----------------------------------------------------------------------------
(* The steps *)

\* What is said of a package stays as long as the package does.
LEMMA SamePackage ==
  ASSUME pkg' = pkg
  PROVE  /\ Topics' = Topics /\ Ran' = Ran /\ Table' = Table
         /\ \A k : Built(k)' = Built(k)
         /\ Claims' = Claims
         /\ \A k : Rivals(k)' = Rivals(k)
         /\ \A k : Collision(k)' = Collision(k)
<1>1. Topics' = Topics /\ Ran' = Ran /\ Table' = Table
  BY DEF Topics, Ran, Table
<1>2. \A k : Built(k)' = Built(k)
  BY <1>1 DEF Built
<1>3. Claims' = Claims
  BY <1>1, <1>2 DEF Claims
<1>4. \A k : Rivals(k)' = Rivals(k)
  BY <1>2, <1>3 DEF Rivals
<1>5. \A k : Collision(k)' = Collision(k)
  BY DEF Collision
<1> QED
  BY <1>1, <1>2, <1>3, <1>4, <1>5

\* No step changes the package.
LEMMA KeepsPackage ==
  ASSUME [Next]_vars
  PROVE  pkg' = pkg
  BY DEF Next, vars, LoadInputs, LoadConfig, ParseFile, BuildModel, Inherit, BuildTopic,
         JudgeNames, Deduplicate, ReportUnused, BuildNamespace, Gate, Done, Stop, Goto, Say

\* The first state.
LEMMA RunStarts ==
  ASSUME Init
  PROVE  RunInv
<1>1. TypeInv /\ TopicsInv /\ GateInv
  BY DEF Init, TypeInv, TopicsInv, GateInv, Early
<1>2. ErrorsInv
  BY DEF Init, ErrorsInv, Errors, Shown, RdSaid
<1>3. JudgedInv /\ LossInv
  BY DEF Init, JudgedInv, LossInv, Judged, Judging
<1>4. UsedInv
  BY DEF Init, UsedInv, Early, Judging
<1> QED
  BY <1>1, <1>2, <1>3, <1>4 DEF RunInv

\* Steps that only move on, or end the command before the pipeline.
LEMMA LoadKeeps ==
  ASSUME RunInv, LoadInputs \/ LoadConfig
  PROVE  RunInv'
<1>0. /\ pc \in {"inputs", "config"}
      /\ \/ pc' \in {"config", "parse"} /\ status' = status
         \/ pc' = "done" /\ ~ Ran
      /\ UNCHANGED <<pkg, at, analysis, rd, namespace, used, files, published, raised>>
  <2>1. CASE LoadInputs
    BY <2>1 DEF LoadInputs, Goto, Stop, Ran
  <2>2. CASE LoadConfig
    <3>1. CASE pkg.config = "unreadable"
      BY <2>2, <3>1 DEF LoadConfig, Stop, Ran
    <3>2. CASE pkg.config = "invalid"
      BY <2>2, <3>2 DEF LoadConfig, Stop, Ran
    <3>3. CASE pkg.config # "unreadable" /\ pkg.config # "invalid"
      BY <2>2, <3>3 DEF LoadConfig, Goto
    <3> QED
      BY <3>1, <3>2, <3>3
  <2> QED
    BY <2>1, <2>2
<1>1. Ran' = Ran
  BY <1>0, SamePackage
<1>2. TypeInv'
  BY <1>0 DEF RunInv, TypeInv, Early
<1>3. ErrorsInv'
  BY <1>0 DEF RunInv, ErrorsInv, Shown, RdSaid
<1>4. TopicsInv'
  BY <1>0 DEF RunInv, TopicsInv, Early
<1>5. JudgedInv' /\ LossInv' /\ GateInv'
  BY <1>0, <1>1 DEF RunInv, JudgedInv, LossInv, GateInv, Judged, Judging
<1>6. UsedInv'
  BY <1>0 DEF RunInv, UsedInv, Early, Judging
<1> QED
  BY <1>2, <1>3, <1>4, <1>5, <1>6 DEF RunInv

\* What the analysis says is kept with its errors.
LEMMA SayKeeps ==
  ASSUME NEW said, ErrorsInv, Say(said), rd' = rd, namespace' = namespace
  PROVE  ErrorsInv'
<1>1. Shown' = Shown \cup said
  BY DEF Shown, RdSaid, Say
<1> QED
  BY <1>1 DEF ErrorsInv, Say, Errors

LEMMA AnalysisKeeps ==
  ASSUME RunInv, ParseFile \/ BuildModel
  PROVE  RunInv'
<1> DEFINE said == IF ParseFile THEN pkg.files[at + 1] ELSE pkg.model
<1>1. /\ pc = "parse" /\ pc' \in {"parse", "inherit"} /\ Say(said) /\ at' \in Nat
      /\ UNCHANGED <<pkg, rd, namespace, used, files, status, published>>
  BY DEF ParseFile, BuildModel, RunInv, TypeInv
<1>2. \A d \in said : d.code # "UnusedInlineRSubstitution"
  <2>1. CASE ParseFile
    <3>1. at + 1 \in DOMAIN pkg.files
      BY <2>1, PackageFacts DEF RunInv, TypeInv, ParseFile
    <3> QED
      BY <2>1, <3>1, PackageFacts DEF RunInv
  <2>2. CASE ~ ParseFile
    BY <2>2, PackageFacts DEF RunInv
  <2> QED
    BY <2>1, <2>2
<1> HIDE DEF said
<1>3. TypeInv'
  BY <1>1 DEF RunInv, TypeInv, Early
<1>4. ErrorsInv'
  BY <1>1, SayKeeps DEF RunInv
<1>5. TopicsInv'
  BY <1>1 DEF RunInv, TopicsInv, Early
<1>6. JudgedInv' /\ LossInv' /\ GateInv'
  BY <1>1 DEF RunInv, JudgedInv, LossInv, GateInv, Judged, Judging
<1>7. UsedInv'
  <2>1. \A d \in analysis' : d.code # "UnusedInlineRSubstitution"
    BY <1>1, <1>2 DEF RunInv, UsedInv, Early, Say
  <2> QED
    BY <1>1, <2>1 DEF RunInv, UsedInv, Early, Judging
<1> QED
  BY <1>3, <1>4, <1>5, <1>6, <1>7 DEF RunInv

\* Inheritance starts the Rd build, with what its keys have looked up.
LEMMA InheritKeeps ==
  ASSUME RunInv, Inherit
  PROVE  RunInv'
<1>1. /\ pc = "inherit" /\ pc' = "topics" /\ Say(pkg.inherit) /\ at' = 0
      /\ used' = used \cup (pkg.keyed \cap pkg.user)
      /\ UNCHANGED <<pkg, rd, namespace, files, status, published>>
  BY DEF Inherit, Recorded, Keyed
<1>2. rd = <<>> /\ files = Function0 /\ used = {}
  BY <1>1 DEF RunInv, TopicsInv, UsedInv, Early
<1>3. TypeInv'
  BY <1>1 DEF RunInv, TypeInv, Early
<1>4. ErrorsInv'
  BY <1>1, SayKeeps DEF RunInv
<1>5. TopicsInv'
  <2>1. Len(pkg.topics) \in Nat
    BY PackageFacts DEF RunInv
  <2>2. {c \in Claims' : c <= at'} = {} /\ 1 .. at' = {}
    <3>1. \A c \in Claims' : c \in Nat /\ c >= 1
      BY <1>1, PackageFacts, SamePackage DEF RunInv, Claims
    <3> QED
      BY <1>1, <3>1
  <2>3. rd' = [k \in 1 .. at' |-> Built(k)'.diagnostics]
    BY <1>1, <1>2, <2>2
  <2>4. files' = [k \in {c \in Claims' : c <= at'} |-> Built(k)'.path[1]]
    BY <1>1, <1>2, <2>2 DEF Function0
  <2> QED
    BY <1>1, <2>1, <2>3, <2>4 DEF TopicsInv, Early
<1>6. JudgedInv' /\ LossInv' /\ GateInv'
  BY <1>1 DEF RunInv, JudgedInv, LossInv, GateInv, Judged, Judging
<1>7. UsedInv'
  <2>1. \A d \in analysis' : d.code # "UnusedInlineRSubstitution"
    BY <1>1, PackageFacts DEF RunInv, UsedInv, Early, Say
  <2>2. UNION {Built(k)'.looked : k \in 1 .. at'} = {}
    BY <1>1
  <2>3. used' = pkg'.user \cap (pkg'.keyed \cup UNION {Built(k)'.looked : k \in 1 .. at'})
    BY <1>1, <1>2, <2>2
  <2> QED
    BY <1>1, <2>1, <2>3 DEF UsedInv, Early, Judging
<1> QED
  BY <1>3, <1>4, <1>5, <1>6, <1>7 DEF RunInv

\* What the topics of the package have to say (BuildSays, at each of them).
LEMMA TopicSays ==
  ASSUME TypeInv, NEW k \in Topics
  PROVE  /\ k \in Claims =>
              \E name : Built(k).path = <<name>> /\ OutputPath(pkg.topics[k].key) = <<name>>
         /\ k \notin Claims =>
              \E e \in Errors(Built(k).diagnostics) : e.place \in Places(pkg.topics[k])
         /\ k \in Claims => Built(k).looked = Mentions(pkg.topics[k])
         /\ Built(k).looked \subseteq Mentions(pkg.topics[k])
         /\ \A d \in Built(k).diagnostics : WellSaid(d) /\ d.code # "ConflictingRdFileName"
<1> DEFINE t == pkg.topics[k]
<1>1. /\ t.blocks > 0
      /\ \A c \in ContentsOf(t) : \A d \in c.problems :
           WellSaid(d) /\ d.code # "ConflictingRdFileName"
  BY PackageFacts
<1> HIDE DEF t
<1>2. /\ Build(t, Table).path \in {<<>>, OutputPath(t.key)}
      /\ Build(t, Table).path = <<>> =>
           \E e \in Errors(Build(t, Table).diagnostics) : e.place \in Places(t)
      /\ Build(t, Table).path # <<>> => Build(t, Table).looked = Mentions(t)
      /\ Build(t, Table).looked \subseteq Mentions(t)
      /\ \A d \in Build(t, Table).diagnostics :
           WellSaid(d) /\ d.code # "ConflictingRdFileName"
  BY <1>1, BuildSays
<1>3. OutputPath(t.key) # <<>> => \E name : OutputPath(t.key) = <<name>>
  BY DEF OutputPath
<1>4. Built(k) = Build(t, Table) /\ (k \in Claims <=> Build(t, Table).path # <<>>)
  BY DEF t, Built, Claims
<1> QED
  BY <1>2, <1>3, <1>4 DEF t

\* The next topic is built.
LEMMA BuildKeeps ==
  ASSUME RunInv, BuildTopic
  PROVE  RunInv'
<1> DEFINE n == at + 1
<1>1. /\ pc = "topics" /\ at < Len(pkg.topics)
      /\ rd' = Append(rd, Built(n).diagnostics)
      /\ raised' = raised \cup Errors(Built(n).diagnostics)
      /\ used' = used \cup (Built(n).looked \cap pkg.user)
      /\ files' = IF Built(n).path = <<>> THEN files
                  ELSE [k \in DOMAIN files \cup {n} |->
                          IF k = n THEN Built(n).path[1] ELSE files[k]]
      /\ at' = at + 1
      /\ UNCHANGED <<pc, pkg, analysis, namespace, status, published>>
  BY DEF BuildTopic, Built, Recorded, Claim
<1>2. /\ at \in 0 .. Len(pkg.topics) /\ Len(pkg.topics) \in Nat /\ Topics = 1 .. Len(pkg.topics)
      /\ rd = [k \in 1 .. at |-> Built(k).diagnostics]
      /\ files = [k \in {c \in Claims : c <= at} |-> Built(k).path[1]]
  BY <1>1, PackageFacts DEF RunInv, TopicsInv
<1>3. n \in Nat /\ n >= 1 /\ n \in Topics /\ at' = n /\ n <= Len(pkg.topics)
  BY <1>1, <1>2
<1>4. pkg' = pkg /\ (\A k : Built(k)' = Built(k)) /\ Claims' = Claims
  BY <1>1, SamePackage
<1>5. rd' = [k \in 1 .. n |-> Built(k).diagnostics]
  <2> DEFINE D == {Built(k).diagnostics : k \in 1 .. n}
  <2>1. rd \in Seq(D) /\ Len(rd) = at
    <3>1. rd \in [1 .. at -> D]
      BY <1>2
    <3> HIDE DEF D
    <3> QED
      BY <1>2, <3>1
  <2>2. Built(n).diagnostics \in D
    BY <1>3
  <2>3. \A k \in 1 .. at : rd[k] = Built(k).diagnostics
    BY <1>2
  <2> HIDE DEF D
  <2>4. /\ rd' \in Seq(D) /\ Len(rd') = n /\ rd'[n] = Built(n).diagnostics
        /\ \A k \in 1 .. at : rd'[k] = rd[k]
    BY <1>1, <1>2, <2>1, <2>2
  <2>5. \A k \in 1 .. n : k \in 1 .. at \/ k = n
    BY <1>2
  <2>6. \A k \in 1 .. n : rd'[k] = Built(k).diagnostics
    BY <2>3, <2>4, <2>5
  <2>7. DOMAIN rd' = 1 .. n /\ rd' = [k \in DOMAIN rd' |-> rd'[k]]
    BY <2>4
  <2> QED
    BY <2>6, <2>7
<1>6. files' = [k \in {c \in Claims : c <= n} |-> Built(k).path[1]]
  <2>1. \A c \in Claims : c \in Nat
    BY <1>2 DEF Claims
  <2>2. CASE Built(n).path = <<>>
    <3>1. {c \in Claims : c <= n} = {c \in Claims : c <= at}
      <4>1. n \notin Claims
        BY <2>2 DEF Claims
      <4>2. ASSUME NEW c \in Claims PROVE c <= n <=> c <= at
        BY <4>1, <2>1, <1>2
      <4> QED
        BY <4>2
    <3> QED
      BY <1>1, <1>2, <2>2, <3>1
  <2>3. CASE Built(n).path # <<>>
    <3>1. n \in Claims
      BY <2>3, <1>3 DEF Claims
    <3>2. {c \in Claims : c <= n} = {c \in Claims : c <= at} \cup {n}
      <4>1. ASSUME NEW c \in Claims PROVE c <= n <=> c <= at \/ c = n
        BY <2>1, <1>2
      <4> QED
        BY <3>1, <4>1
    <3>3. DOMAIN files = {c \in Claims : c <= at} /\ \A k \in DOMAIN files : files[k] = Built(k).path[1]
      BY <1>2
    <3> QED
      BY <1>1, <2>3, <3>2, <3>3
  <2> QED
    BY <2>2, <2>3
<1>7. TypeInv'
  BY <1>1, <1>3 DEF RunInv, TypeInv
<1>8. ErrorsInv'
  <2>1. RdSaid = UNION {Built(k).diagnostics : k \in 1 .. at}
    BY <1>2 DEF RdSaid
  <2>2. RdSaid' = UNION {Built(k).diagnostics : k \in 1 .. n}
    BY <1>5 DEF RdSaid
  <2>3. 1 .. n = (1 .. at) \cup {n}
    BY <1>2
  <2>4. RdSaid' = RdSaid \cup Built(n).diagnostics
    BY <2>1, <2>2, <2>3
  <2>5. Shown' = Shown \cup Built(n).diagnostics
    BY <1>1, <2>4 DEF Shown
  <2> QED
    BY <1>1, <2>5 DEF RunInv, ErrorsInv, Errors
<1>9. TopicsInv'
  <2>1. at' \in 0 .. Len(pkg'.topics)
    BY <1>1, <1>2
  <2>2. rd' = [k \in 1 .. at' |-> Built(k)'.diagnostics]
    BY <1>5, <1>3, <1>4
  <2>3. files' = [k \in {c \in Claims' : c <= at'} |-> Built(k)'.path[1]]
    BY <1>6, <1>3, <1>4
  <2> QED
    BY <1>1, <2>1, <2>2, <2>3 DEF TopicsInv, Early
<1>10. JudgedInv' /\ LossInv' /\ GateInv'
  BY <1>1 DEF RunInv, JudgedInv, LossInv, GateInv, Judged, Judging
<1>11. UsedInv'
  <2>1. UNION {Built(k).looked : k \in 1 .. n} = (UNION {Built(k).looked : k \in 1 .. at}) \cup Built(n).looked
    <3>1. 1 .. n = (1 .. at) \cup {n}
      BY <1>2
    <3> QED
      BY <3>1
  <2>2. used = pkg.user \cap (pkg.keyed \cup UNION {Built(k).looked : k \in 1 .. at})
    BY <1>1 DEF RunInv, UsedInv
  <2>3. used' = pkg.user \cap (pkg.keyed \cup UNION {Built(k).looked : k \in 1 .. n})
    BY <1>1, <2>1, <2>2
  <2>4. used' = pkg'.user \cap (pkg'.keyed \cup UNION {Built(k)'.looked : k \in 1 .. at'})
    BY <2>3, <1>3, <1>4
  <2>5. \A d \in analysis' : d.code # "UnusedInlineRSubstitution"
    BY <1>1 DEF RunInv, UsedInv
  <2> QED
    BY <1>1, <2>4, <2>5 DEF UsedInv, Early, Judging
<1> QED
  BY <1>7, <1>8, <1>9, <1>10, <1>11 DEF RunInv
\* Once all topics are built, the late ones are those that come after another
\* with their path, and all that share one collide.
LEMMA LateOnes ==
  ASSUME TypeInv, files = [k \in Claims |-> Built(k).path[1]]
  PROVE  /\ Late = {c \in Claims : \E j \in Rivals(c) : j < c}
         /\ DOMAIN files \ Colliding = {c \in Claims : Rivals(c) = {c}}
<1>1. DOMAIN files = Claims /\ \A k \in Claims : files[k] = Built(k).path[1]
  OBVIOUS
<1>2. \A k \in Claims : k \in Topics /\ k \in Nat
  BY PackageFacts DEF Claims
<1>3. \A k, j \in Claims : files[k] = files[j] <=> Built(k).path = Built(j).path
  <2> SUFFICES ASSUME NEW k \in Claims, NEW j \in Claims
               PROVE  files[k] = files[j] <=> Built(k).path = Built(j).path
    OBVIOUS
  <2>1. PICK name : Built(k).path = <<name>>
    BY <1>2, TopicSays
  <2>2. PICK other : Built(j).path = <<other>>
    BY <1>2, TopicSays
  <2> QED
    BY <1>1, <2>1, <2>2
<1>4. \A c \in Claims : Rivals(c) = {j \in Claims : files[j] = files[c]} /\ c \in Rivals(c)
  BY <1>3 DEF Rivals
<1>5. \A c \in Claims : FirstWith(files[c]) \in Rivals(c) /\ \A j \in Rivals(c) : FirstWith(files[c]) <= j
  <2> SUFFICES ASSUME NEW c \in Claims
               PROVE  FirstWith(files[c]) \in Rivals(c) /\ \A j \in Rivals(c) : FirstWith(files[c]) <= j
    OBVIOUS
  <2>1. Rivals(c) \in SUBSET Nat /\ Rivals(c) # {}
    BY <1>2, <1>4
  <2>2. PICK m \in Rivals(c) : \A j \in Rivals(c) : m <= j
    BY <2>1, LeastExists
  <2>3. m \in DOMAIN files /\ files[m] = files[c] /\ \A j \in DOMAIN files : files[j] = files[c] => m <= j
    BY <1>1, <1>4, <2>2
  <2> DEFINE f == FirstWith(files[c])
  <2>4. f \in DOMAIN files /\ files[f] = files[c] /\ \A j \in DOMAIN files : files[j] = files[c] => f <= j
    BY <2>3 DEF FirstWith
  <2> HIDE DEF f
  <2> QED
    BY <1>1, <1>4, <2>4 DEF f
<1>6. \A c \in Claims : FirstWith(files[c]) # c <=> \E j \in Rivals(c) : j < c
  <2> SUFFICES ASSUME NEW c \in Claims
               PROVE  FirstWith(files[c]) # c <=> \E j \in Rivals(c) : j < c
    OBVIOUS
  <2> DEFINE f == FirstWith(files[c])
  <2>1. f \in Rivals(c) /\ f \in Nat /\ c \in Nat /\ \A j \in Rivals(c) : f <= j /\ j \in Nat
    BY <1>2, <1>4, <1>5, ZenonT(30)
  <2> HIDE DEF f
  <2>2. f <= c
    BY <1>4, <2>1
  <2>3. f # c <=> \E j \in Rivals(c) : j < c
    BY <2>1, <2>2
  <2> QED
    BY <2>3 DEF f
<1>7. Late = {c \in Claims : \E j \in Rivals(c) : j < c}
  BY <1>1, <1>6 DEF Late
<1>8. \A c \in Claims : c \in Colliding <=> Rivals(c) # {c}
  <2> SUFFICES ASSUME NEW c \in Claims
               PROVE  c \in Colliding <=> Rivals(c) # {c}
    OBVIOUS
  <2>1. ASSUME c \in Late PROVE Rivals(c) # {c}
    BY <2>1, <1>2, <1>4, <1>7
  <2>2. ASSUME NEW l \in Late, c = FirstWith(files[l]) PROVE Rivals(c) # {c}
    <3>1. l \in Claims /\ c \in Rivals(l) /\ c # l
      BY <2>2, <1>1, <1>5 DEF Late
    <3>2. l \in Rivals(c)
      BY <3>1, <1>4, ZenonT(30)
    <3> QED
      BY <3>1, <3>2, SMTT(30)
  <2>3. ASSUME Rivals(c) # {c}, c \notin Late PROVE c \in Colliding
    <3>1. PICK j \in Rivals(c) : j # c
      BY <2>3, <1>4
    <3>2. j \in Claims /\ files[j] = files[c]
      BY <3>1, <1>4
    <3>3. FirstWith(files[c]) = c
      BY <2>3, <1>1 DEF Late
    <3>4. j \in Late /\ c = FirstWith(files[j])
      BY <3>1, <3>2, <3>3, <1>1 DEF Late
    <3> QED
      BY <3>4 DEF Colliding
  <2> QED
    BY <2>1, <2>2, <2>3 DEF Colliding
<1> QED
  BY <1>1, <1>7, <1>8

\* All claims are judged.
LEMMA JudgeKeeps ==
  ASSUME RunInv, JudgeNames
  PROVE  RunInv'
<1> DEFINE said(k) == SaidIf(k \in Late, Collision(k))
<1>1. /\ pc = "topics" /\ at = Len(pkg.topics) /\ pc' = "dedup"
      /\ rd' = [k \in DOMAIN rd |-> rd[k] \cup said(k)]
      /\ raised' = raised \cup UNION {said(k) : k \in DOMAIN rd}
      /\ files' = [k \in DOMAIN files \ Colliding |-> files[k]]
      /\ UNCHANGED <<pkg, at, analysis, namespace, used, status, published>>
  BY DEF JudgeNames, Collision
<1>2. TypeInv /\ Len(pkg.topics) \in Nat /\ Topics = 1 .. Len(pkg.topics)
  BY PackageFacts DEF RunInv
<1>3. /\ rd = [k \in Topics |-> Built(k).diagnostics]
      /\ files = [k \in Claims |-> Built(k).path[1]]
  <2>1. /\ rd = [k \in 1 .. at |-> Built(k).diagnostics]
        /\ files = [k \in {c \in Claims : c <= at} |-> Built(k).path[1]]
    BY <1>1 DEF RunInv, TopicsInv
  <2>2. {c \in Claims : c <= at} = Claims
    BY <1>1, <1>2 DEF Claims
  <2> QED
    BY <2>1, <2>2, <1>1, <1>2
<1>4. /\ Late = {c \in Claims : \E j \in Rivals(c) : j < c}
      /\ DOMAIN files \ Colliding = {c \in Claims : Rivals(c) = {c}}
  BY <1>2, <1>3, LateOnes
<1>5. /\ pkg' = pkg /\ Topics' = Topics /\ (\A k : Built(k)' = Built(k)) /\ Claims' = Claims
      /\ (\A k : Rivals(k)' = Rivals(k)) /\ (\A k : Collision(k)' = Collision(k))
  BY <1>1, SamePackage
<1>6. Late \subseteq Topics
  BY <1>4 DEF Claims
<1>7. \A k : /\ said(k) = IF k \in Late THEN {Collision(k)} ELSE {}
             /\ WellSaid(Collision(k)) /\ Collision(k).code = "ConflictingRdFileName"
             /\ Collision(k).severity = "Error" /\ Collision(k).place = pkg.topics[k].key
  BY DEF SaidIf, Collision, Diagnostic, WellSaid, InlineCodes
<1> HIDE DEF said
<1>8. RdSaid' = RdSaid \cup {Collision(k) : k \in Late}
  <2>1. RdSaid = UNION {rd[k] : k \in Topics}
    BY <1>3 DEF RdSaid
  <2>2. RdSaid' = UNION {rd[k] \cup said(k) : k \in Topics}
    BY <1>1, <1>3 DEF RdSaid
  <2> QED
    BY <2>1, <2>2, <1>6, <1>7
<1>9. raised' = raised \cup {Collision(k) : k \in Late}
  BY <1>1, <1>3, <1>6, <1>7
<1>10. TypeInv'
  BY <1>1, <1>2 DEF TypeInv, Judging
<1>11. ErrorsInv'
  <2>1. Shown' = Shown \cup {Collision(k) : k \in Late}
    BY <1>1, <1>8 DEF Shown
  <2> QED
    BY <2>1, <1>7, <1>9 DEF RunInv, ErrorsInv, Errors
<1>12. TopicsInv'
  BY <1>1 DEF TopicsInv, Early
<1>13. JudgedInv'
  <2>1. DOMAIN rd' = Topics'
    BY <1>1, <1>3, <1>5
  <2>2. files' = [k \in {c \in Claims : Rivals(c) = {c}} |-> Built(k).path[1]]
    <3>1. \A k \in {c \in Claims : Rivals(c) = {c}} : files[k] = Built(k).path[1]
      BY <1>3
    <3> QED
      BY <1>1, <1>4, <3>1
  <2>3. files' = [k \in {c \in Claims' : Rivals(c)' = {c}} |-> Built(k)'.path[1]]
    BY <2>2, <1>5
  <2>4. \A k \in Topics : \A d \in rd[k] : WellSaid(d) /\ d.code # "ConflictingRdFileName"
    BY <1>2, <1>3, TopicSays
  <2>5. \A k \in Topics' : \A d \in rd'[k] : WellSaid(d)
    BY <2>4, <1>1, <1>3, <1>5, <1>7
  <2>6. \A d \in RdSaid : d.code # "ConflictingRdFileName"
    BY <2>4, <1>3 DEF RdSaid
  <2>7. {d \in RdSaid' : d.code = "ConflictingRdFileName"} = {Collision(k) : k \in Late}
    BY <2>6, <1>7, <1>8
  <2>8. {d \in RdSaid' : d.code = "ConflictingRdFileName"} =
          {Collision(k)' : k \in {c \in Claims' : \E j \in Rivals(c)' : j < c}}
    BY <2>7, <1>4, <1>5
  <2> QED
    BY <2>1, <2>3, <2>5, <2>8 DEF JudgedInv
<1>14. LossInv'
  <2>1. ASSUME NEW k \in Topics, k \notin DOMAIN files'
        PROVE  \/ \E e \in raised' : e.place \in Places(pkg.topics[k])
               \/ \E j \in Topics \ {k} : /\ OutputPath(pkg.topics[j].key) = OutputPath(pkg.topics[k].key)
                                      /\ \E e \in raised' : e.place = pkg.topics[j].key
    <3>1. CASE k \notin Claims
      <4>1. PICK e \in Errors(Built(k).diagnostics) : e.place \in Places(pkg.topics[k])
        BY <3>1, <1>2, TopicSays
      <4>2. e \in RdSaid /\ e.severity = "Error"
        BY <4>1, <1>3 DEF RdSaid, Errors
      <4>3. e \in raised
        BY <4>2 DEF RunInv, ErrorsInv, Errors, Shown
      <4> QED
        BY <4>1, <4>3, <1>9
    <3>2. CASE k \in Late
      <4>1. Collision(k).place \in Places(pkg.topics[k])
        BY <1>7 DEF Places
      <4> QED
        BY <3>2, <4>1, <1>9
    <3>3. CASE k \in Claims /\ k \notin Late
      <4>1. k \in Rivals(k) /\ Rivals(k) # {k}
        BY <2>1, <3>3, <1>1, <1>3, <1>4 DEF Rivals
      <4>2. PICK l \in Rivals(k) : l # k
        BY <4>1
      <4>3. l \in Claims /\ Built(k).path = Built(l).path /\ k \in Rivals(l)
        BY <4>2, <3>3 DEF Rivals
      <4>4. k < l
        BY <4>2, <4>3, <3>3, <1>2, <1>4 DEF Claims
      <4>5. l \in Late
        BY <4>3, <4>4, <1>4
      <4>6. OutputPath(pkg.topics[l].key) = OutputPath(pkg.topics[k].key)
        <5>1. l \in Topics
          BY <4>3 DEF Claims
        <5>2. PICK name : Built(k).path = <<name>> /\ OutputPath(pkg.topics[k].key) = <<name>>
          BY <3>3, <1>2, TopicSays
        <5>3. PICK other : Built(l).path = <<other>> /\ OutputPath(pkg.topics[l].key) = <<other>>
          BY <4>3, <5>1, <1>2, TopicSays
        <5> QED
          BY <4>3, <5>2, <5>3
      <4> QED
        BY <4>2, <4>5, <4>6, <1>6, <1>7, <1>9
    <3> QED
      BY <3>1, <3>2, <3>3
  <2> QED
    BY <2>1, <1>5 DEF LossInv
<1>15. UsedInv'
  <2>1. used = pkg.user \cap (pkg.keyed \cup UNION {Built(k).looked : k \in Topics})
    BY <1>1, <1>2 DEF RunInv, UsedInv
  <2>2. used' = pkg'.user \cap (pkg'.keyed \cup UNION {Built(k)'.looked : k \in Topics'})
    BY <2>1, <1>1, <1>5
  <2>3. \A d \in analysis' : d.code # "UnusedInlineRSubstitution"
    BY <1>1 DEF RunInv, UsedInv
  <2> QED
    BY <1>1, <2>2, <2>3 DEF UsedInv, Early, Judging
<1>16. GateInv'
  BY <1>1 DEF RunInv, GateInv
<1> QED
  BY <1>10, <1>11, <1>12, <1>13, <1>14, <1>15, <1>16 DEF RunInv
\* Of what is said twice the first stays: nothing is lost by leaving out the rest.
LEMMA FirstStays ==
  ASSUME TypeInv, DOMAIN rd = Topics, \A k \in Topics : \A d \in rd[k] : WellSaid(d),
         NEW e \in RdSaid, e.severity = "Error" \/ e.code \notin InlineCodes
  PROVE  \E k \in Topics : e \in rd[k] /\ ~ Repeated(k, e)
<1>1. PICK l \in Topics : e \in rd[l]
  BY DEF RdSaid
<1>2. CASE e.code \notin InlineCodes
  BY <1>1, <1>2 DEF Repeated
<1>3. CASE e.code \in InlineCodes
  <2> DEFINE K == {k \in Topics : \E d \in rd[k] : d.code = e.code /\ d.place = e.place}
  <2>1. K \in SUBSET Nat /\ K # {}
    BY <1>1, PackageFacts
  <2>2. PICK m \in K : \A j \in K : m <= j
    BY <2>1, LeastExists
  <2>3. PICK d \in rd[m] : d.code = e.code /\ d.place = e.place
    BY <2>2
  <2>4. d = e
    <3>1. WellSaid(d) /\ WellSaid(e)
      BY <1>1, <2>2
    <3> QED
      BY <3>1, <2>3, <1>3 DEF WellSaid
  <2>5. ~ Repeated(m, e)
    <3>1. ASSUME NEW j \in 1 .. m - 1, NEW f \in rd[j], f.code = e.code, f.place = e.place
          PROVE  FALSE
      <4>1. m \in 1 .. Len(pkg.topics) /\ Len(pkg.topics) \in Nat /\ Topics = 1 .. Len(pkg.topics)
        BY <2>2, PackageFacts
      <4>2. j \in Topics /\ j < m
        BY <4>1
      <4>3. j \in K
        BY <3>1, <4>2
      <4> QED
        BY <2>2, <4>1, <4>2, <4>3
    <3> QED
      BY <3>1 DEF Repeated
  <2> QED
    BY <2>2, <2>3, <2>4, <2>5
<1> QED
  BY <1>2, <1>3

\* Equal diagnostics of inline R are left out.
LEMMA DeduplicateKeeps ==
  ASSUME RunInv, Deduplicate
  PROVE  RunInv'
<1>1. /\ pc = "dedup" /\ pc' = "unused"
      /\ rd' = [k \in DOMAIN rd |-> {d \in rd[k] : ~ Repeated(k, d)}]
      /\ UNCHANGED <<pkg, at, analysis, namespace, used, files, status, published, raised>>
  BY DEF Deduplicate
<1>2. TypeInv /\ JudgedInv
  BY DEF RunInv
<1>3. /\ pkg' = pkg /\ Topics' = Topics /\ (\A k : Built(k)' = Built(k)) /\ Claims' = Claims
      /\ (\A k : Rivals(k)' = Rivals(k)) /\ (\A k : Collision(k)' = Collision(k))
  BY <1>1, SamePackage
<1>4. /\ DOMAIN rd = Topics
      /\ files = [k \in {c \in Claims : Rivals(c) = {c}} |-> Built(k).path[1]]
      /\ \A k \in Topics : \A d \in rd[k] : WellSaid(d)
      /\ {d \in RdSaid : d.code = "ConflictingRdFileName"} =
           {Collision(k) : k \in {c \in Claims : \E j \in Rivals(c) : j < c}}
  BY <1>1, <1>2 DEF JudgedInv, Judged, Judging
<1>5. RdSaid' \subseteq RdSaid
  BY <1>1 DEF RdSaid
<1>6. \A e \in RdSaid : e.severity = "Error" \/ e.code \notin InlineCodes => e \in RdSaid'
  <2> SUFFICES ASSUME NEW e \in RdSaid, e.severity = "Error" \/ e.code \notin InlineCodes
               PROVE  e \in RdSaid'
    OBVIOUS
  <2>1. PICK k \in Topics : e \in rd[k] /\ ~ Repeated(k, e)
    BY <1>2, <1>4, FirstStays
  <2>2. k \in DOMAIN rd' /\ e \in rd'[k]
    BY <1>1, <1>4, <2>1
  <2> QED
    BY <2>2 DEF RdSaid
<1>7. TypeInv'
  BY <1>1, <1>2 DEF TypeInv, Judging
<1>8. ErrorsInv'
  <2>1. Errors(Shown)' = Errors(Shown)
    BY <1>1, <1>5, <1>6 DEF Errors, Shown
  <2> QED
    BY <2>1, <1>1 DEF RunInv, ErrorsInv
<1>9. TopicsInv'
  BY <1>1 DEF TopicsInv, Early
<1>10. JudgedInv'
  <2>1. DOMAIN rd' = Topics' /\ \A k \in Topics' : \A d \in rd'[k] : WellSaid(d)
    BY <1>1, <1>3, <1>4
  <2>2. files' = [k \in {c \in Claims' : Rivals(c)' = {c}} |-> Built(k)'.path[1]]
    BY <1>1, <1>3, <1>4
  <2>3. {d \in RdSaid' : d.code = "ConflictingRdFileName"} = {d \in RdSaid : d.code = "ConflictingRdFileName"}
    BY <1>5, <1>6 DEF InlineCodes
  <2>4. {d \in RdSaid' : d.code = "ConflictingRdFileName"} =
          {Collision(k)' : k \in {c \in Claims' : \E j \in Rivals(c)' : j < c}}
    BY <2>3, <1>3, <1>4
  <2> QED
    BY <2>1, <2>2, <2>4 DEF JudgedInv
<1>11. LossInv'
  BY <1>1, <1>3 DEF RunInv, LossInv, Judged, Judging
<1>12. UsedInv'
  <2>1. used' = pkg'.user \cap (pkg'.keyed \cup UNION {Built(k)'.looked : k \in Topics'})
    BY <1>1, <1>3 DEF RunInv, UsedInv, Judging
  <2>2. \A d \in analysis' : d.code # "UnusedInlineRSubstitution"
    BY <1>1 DEF RunInv, UsedInv
  <2> QED
    BY <1>1, <2>1, <2>2 DEF UsedInv, Early, Judging
<1>13. GateInv'
  BY <1>1 DEF RunInv, GateInv
<1> QED
  BY <1>7, <1>8, <1>9, <1>10, <1>11, <1>12, <1>13 DEF RunInv

\* What the end of the Rd build has made stays.
LEMMA JudgedKeeps ==
  ASSUME TypeInv, JudgedInv, LossInv, Judged, UNCHANGED <<pkg, rd, files>>, raised \subseteq raised'
  PROVE  JudgedInv' /\ LossInv'
<1>1. /\ Topics' = Topics /\ (\A k : Built(k)' = Built(k)) /\ Claims' = Claims
      /\ (\A k : Rivals(k)' = Rivals(k)) /\ (\A k : Collision(k)' = Collision(k)) /\ RdSaid' = RdSaid
  BY SamePackage DEF RdSaid
<1>2. /\ DOMAIN rd' = Topics' /\ \A k \in Topics' : \A d \in rd'[k] : WellSaid(d)
  BY <1>1 DEF JudgedInv
<1>3. files' = [k \in {c \in Claims' : Rivals(c)' = {c}} |-> Built(k)'.path[1]]
  BY <1>1 DEF JudgedInv
<1>4. {d \in RdSaid' : d.code = "ConflictingRdFileName"} =
        {Collision(k)' : k \in {c \in Claims' : \E j \in Rivals(c)' : j < c}}
  BY <1>1 DEF JudgedInv
<1>5. JudgedInv'
  BY <1>2, <1>3, <1>4 DEF JudgedInv
<1>6. LossInv'
  BY <1>1 DEF LossInv
<1> QED
  BY <1>5, <1>6

\* The unused substitutions are reported.
LEMMA UnusedKeeps ==
  ASSUME RunInv, ReportUnused
  PROVE  RunInv'
<1> DEFINE said == {Diagnostic("Warning", "UnusedInlineRSubstitution", <<e>>) : e \in pkg.user \ used}
<1>1. /\ pc = "unused" /\ pc' = "namespace" /\ Say(said)
      /\ UNCHANGED <<pkg, at, rd, namespace, used, files, status, published>>
  BY DEF ReportUnused
<1>2. \A d \in said : d.code = "UnusedInlineRSubstitution"
  BY DEF Diagnostic
<1>3. TypeInv'
  BY <1>1 DEF RunInv, TypeInv, Judging
<1>4. UsedInv'
  <2>1. Topics' = Topics /\ (\A k : Built(k)' = Built(k))
    BY <1>1, SamePackage
  <2>2. used' = pkg'.user \cap (pkg'.keyed \cup UNION {Built(k)'.looked : k \in Topics'})
    BY <1>1, <2>1 DEF RunInv, UsedInv, Judging
  <2>3. analysis' = analysis \cup said /\ \A d \in analysis : d.code # "UnusedInlineRSubstitution"
    BY <1>1 DEF RunInv, UsedInv, Say
  <2>4. {d \in analysis' : d.code = "UnusedInlineRSubstitution"} = said
    BY <1>2, <2>3
  <2>5. said = {Diagnostic("Warning", "UnusedInlineRSubstitution", <<e>>) : e \in pkg'.user \ used'}
    BY <1>1
  <2> HIDE DEF said
  <2> QED
    BY <1>1, <2>2, <2>4, <2>5 DEF UsedInv, Early, Judging
<1> HIDE DEF said
<1>5. ErrorsInv'
  BY <1>1, SayKeeps DEF RunInv
<1>6. TopicsInv'
  BY <1>1 DEF TopicsInv, Early
<1>7. JudgedInv' /\ LossInv'
  BY <1>1, JudgedKeeps DEF RunInv, Say, Judged, Judging
<1>8. GateInv'
  BY <1>1 DEF RunInv, GateInv
<1> QED
  BY <1>3, <1>4, <1>5, <1>6, <1>7, <1>8 DEF RunInv

\* NAMESPACE is built.
LEMMA NamespaceKeeps ==
  ASSUME RunInv, BuildNamespace
  PROVE  RunInv'
<1>1. /\ pc = "namespace" /\ pc' = "gate" /\ namespace' = pkg.namespace
      /\ raised' = raised \cup Errors(pkg.namespace)
      /\ UNCHANGED <<pkg, at, analysis, rd, used, files, status, published>>
  BY DEF BuildNamespace
<1>2. TypeInv'
  BY <1>1 DEF RunInv, TypeInv, Judging
<1>3. ErrorsInv'
  <2>1. namespace = {}
    BY <1>1 DEF RunInv, GateInv
  <2> QED
    BY <1>1, <2>1 DEF RunInv, ErrorsInv, Errors, Shown, RdSaid
<1>4. TopicsInv'
  BY <1>1 DEF TopicsInv, Early
<1>5. JudgedInv' /\ LossInv'
  BY <1>1, JudgedKeeps DEF RunInv, Judged, Judging
<1>6. UsedInv'
  <2>1. Topics' = Topics /\ (\A k : Built(k)' = Built(k))
    BY <1>1, SamePackage
  <2> QED
    BY <1>1, <2>1 DEF RunInv, UsedInv, Early, Judging
<1>7. GateInv'
  BY <1>1 DEF RunInv, GateInv
<1> QED
  BY <1>2, <1>3, <1>4, <1>5, <1>6, <1>7 DEF RunInv
\* The gate, and what follows it.
LEMMA GateKeeps ==
  ASSUME RunInv, Gate \/ Done \/ UNCHANGED vars
  PROVE  RunInv'
<1>1. CASE UNCHANGED vars
  <2>1. Ran' = Ran /\ HasErrorsAnywhere' = HasErrorsAnywhere /\ Shown' = Shown
        /\ pkg' = pkg /\ Topics' = Topics /\ (\A k : Built(k)' = Built(k)) /\ Claims' = Claims
    BY <1>1, SamePackage DEF vars, HasErrorsAnywhere, Shown, RdSaid
  <2>2. TypeInv' /\ ErrorsInv' /\ GateInv'
    BY <1>1, <2>1 DEF vars, RunInv, TypeInv, ErrorsInv, GateInv
  <2>3. TopicsInv'
    BY <1>1, <2>1 DEF vars, RunInv, TopicsInv
  <2>4. JudgedInv' /\ LossInv'
    <3>1. CASE Judged
      BY <1>1, <3>1, JudgedKeeps DEF vars, RunInv
    <3>2. CASE ~ Judged
      BY <1>1, <2>1, <3>2 DEF vars, JudgedInv, LossInv, Judged
    <3> QED
      BY <3>1, <3>2
  <2>5. UsedInv'
    BY <1>1, <2>1 DEF vars, RunInv, UsedInv
  <2> QED
    BY <2>2, <2>3, <2>4, <2>5 DEF RunInv
<1>2. CASE Gate
  <2>1. /\ pc = "gate" /\ pc' = "done"
        /\ \/ HasErrorsAnywhere /\ status' = "Diagnostics" /\ published' = published
           \/ ~ HasErrorsAnywhere /\ status' \in {"Operational", "Success"}
        /\ UNCHANGED <<pkg, at, analysis, rd, namespace, used, files, raised>>
    BY <1>2 DEF Gate, Stop
  <2>2. published = {}
    BY <2>1 DEF RunInv, GateInv
  <2>3. HasErrorsAnywhere' = HasErrorsAnywhere
    BY <2>1 DEF HasErrorsAnywhere, RdSaid
  <2>4. TypeInv' /\ ErrorsInv'
    BY <2>1 DEF RunInv, TypeInv, ErrorsInv, Shown, RdSaid
  <2>5. TopicsInv'
    BY <2>1 DEF TopicsInv, Early
  <2>6. JudgedInv' /\ LossInv'
    BY <2>1, JudgedKeeps DEF RunInv, Judged, Judging
  <2>7. UsedInv'
    BY <2>1 DEF UsedInv, Early, Judging
  <2>8. GateInv'
    BY <2>1, <2>2, <2>3 DEF GateInv
  <2> QED
    BY <2>4, <2>5, <2>6, <2>7, <2>8 DEF RunInv
<1> QED
  BY <1>1, <1>2 DEF Done

LEMMA RunKeeps ==
  ASSUME RunInv, [Next]_vars
  PROVE  RunInv'
  BY LoadKeeps, AnalysisKeeps, InheritKeeps, BuildKeeps, JudgeKeeps, DeduplicateKeeps,
     UnusedKeeps, NamespaceKeeps, GateKeeps DEF Next

-----------------------------------------------------------------------------
(* What it gives *)

\* The invariant of a run holds of every package.
THEOREM RunInvariant == Spec => []RunInv
<1>1. Init => RunInv
  BY RunStarts
<1>2. RunInv /\ [Next]_vars => RunInv'
  BY RunKeeps
<1> QED
  BY <1>1, <1>2, PTL DEF Spec

LEMMA GateShuts ==
  ASSUME RunInv
  PROVE  ErrorsShutTheGate
<1> SUFFICES ASSUME pc = "done", Ran
             PROVE  /\ raised \subseteq Errors(Shown)
                    /\ raised # {} <=> status = "Diagnostics"
                    /\ published # {} => raised = {}
  BY DEF ErrorsShutTheGate
<1>1. raised = Errors(Shown)
  BY DEF RunInv, ErrorsInv
<1>2. HasErrorsAnywhere <=> raised # {}
  BY <1>1 DEF HasErrorsAnywhere, HasErrors, Errors, Shown
<1> QED
  BY <1>1, <1>2 DEF RunInv, GateInv

LEMMA NothingVanishes ==
  ASSUME RunInv
  PROVE  NoTopicVanishes
<1>1. TypeInv /\ JudgedInv /\ LossInv /\ raised = Errors(Shown)
  BY DEF RunInv, ErrorsInv
<1>2. ASSUME pc \in Judging
      PROVE  LET paths == PathsAlone
                 built == {k \in Topics : paths[k] # <<>>}
                 rivals(k) == {j \in built : paths[j] = paths[k]}
                 blamed == {d.place : d \in {e \in RdSaid : e.code = "ConflictingRdFileName"}}
             IN /\ DOMAIN files = {k \in built : rivals(k) = {k}}
                /\ blamed = {pkg.topics[k].key : k \in {j \in built : \E i \in rivals(j) : i < j}}
  <2> DEFINE built == {k \in Topics : PathsAlone[k] # <<>>}
             rivals(k) == {j \in built : PathsAlone[j] = PathsAlone[k]}
             blamed == {d.place : d \in {e \in RdSaid : e.code = "ConflictingRdFileName"}}
  <2>1. \A k \in Topics : PathsAlone[k] = Built(k).path
    BY DEF PathsAlone, Built
  <2>2. built = Claims
    BY <2>1 DEF Claims
  <2>3. \A k \in Claims : rivals(k) = Rivals(k)
    BY <2>1, <2>2 DEF Rivals, Claims
  <2>4. /\ files = [k \in {c \in Claims : Rivals(c) = {c}} |-> Built(k).path[1]]
        /\ {d \in RdSaid : d.code = "ConflictingRdFileName"} =
             {Collision(k) : k \in {c \in Claims : \E j \in Rivals(c) : j < c}}
    BY <1>1, <1>2 DEF JudgedInv, Judged
  <2>5. \A k : Collision(k).place = pkg.topics[k].key
    BY DEF Collision, Diagnostic
  <2> HIDE DEF built, rivals
  <2>6. DOMAIN files = {k \in built : rivals(k) = {k}}
    BY <2>2, <2>3, <2>4
  <2>7. {c \in Claims : \E j \in Rivals(c) : j < c} = {j \in built : \E i \in rivals(j) : i < j}
    BY <2>2, <2>3
  <2>8. blamed = {pkg.topics[k].key : k \in {j \in built : \E i \in rivals(j) : i < j}}
    BY <2>4, <2>5, <2>7
  <2> QED
    BY <2>6, <2>8 DEF built, rivals
<1>3. CollidersAreLeftOut
  BY <1>2 DEF CollidersAreLeftOut, Judging
<1>4. LossesAreReported
  BY <1>1 DEF LossesAreReported, LossInv, Judged
<1> QED
  BY <1>3, <1>4 DEF NoTopicVanishes

LEMMA UnusedSaid ==
  ASSUME RunInv
  PROVE  UnusedIsUnused
<1> SUFFICES ASSUME pc \in {"namespace", "gate"}, NEW e \in pkg.user
             PROVE  IF e \in ReportedUnused
                    THEN e \notin pkg.keyed /\ \A k \in DOMAIN files : e \notin Mentions(pkg.topics[k])
                    ELSE e \in pkg.keyed \/ \E k \in Topics : e \in Mentions(pkg.topics[k])
  BY DEF UnusedIsUnused
<1>1. /\ used = pkg.user \cap (pkg.keyed \cup UNION {Built(k).looked : k \in Topics})
      /\ {d \in analysis : d.code = "UnusedInlineRSubstitution"} =
           {Diagnostic("Warning", "UnusedInlineRSubstitution", <<u>>) : u \in pkg.user \ used}
  BY DEF RunInv, UsedInv, Judging
<1>2. ReportedUnused = pkg.user \ used
  <2> DEFINE told(u) == Diagnostic("Warning", "UnusedInlineRSubstitution", <<u>>)
             S == {d \in analysis : d.code = "UnusedInlineRSubstitution"}
  <2>1. \A u : told(u).place[1] = u
    BY DEF Diagnostic
  <2>2. S = {told(u) : u \in pkg.user \ used}
    BY <1>1
  <2>3. ReportedUnused = {d.place[1] : d \in S}
    BY DEF ReportedUnused
  <2> HIDE DEF told, S
  <2> QED
    BY <2>1, <2>2, <2>3
<1>3. DOMAIN files \subseteq Claims /\ Claims \subseteq Topics
  BY DEF RunInv, JudgedInv, Judged, Judging, Claims
<1>4. CASE e \notin used
  <2>1. e \notin pkg.keyed /\ \A k \in Topics : e \notin Built(k).looked
    BY <1>1, <1>4
  <2>2. ASSUME NEW k \in DOMAIN files PROVE e \notin Mentions(pkg.topics[k])
    BY <1>3, <2>1, <2>2, TopicSays DEF RunInv
  <2> QED
    BY <1>2, <1>4, <2>1, <2>2
<1>5. CASE e \in used
  <2>1. e \in pkg.keyed \/ \E k \in Topics : e \in Built(k).looked
    BY <1>1, <1>5
  <2>2. \A k \in Topics : Built(k).looked \subseteq Mentions(pkg.topics[k])
    BY TopicSays DEF RunInv
  <2> QED
    BY <1>2, <1>5, <2>1, <2>2
<1> QED
  BY <1>4, <1>5

-----------------------------------------------------------------------------
(* Lists of nodes the writer takes *)

\* The writer refuses the two as neighbours.
Clash(left, right) == left.kind \in LeafKinds /\ left.kind = right.kind /\ ~ left.ends
Fine == {nodes \in Seq(Node) : Representable(nodes)}
FineNode == {node \in Node : node.ok}
\* Whatever follows is taken.
Closed(node) == node.kind = "Tagged" \/ node.ends
Finished == {nodes \in Fine : nodes = <<>> \/ Closed(nodes[Len(nodes)])}

\* What makes a list fine.
LEMMA FineIs ==
  \A nodes : nodes \in Fine <=>
    /\ nodes \in Seq(Node)
    /\ \A i \in 1 .. Len(nodes) : nodes[i].ok
    /\ \A i \in 1 .. Len(nodes) - 1 : ~ Clash(nodes[i], nodes[i + 1])
<1> SUFFICES ASSUME NEW nodes, nodes \in Seq(Node)
             PROVE  Representable(nodes) <=>
                      /\ \A i \in 1 .. Len(nodes) : nodes[i].ok
                      /\ \A i \in 1 .. Len(nodes) - 1 : ~ Clash(nodes[i], nodes[i + 1])
  BY DEF Fine
<1>1. DOMAIN nodes = 1 .. Len(nodes) /\ Len(nodes) \in Nat
  OBVIOUS
<1>2. ASSUME NEW i \in 1 .. Len(nodes) - 1
      PROVE  (nodes[i].kind \in LeafKinds /\ nodes[i].kind = nodes[i + 1].kind => nodes[i].ends)
               <=> ~ Clash(nodes[i], nodes[i + 1])
  BY DEF Clash
<1> QED
  BY <1>1, <1>2 DEF Representable

LEMMA EmptyIsFine == <<>> \in Finished
<1>1. PICK e : e = <<>>
  OBVIOUS
<1>2. e \in Seq(Node) /\ Len(e) = 0 /\ 1 .. Len(e) = {} /\ 1 .. Len(e) - 1 = {}
  BY <1>1
<1>3. e \in Fine
  BY <1>2, FineIs
<1> QED
  BY <1>1, <1>3 DEF Finished

\* A node that is done is closed, and so is a newline.
LEMMA NodesAre ==
  /\ \A children : Holding(children) \in Node
  /\ \A children \in Fine : Holding(children) \in FineNode
  /\ \A children : Holding(children).kind = "Tagged"
  /\ \A kind \in LeafKinds, body, ends \in BOOLEAN :
       /\ Leaf(kind, body, ends) \in FineNode /\ Leaf(kind, body, ends).kind = kind
       /\ Leaf(kind, body, ends).ends = ends
<1>1. ASSUME NEW children PROVE Representable(children) \in BOOLEAN
  BY DEF Representable
<1> QED
  BY <1>1 DEF Holding, Leaf, Node, FineNode, NodeKinds, LeafKinds, Fine

\* Two lists are one when their ends do not clash.
LEMMA FineJoin ==
  ASSUME NEW s \in Fine, NEW t \in Fine,
         s = <<>> \/ t = <<>> \/ ~ Clash(s[Len(s)], t[1])
  PROVE  s \o t \in Fine
<1> DEFINE u == s \o t
<1>1. /\ s \in Seq(Node) /\ t \in Seq(Node) /\ u \in Seq(Node) /\ Len(s) \in Nat /\ Len(t) \in Nat
      /\ Len(u) = Len(s) + Len(t)
      /\ s # <<>> => Len(s) # 0
      /\ t # <<>> => Len(t) # 0
  BY DEF Fine
<1>2. \A i \in 1 .. Len(u) : u[i] = IF i <= Len(s) THEN s[i] ELSE t[i - Len(s)]
  BY <1>1
<1> HIDE DEF u
<1>3. ASSUME NEW i \in 1 .. Len(u) PROVE u[i].ok
  <2>1. i <= Len(s) => i \in 1 .. Len(s)
    BY <1>1
  <2>2. ~ i <= Len(s) => i - Len(s) \in 1 .. Len(t)
    BY <1>1
  <2> QED
    BY <1>2, <2>1, <2>2, FineIs
<1>4. ASSUME NEW i \in 1 .. Len(u) - 1 PROVE ~ Clash(u[i], u[i + 1])
  <2>1. i \in 1 .. Len(u) /\ i + 1 \in 1 .. Len(u)
    BY <1>1
  <2>2. CASE i + 1 <= Len(s)
    <3>1. i \in 1 .. Len(s) - 1 /\ i <= Len(s)
      BY <1>1, <2>2
    <3>2. u[i] = s[i] /\ u[i + 1] = s[i + 1]
      BY <1>2, <2>1, <2>2, <3>1
    <3> QED
      BY <3>1, <3>2, FineIs
  <2>3. CASE i = Len(s)
    <3>1. i <= Len(s) /\ ~ (i + 1 <= Len(s)) /\ i + 1 - Len(s) = 1
      BY <1>1, <2>3
    <3>2. u[i] = s[Len(s)] /\ u[i + 1] = t[1]
      BY <1>2, <2>1, <2>3, <3>1
    <3>3. s # <<>> /\ t # <<>>
      BY <1>1, <2>3
    <3> QED
      BY <3>2, <3>3
  <2>4. CASE i > Len(s)
    <3>1. i - Len(s) \in 1 .. Len(t) - 1 /\ ~ (i <= Len(s)) /\ ~ (i + 1 <= Len(s))
          /\ i + 1 - Len(s) = (i - Len(s)) + 1
      BY <1>1, <2>4
    <3>2. u[i] = t[i - Len(s)] /\ u[i + 1] = t[(i - Len(s)) + 1]
      BY <1>2, <2>1, <3>1
    <3> QED
      BY <3>1, <3>2, FineIs
  <2> QED
    BY <1>1, <2>2, <2>3, <2>4
<1>5. u \in Fine
  BY <1>1, <1>3, <1>4, FineIs
<1> QED
  BY <1>5 DEF u

LEMMA FinishedJoin ==
  ASSUME NEW s \in Finished, NEW t \in Fine
  PROVE  /\ s \o t \in Fine
         /\ t \in Finished => s \o t \in Finished
<1>1. s \in Fine /\ s \in Seq(Node) /\ t \in Seq(Node)
  BY DEF Finished, Fine
<1>2. s = <<>> \/ t = <<>> \/ ~ Clash(s[Len(s)], t[1])
  <2>1. \A m, n : Closed(m) => ~ Clash(m, n)
    BY DEF Closed, Clash, LeafKinds
  <2> QED
    BY <2>1 DEF Finished
<1>3. s \o t \in Fine
  BY <1>1, <1>2, FineJoin
<1>4. ASSUME t \in Finished, s \o t # <<>> PROVE Closed((s \o t)[Len(s \o t)])
  <2>1. CASE t = <<>>
    <3>1. s \o t = s
      BY <1>1, <2>1
    <3> QED
      BY <1>4, <3>1 DEF Finished
  <2>2. CASE t # <<>>
    <3>1. Len(t) \in Nat \ {0} /\ Len(s) \in Nat /\ Len(s \o t) = Len(s) + Len(t)
      BY <1>1, <2>2
    <3>2. (s \o t)[Len(s \o t)] = t[Len(t)]
      BY <1>1, <3>1
    <3> QED
      BY <1>4, <2>2, <3>2 DEF Finished
  <2> QED
    BY <2>1, <2>2
<1> QED
  BY <1>3, <1>4 DEF Finished

\* A list of one.
LEMMA OneIsFine ==
  ASSUME NEW node \in FineNode
  PROVE  /\ <<node>> \in Fine
         /\ Closed(node) => <<node>> \in Finished
<1> DEFINE s == <<node>>
<1>1. s \in Seq(Node) /\ Len(s) = 1 /\ s[1] = node /\ node.ok
  BY DEF FineNode
<1> HIDE DEF s
<1>2. s \in Fine
  <2>1. 1 .. Len(s) = {1} /\ 1 .. Len(s) - 1 = {}
    BY <1>1
  <2> QED
    BY <1>1, <2>1, FineIs
<1>3. Closed(node) => s \in Finished
  BY <1>1, <1>2 DEF Finished
<1> QED
  BY <1>2, <1>3 DEF s

\* The last node may be another one of its kind.
LEMMA LastAnew ==
  ASSUME NEW s \in Fine, s # <<>>, NEW node \in FineNode, node.kind = s[Len(s)].kind
  PROVE  /\ Front(s) \o <<node>> \in Fine
         /\ Closed(node) => Front(s) \o <<node>> \in Finished
<1> DEFINE f == Front(s)
           u == f \o <<node>>
<1>1. s \in Seq(Node) /\ Len(s) \in Nat \ {0}
  BY DEF Fine
<1>2. f \in Seq(Node) /\ Len(f) = Len(s) - 1 /\ \A i \in 1 .. Len(f) : f[i] = s[i]
  <2>1. PICK n \in Int : n = Len(s) - 1
    BY <1>1
  <2>2. \A i \in 1 .. n : s[i] \in Node
    BY <1>1, <2>1
  <2>3. f = SubSeq(s, 1, n)
    BY <2>1 DEF Front
  <2> HIDE DEF f
  <2>4. /\ f \in Seq(Node) /\ Len(f) = IF 1 <= n THEN n - 1 + 1 ELSE 0
        /\ \A i \in 1 .. n - 1 + 1 : f[i] = s[1 + i - 1]
    BY <2>1, <2>2, <2>3, SubSeqProperties
  <2>5. Len(f) = n
    BY <1>1, <2>1, <2>4
  <2>6. ASSUME NEW i \in 1 .. Len(f) PROVE f[i] = s[i]
    <3>1. i \in 1 .. n - 1 + 1 /\ 1 + i - 1 = i
      BY <2>1, <2>5
    <3> QED
      BY <2>4, <3>1
  <2> QED
    BY <2>1, <2>4, <2>5, <2>6
<1>3. /\ u \in Seq(Node) /\ Len(u) = Len(s)
      /\ \A i \in 1 .. Len(u) : u[i] = IF i = Len(s) THEN node ELSE s[i]
  <2> HIDE DEF f
  <2>1. node \in Node
    BY DEF FineNode
  <2> QED
    BY <1>1, <1>2, <2>1
<1> HIDE DEF f, u
<1>4. ASSUME NEW i \in 1 .. Len(u) PROVE u[i].ok
  BY <1>1, <1>3, FineIs DEF FineNode
<1>5. ASSUME NEW i \in 1 .. Len(u) - 1 PROVE ~ Clash(u[i], u[i + 1])
  <2>1. i \in 1 .. Len(s) - 1 /\ u[i] = s[i] /\ u[i + 1].kind = s[i + 1].kind
    BY <1>1, <1>3
  <2> QED
    BY <2>1, FineIs DEF Clash
<1>6. u \in Fine
  BY <1>3, <1>4, <1>5, FineIs
<1>7. Closed(node) => u \in Finished
  BY <1>1, <1>3, <1>6 DEF Finished
<1> QED
  BY <1>6, <1>7 DEF u, f

\* A row of one closed node.
LEMMA RowIsFinished ==
  ASSUME NEW node \in FineNode, Closed(node), NEW k \in Nat
  PROVE  [i \in 1 .. k |-> node] \in Finished
<1> DEFINE row == [i \in 1 .. k |-> node]
<1>1. /\ row \in Seq(Node) /\ Len(row) = k /\ \A i \in 1 .. k : row[i] = node
      /\ node.ok
      /\ row # <<>> => k # 0
  BY DEF FineNode
<1> HIDE DEF row
<1>2. \A n : ~ Clash(node, n)
  BY DEF Closed, Clash, LeafKinds
<1>3. row \in Fine
  BY <1>1, <1>2, FineIs
<1>4. row \in Finished
  BY <1>1, <1>3 DEF Finished
<1> QED
  BY <1>4 DEF row

\* After newlines of any kind a list is still fine, and it is finished.
LEMMA NewlinesAreFine ==
  ASSUME NEW nodes \in Fine, NEW kind \in LeafKinds, NEW count \in Nat
  PROVE  /\ AppendNewlines(nodes, kind, count) \in Fine
         /\ count > 0 => AppendNewlines(nodes, kind, count) \in Finished
<1> DEFINE last == nodes[Len(nodes)]
           extended == count > 0 /\ OpenLeaf(nodes, kind)
           closed == IF extended THEN Front(nodes) \o <<Ended(last)>> ELSE nodes
           k == IF extended THEN count - 1 ELSE count
           row == [i \in 1 .. k |-> NewlineLeaf(kind)]
<1>1. AppendNewlines(nodes, kind, count) = closed \o row
  BY DEF AppendNewlines, Last
<1>2. row \in Finished
  <2>1. k \in Nat
    OBVIOUS
  <2>2. NewlineLeaf(kind) \in FineNode /\ Closed(NewlineLeaf(kind))
    BY NodesAre DEF NewlineLeaf, Closed
  <2> HIDE DEF k
  <2> QED
    BY <2>1, <2>2, RowIsFinished
<1>3. CASE extended
  <2>1. nodes # <<>> /\ last \in FineNode
    <3>1. nodes \in Seq(Node) /\ nodes # <<>> /\ Len(nodes) \in 1 .. Len(nodes)
      BY <1>3 DEF Fine, OpenLeaf
    <3> QED
      BY <3>1, FineIs DEF FineNode
  <2>2. Ended(last) \in FineNode /\ Ended(last).kind = last.kind /\ Closed(Ended(last))
    <3> HIDE DEF last
    <3> QED
      BY <2>1 DEF Ended, FineNode, Node, Closed
  <2>3. Front(nodes) \o <<Ended(last)>> \in Finished
    BY <2>1, <2>2, LastAnew
  <2>4. closed \in Finished
    BY <1>3, <2>3
  <2> HIDE DEF closed, row
  <2> QED
    BY <1>1, <1>2, <2>4, FinishedJoin DEF Finished
<1>4. CASE ~ extended
  <2>1. closed = nodes
    BY <1>4
  <2>2. CASE count = 0
    <3>1. row = <<>>
      BY <1>4, <2>2
    <3>2. closed \o row = nodes
      <4> HIDE DEF closed, row
      <4> QED
        BY <2>1, <3>1 DEF Fine
    <3> QED
      BY <1>1, <2>2, <3>2
  <2>3. CASE count > 0
    <3>1. k = count /\ row[1] = NewlineLeaf(kind) /\ Len(row) = count /\ row # <<>>
          /\ row[Len(row)] = NewlineLeaf(kind)
      BY <1>4, <2>3
    <3>2. nodes = <<>> \/ ~ Clash(last, row[1])
      <4>1. NewlineLeaf(kind).kind = kind
        BY NodesAre DEF NewlineLeaf
      <4> HIDE DEF row
      <4> QED
        BY <1>4, <2>3, <3>1, <4>1 DEF OpenLeaf, Clash, Last
    <3>3. row \in Fine
      BY <1>2 DEF Finished
    <3> HIDE DEF row
    <3>4. nodes \o row \in Fine
      BY <3>2, <3>3, FineJoin
    <3>5. nodes \o row \in Finished
      <4>1. nodes \in Seq(Node) /\ row \in Seq(Node)
        BY <3>3 DEF Fine
      <4>2. Len(nodes \o row) = Len(nodes) + Len(row) /\ Len(nodes) \in Nat /\ Len(row) \in Nat \ {0}
        BY <2>3, <3>1, <4>1
      <4>3. (nodes \o row)[Len(nodes \o row)] = row[Len(row)]
        BY <4>1, <4>2
      <4>4. Closed(row[Len(row)])
        BY <3>1, NodesAre DEF NewlineLeaf, Closed
      <4> QED
        BY <3>4, <4>3, <4>4 DEF Finished
    <3> QED
      BY <1>1, <2>1, <3>4, <3>5
  <2> QED
    BY <2>2, <2>3
<1> QED
  BY <1>3, <1>4

\* Trimming keeps a list fine.
LEMMA TrimIsFine ==
  ASSUME NEW nodes \in Fine, NEW kind
  PROVE  TrimTopLevel(nodes, kind) \in Fine
<1> DEFINE kept == {i \in DOMAIN nodes : ~ Vanishes(nodes[i], kind)}
           from == CHOOSE i \in kept : \A j \in kept : i <= j
           to == CHOOSE i \in kept : \A j \in kept : i >= j
           rest == SubSeq(nodes, from, to)
<1>1. nodes \in Seq(Node) /\ DOMAIN nodes = 1 .. Len(nodes) /\ Len(nodes) \in Nat
  BY DEF Fine
<1>2. CASE kept = {}
  <2>1. TrimTopLevel(nodes, kind) = <<>>
    BY <1>2 DEF TrimTopLevel
  <2>2. <<>> \in Fine
    BY EmptyIsFine DEF Finished
  <2> QED
    BY <2>1, <2>2
<1>3. CASE kept # {}
  <2>1. kept \in SUBSET Nat
    BY <1>1
  <2>2. from \in kept /\ \A j \in kept : from <= j
    <3> HIDE DEF kept
    <3>1. \E i \in kept : \A j \in kept : i <= j
      BY <1>3, <2>1, LeastExists
    <3> QED
      BY <3>1
  <2>3. to \in kept
    <3> DEFINE over == {m \in Nat : \A j \in kept : j <= m}
    <3>1. Len(nodes) \in over
      BY <1>1
    <3>2. PICK m \in over : \A j \in over : m <= j
      <4>1. over \in SUBSET Nat
        OBVIOUS
      <4> HIDE DEF over
      <4> QED
        BY <3>1, <4>1, LeastExists
    <3>3. m \in kept
      <4> SUFFICES ASSUME m \notin kept PROVE FALSE
        OBVIOUS
      <4> HIDE DEF kept
      <4>1. PICK j \in kept : j <= m /\ j \in Nat
        BY <1>3, <2>1, <3>2
      <4>2. m - 1 \in Nat
        BY <3>2, <4>1
      <4>3. \A j1 \in kept : j1 <= m - 1
        BY <2>1, <3>2
      <4>4. m - 1 \in over
        BY <4>2, <4>3
      <4> QED
        BY <3>2, <4>4
    <3>4. \E i \in kept : \A j \in kept : i >= j
      <4> HIDE DEF kept
      <4> QED
        BY <2>1, <3>2, <3>3
    <3> HIDE DEF kept
    <3> QED
      BY <3>4
  <2> HIDE DEF from, to
  <2>4. from \in 1 .. Len(nodes) /\ to \in 1 .. Len(nodes) /\ from <= to
    BY <1>1, <2>2, <2>3
  <2> HIDE DEF kept
  <2>5. /\ rest \in Seq(Node) /\ Len(rest) = to - from + 1
        /\ \A i \in 1 .. Len(rest) : rest[i] = nodes[from + i - 1]
    BY <1>1, <2>4, SubSeqProperties
  <2> HIDE DEF rest
  <2>6. ASSUME NEW i \in 1 .. Len(rest) PROVE rest[i].ok
    <3>1. from + i - 1 \in 1 .. Len(nodes)
      BY <1>1, <2>4, <2>5
    <3> QED
      BY <2>5, <3>1, FineIs
  <2>7. ASSUME NEW i \in 1 .. Len(rest) - 1 PROVE ~ Clash(rest[i], rest[i + 1])
    <3>1. from + i - 1 \in 1 .. Len(nodes) - 1 /\ i \in 1 .. Len(rest) /\ i + 1 \in 1 .. Len(rest)
          /\ from + (i + 1) - 1 = (from + i - 1) + 1
      BY <1>1, <2>4, <2>5
    <3>2. rest[i] = nodes[from + i - 1] /\ rest[i + 1] = nodes[(from + i - 1) + 1]
      BY <2>5, <3>1
    <3> QED
      BY <3>1, <3>2, FineIs
  <2>8. rest \in Fine
    BY <2>5, <2>6, <2>7, FineIs
  <2>9. rest # <<>> /\ Len(rest) \in 1 .. Len(rest)
    BY <2>4, <2>5
  <2>10. rest[Len(rest)] \in FineNode
    BY <2>5, <2>6, <2>9 DEF FineNode
  <2> DEFINE last == [rest[Len(rest)] EXCEPT !.ends = FALSE]
  <2>11. last \in FineNode /\ last.kind = rest[Len(rest)].kind
    BY <2>10 DEF FineNode, Node
  <2>12. Front(rest) \o <<last>> \in Fine
    <3> HIDE DEF last
    <3> QED
      BY <2>8, <2>9, <2>11, LastAnew
  <2>13. TrimTopLevel(nodes, kind) = IF Last(rest).kind # kind THEN rest
                                      ELSE Front(rest) \o <<last>>
    <3>1. TrimTopLevel(nodes, kind) =
            IF kept = {} THEN <<>>
            ELSE IF Last(rest).kind # kind THEN rest
            ELSE Front(rest) \o <<[Last(rest) EXCEPT !.ends = FALSE]>>
      BY DEF TrimTopLevel, rest, from, to, kept
    <3>2. Last(rest) = rest[Len(rest)]
      BY DEF Last
    <3> HIDE DEF rest
    <3>3. [Last(rest) EXCEPT !.ends = FALSE] = last
      BY <3>2
    <3> HIDE DEF last
    <3> QED
      BY <1>3, <3>1, <3>3
  <2> QED
    BY <2>8, <2>12, <2>13
<1> QED
  BY <1>2, <1>3

-----------------------------------------------------------------------------
(* Loops over lists *)

\* What every round keeps is there in the end.
LEMMA LoopStays ==
  ASSUME NEW N \in Nat, NEW R, NEW a, a[0] \in R, \A n \in 1 .. N : a[n - 1] \in R => a[n] \in R
  PROVE  a[N] \in R
<1> DEFINE K == {n \in 0 .. N : a[n] \in R}
<1>1. 0 \in K
  OBVIOUS
<1>2. \A n \in 1 .. N : n - 1 \in K => n \in K
  OBVIOUS
<1>3. \A n \in 0 .. N : n \in K
  <2> HIDE DEF K
  <2> QED
    BY <1>1, <1>2, UpToBound, Zenon
<1> QED
  BY <1>3

\* Finished lists in a row are a finished list.
LEMMA FlattenIsFinished ==
  ASSUME NEW ss \in Seq(Finished)
  PROVE  FlattenSeq(ss) \in Finished
<1> DEFINE N == Len(ss)
           Is(h) == h = [i \in 1 .. N |-> IF i = 1 THEN ss[i] ELSE h[i - 1] \o ss[i]]
           a == CHOOSE h : Is(h)
           F == [p \in Finished \X (1 .. N) |-> p[1] \o ss[p[2]]]
<1>1. N \in Nat /\ \A n \in 1 .. N : ss[n] \in Finished
  OBVIOUS
<1>2. FlattenSeq(ss) = IF N = 0 THEN ss ELSE a[N]
  BY DEF FlattenSeq
<1>3. N = 0 => ss = <<>>
  OBVIOUS
<1> HIDE DEF N
<1>4. \A r \in Finished, n \in 1 .. N : r \o ss[n] \in Finished
  BY <1>1, FinishedJoin DEF Finished
<1>5. F \in Steps(Finished, N)
  BY <1>4 DEF Steps
<1>6. PICK g : IsFold(g, Finished, N, <<>>, F)
  <2> HIDE DEF F
  <2> QED
    BY <1>1, <1>5, EmptyIsFine, FoldExists
<1>7. /\ g \in [0 .. N -> Finished] /\ g[0] = <<>>
      /\ \A n \in 1 .. N : g[n] = g[n - 1] \o ss[n]
  <2>1. g \in [0 .. N -> Finished] /\ g[0] = <<>> /\ \A n \in 1 .. N : g[n] = F[<<g[n - 1], n>>]
    <3> HIDE DEF F
    <3> QED
      BY <1>6 DEF IsFold
  <2>2. \A n \in 1 .. N : n - 1 \in 0 .. N
    BY <1>1
  <2> QED
    BY <2>1, <2>2
<1> DEFINE f == [i \in 1 .. N |-> g[i]]
<1>8. Is(f)
  <2>1. ASSUME NEW i \in 1 .. N PROVE g[i] = IF i = 1 THEN ss[i] ELSE f[i - 1] \o ss[i]
    <3>1. CASE i = 1
      <4>1. g[1] = <<>> \o ss[1] /\ ss[1] \in Seq(Node)
        <5>1. 1 - 1 = 0
          OBVIOUS
        <5> QED
          BY <1>1, <1>7, <3>1, <5>1 DEF Finished, Fine
      <4> QED
        BY <3>1, <4>1
    <3>2. CASE i # 1
      <4>1. i - 1 \in 1 .. N
        BY <1>1, <3>2
      <4> QED
        BY <1>7, <3>2, <4>1
    <3> QED
      BY <3>1, <3>2
  <2> QED
    BY <2>1
<1>9. Is(a)
  <2> HIDE DEF f
  <2> QED
    BY <1>8
<1> HIDE DEF a, f
<1>10. CASE N = 0
  BY <1>2, <1>3, <1>10, EmptyIsFine
<1>11. CASE N # 0
  <2> DEFINE b == [n \in 0 .. N |-> IF n = 0 THEN <<>> ELSE a[n]]
  <2>1. b[0] \in Finished
    BY <1>1, EmptyIsFine
  <2>2. ASSUME NEW n \in 1 .. N, b[n - 1] \in Finished PROVE b[n] \in Finished
    <3>1. b[n] = a[n] /\ a[n] = IF n = 1 THEN ss[n] ELSE a[n - 1] \o ss[n]
      <4>1. b[n] = a[n]
        BY <1>1
      <4>2. a[n] = IF n = 1 THEN ss[n] ELSE a[n - 1] \o ss[n]
        <5> HIDE DEF b
        <5> QED
          BY <1>9
      <4> QED
        BY <4>1, <4>2
    <3>2. n # 1 => b[n - 1] = a[n - 1]
      BY <1>1
    <3> HIDE DEF b
    <3> QED
      BY <1>1, <1>4, <2>2, <3>1, <3>2
  <2>3. b[N] = a[N]
    BY <1>1, <1>11
  <2> HIDE DEF b
  <2>4. b[N] \in Finished
    BY <1>1, <2>1, <2>2, LoopStays
  <2> QED
    BY <1>2, <1>11, <2>3, <2>4
<1> QED
  BY <1>10, <1>11

-----------------------------------------------------------------------------
(* The sections *)

\* A node that holds a list the writer takes.
Whole == {node \in FineNode : node.kind = "Tagged"}

\* A list and one node more.
LEMMA OneMore ==
  ASSUME NEW s \in Seq(Node), NEW node \in Node
  PROVE  /\ s \o <<node>> \in Seq(Node)
         /\ Len(s \o <<node>>) = Len(s) + 1
         /\ (s \o <<node>>)[Len(s) + 1] = node
<1>1. PICK t : t = <<node>>
  OBVIOUS
<1>2. t \in Seq(Node) /\ Len(t) = 1 /\ t[1] = node
  BY <1>1
<1>3. PICK n \in Nat : n = Len(s)
  BY LenProperties
<1>4. /\ s \o t \in Seq(Node) /\ Len(s \o t) = Len(s) + Len(t)
      /\ \A i \in 1 .. Len(s) + Len(t) : (s \o t)[i] = IF i <= Len(s) THEN s[i] ELSE t[i - Len(s)]
  BY <1>2, ConcatProperties
<1>5. n + 1 \in 1 .. n + 1 /\ ~ (n + 1 <= n) /\ n + 1 - n = 1
  BY <1>3
<1>6. (s \o t)[n + 1] = t[1]
  BY <1>2, <1>3, <1>4, <1>5
<1> QED
  BY <1>1, <1>2, <1>3, <1>4, <1>6

LEMMA HoldingIsWhole ==
  /\ \A children \in Fine : Holding(children) \in Whole
  /\ \A node \in Whole : <<node>> \in Finished
  /\ \A nodes \in Fine, node \in Whole : nodes \o <<node>> \in Finished
<1>1. \A children \in Fine : Holding(children) \in Whole
  BY NodesAre DEF Whole
<1>2. \A node \in Whole : <<node>> \in Finished
  BY OneIsFine DEF Whole, Closed
<1>3. ASSUME NEW nodes \in Fine, NEW node \in Whole PROVE nodes \o <<node>> \in Finished
  <2>1. PICK t : t = <<node>>
    OBVIOUS
  <2>2. t \in Finished /\ t \in Fine /\ t # <<>> /\ t[1] = node /\ Len(t) = 1 /\ t \in Seq(Node)
    BY <1>2, <2>1 DEF Finished, Fine
  <2>3. node.kind = "Tagged" /\ Closed(node)
    BY DEF Whole, Closed
  <2>4. ~ Clash(nodes[Len(nodes)], t[1])
    BY <2>2, <2>3 DEF Clash, LeafKinds
  <2>5. nodes \o t \in Fine
    BY <2>2, <2>4, FineJoin
  <2>6. Len(nodes \o t) = Len(nodes) + 1 /\ (nodes \o t)[Len(nodes) + 1] = node
    BY <2>1, OneMore DEF Fine, Whole, FineNode
  <2> QED
    BY <2>1, <2>3, <2>5, <2>6 DEF Finished
<1> QED
  BY <1>1, <1>2, <1>3

\* The node may also be appended.
LEMMA AppendIsFine ==
  ASSUME NEW nodes \in Fine, NEW node \in Whole
  PROVE  Append(nodes, node) \in Finished
<1>1. Append(nodes, node) = nodes \o <<node>>
  BY DEF Fine, Whole, FineNode
<1> QED
  BY <1>1, HoldingIsWhole

\* An argument after the other.
LEMMA PairIsFine ==
  ASSUME NEW a \in Whole, NEW b \in Whole
  PROVE  <<a, b>> \in Fine
<1>1. PICK s : s = <<a, b>>
  OBVIOUS
<1>2. s \in Seq(Node) /\ Len(s) = 2 /\ s[1] = a /\ s[2] = b
  BY <1>1 DEF Whole, FineNode
<1>3. a.ok /\ b.ok /\ ~ Clash(a, b)
  BY DEF Whole, FineNode, Clash, LeafKinds
<1>4. 1 .. Len(s) = {1, 2} /\ 1 .. Len(s) - 1 = {1} /\ 1 + 1 = 2
  BY <1>2
<1>5. (\A i \in 1 .. Len(s) : s[i].ok) /\ \A i \in 1 .. Len(s) - 1 : ~ Clash(s[i], s[i + 1])
  BY <1>2, <1>3, <1>4
<1>6. s \in Fine
  BY <1>2, <1>5, FineIs
<1> QED
  BY <1>1, <1>6

LEMMA SpacedIsWhole ==
  ASSUME NEW content \in Fine, NEW kind \in LeafKinds
  PROVE  /\ Spaced(content, kind) \in Whole
         /\ Plain(content, kind) \in Whole
<1>1. <<NewlineLeaf(kind)>> \in Finished
  BY NodesAre, OneIsFine DEF NewlineLeaf, Closed
<1>2. <<NewlineLeaf(kind)>> \o content \in Fine
  BY <1>1, FinishedJoin
<1>3. AppendNewlines(<<NewlineLeaf(kind)>> \o content, kind, 1) \in Fine
  BY <1>2, NewlinesAreFine
<1>4. Spaced(content, kind) \in Whole
  BY <1>3, HoldingIsWhole DEF Spaced
<1>5. Plain(content, kind) \in Whole
  BY TrimIsFine, HoldingIsWhole DEF Plain
<1> QED
  BY <1>4, <1>5

LEMMA NamedIsWhole ==
  ASSUME NEW title \in Fine, NEW body \in Fine
  PROVE  NamedSection(title, body) \in Whole
<1> DEFINE space == IF body # <<>> /\ Head(body).kind # "Text" THEN <<Blank>> ELSE <<>>
           opened == <<NewlineLeaf("Text")>> \o space
           all == opened \o body
           argument == Holding(AppendNewlines(all, "Text", 1))
<1>0. "Text" \in LeafKinds
  BY DEF LeafKinds
<1>1. <<NewlineLeaf("Text")>> \in Finished
  BY <1>0, NodesAre, OneIsFine DEF NewlineLeaf, Closed
<1>2. all \in Fine
  <2>1. CASE body # <<>> /\ Head(body).kind # "Text"
    <3>1. PICK b : b = <<Blank>>
      OBVIOUS
    <3>2. b \in Fine /\ Blank.kind = "Text" /\ b[1] = Blank /\ Len(b) = 1 /\ b \in Seq(Node)
      <4>1. Blank \in FineNode /\ Blank.kind = "Text" /\ Blank \in Node
        BY <1>0, NodesAre DEF Blank, FineNode
      <4>2. b \in Fine
        BY <3>1, <4>1, OneIsFine
      <4> QED
        BY <3>1, <4>1, <4>2
    <3>3. PICK n : n = <<NewlineLeaf("Text")>>
      OBVIOUS
    <3>4. n \in Finished /\ n \in Seq(Node) /\ Len(n) = 1
      BY <1>1, <3>3 DEF Finished, Fine
    <3>5. n \o b \in Fine /\ Len(n \o b) = 2 /\ (n \o b)[2] = Blank
      <4>1. n \o b \in Fine
        BY <3>2, <3>4, FinishedJoin
      <4>2. Blank \in Node
        BY <1>0, NodesAre DEF Blank, FineNode
      <4>3. PICK d : d = Blank
        OBVIOUS
      <4>4. Len(n \o <<d>>) = Len(n) + 1 /\ (n \o <<d>>)[Len(n) + 1] = d
        BY <3>4, <4>2, <4>3, OneMore
      <4>5. Len(n) + 1 = 2
        BY <3>4
      <4> QED
        BY <3>1, <4>1, <4>3, <4>4, <4>5
    <3>6. Head(body) = body[1]
      BY <2>1 DEF Fine
    <3>7. ~ Clash(Blank, body[1])
      BY <2>1, <3>2, <3>6 DEF Clash
    <3>8. (n \o b) \o body \in Fine
      BY <3>5, <3>7, FineJoin
    <3> QED
      BY <2>1, <3>1, <3>3, <3>8
  <2>2. CASE ~ (body # <<>> /\ Head(body).kind # "Text")
    <3>1. opened = <<NewlineLeaf("Text")>>
      <4>1. PICK n : n = <<NewlineLeaf("Text")>>
        OBVIOUS
      <4>2. n \o <<>> = n
        BY <1>1, <4>1 DEF Finished, Fine
      <4> QED
        BY <2>2, <4>1, <4>2
    <3> QED
      BY <1>1, <3>1, FinishedJoin
  <2> QED
    BY <2>1, <2>2
<1> HIDE DEF all
<1>3. argument \in Whole
  BY <1>0, <1>2, NewlinesAreFine, HoldingIsWhole
<1>4. Holding(title) \in Whole
  BY HoldingIsWhole
<1>5. <<Holding(title), argument>> \in Fine
  BY <1>3, <1>4, PairIsFine
<1> QED
  BY <1>5, HoldingIsWhole DEF NamedSection, argument, all

\* Code, a leaf a line, and the nodes of a usage.
LEMMA LinesAreFine ==
  ASSUME NEW kind \in LeafKinds, NEW text \in RCodeText
  PROVE  Lines(kind, text) \in Fine
<1> DEFINE s == Lines(kind, text)
<1>1. text.lines \in Nat
  BY DEF RCodeText
<1>2. /\ Line(kind) \in FineNode /\ Word(kind) \in FineNode
      /\ \A n : ~ Clash(Line(kind), n)
  BY NodesAre DEF Line, Word, Clash
<1>3. s \in Seq(Node) /\ Len(s) = text.lines
  BY <1>1, <1>2 DEF Lines, FineNode
<1>4. \A i \in 1 .. text.lines :
        s[i] = IF i < text.lines \/ text.ends THEN Line(kind) ELSE Word(kind)
  BY DEF Lines
<1> HIDE DEF s
<1>5. \A i \in 1 .. Len(s) : s[i].ok
  BY <1>2, <1>3, <1>4 DEF FineNode
<1>6. ASSUME NEW i \in 1 .. Len(s) - 1 PROVE ~ Clash(s[i], s[i + 1])
  <2>1. s[i] = Line(kind)
    BY <1>1, <1>3, <1>4
  <2> QED
    BY <1>2, <2>1
<1>7. s \in Fine
  BY <1>3, <1>5, <1>6, FineIs
<1> QED
  BY <1>7 DEF s

LEMMA UsageNodesAreFine ==
  ASSUME NEW usage \in UsageContribution
  PROVE  UsageNodes(usage) \in Fine
<1>1. "Text" \in LeafKinds /\ "RCode" \in LeafKinds /\ usage.text \in RCodeText
  BY DEF LeafKinds, UsageContribution
<1>2. Lines("RCode", usage.text) \in Fine
  BY <1>1, LinesAreFine
<1>3. Holding(<<Word("Text")>>) \in Whole
  <2>1. Word("Text") \in FineNode
    BY <1>1, NodesAre DEF Word
  <2> QED
    BY <2>1, OneIsFine, HoldingIsWhole
<1>4. <<Holding(<<Holding(<<Word("Text")>>), Holding(<<Word("Text")>>)>>)>> \in Finished
  BY <1>3, PairIsFine, HoldingIsWhole
<1> QED
  BY <1>2, <1>4, FinishedJoin DEF UsageNodes

\* The usage section, if there is one.
LEMMA UsageIsWhole ==
  ASSUME NEW usages \in Seq(UsageContribution)
  PROVE  UsageSection(usages) = <<>> \/ \E node \in Whole : UsageSection(usages) = <<node>>
<1> DEFINE told == {i \in DOMAIN usages : usages[i].form \in {"Generated", "Explicit"}}
           Add(children, i) ==
             IF i \notin told THEN children
             ELSE (IF \E j \in told : j < i THEN AppendNewlines(children, "RCode", 2)
                   ELSE <<>>)
                    \o UsageNodes(usages[i])
           N == Len(usages)
           Is(h) == h = [n \in 0 .. N |-> IF n = 0 THEN <<>> ELSE Add(h[n - 1], n)]
           a == CHOOSE h : Is(h)
           F == [p \in Fine \X (1 .. N) |-> Add(p[1], p[2])]
<1>0. UsageSection(usages) = IF told = {} THEN <<>> ELSE <<Spaced(a[N], "RCode")>>
  BY DEF UsageSection
<1>1. N \in Nat /\ DOMAIN usages = 1 .. N /\ \A n \in 1 .. N : usages[n] \in UsageContribution
  OBVIOUS
<1>2. "RCode" \in LeafKinds
  BY DEF LeafKinds
<1>3. \A r \in Fine, n \in 1 .. N : Add(r, n) \in Fine
  <2> SUFFICES ASSUME NEW r \in Fine, NEW n \in 1 .. N PROVE Add(r, n) \in Fine
    OBVIOUS
  <2>1. UsageNodes(usages[n]) \in Fine
    BY <1>1, UsageNodesAreFine
  <2>2. AppendNewlines(r, "RCode", 2) \in Finished
    BY <1>2, NewlinesAreFine
  <2>3. <<>> \in Finished
    BY EmptyIsFine
  <2> HIDE DEF told
  <2> QED
    BY <2>1, <2>2, <2>3, FinishedJoin
<1> HIDE DEF told, N, Add
<1>4. F \in Steps(Fine, N)
  BY <1>3 DEF Steps
<1>5. <<>> \in Fine
  BY EmptyIsFine DEF Finished
<1>6. PICK g : IsFold(g, Fine, N, <<>>, F)
  <2> HIDE DEF F
  <2> QED
    BY <1>1, <1>4, <1>5, FoldExists
<1>7. g \in [0 .. N -> Fine] /\ g[0] = <<>> /\ \A n \in 1 .. N : g[n] = Add(g[n - 1], n)
  <2>1. g \in [0 .. N -> Fine] /\ g[0] = <<>> /\ \A n \in 1 .. N : g[n] = F[<<g[n - 1], n>>]
    <3> HIDE DEF F
    <3> QED
      BY <1>6 DEF IsFold
  <2>2. \A n \in 1 .. N : n - 1 \in 0 .. N
    BY <1>1
  <2> QED
    BY <2>1, <2>2
<1>8. Is(a)
  <2>1. Is(g)
    BY <1>1, <1>7
  <2> QED
    BY <2>1
<1> HIDE DEF a
<1>9. a[0] = <<>> /\ \A n \in 1 .. N : a[n] = Add(a[n - 1], n)
  BY <1>1, <1>8
<1>10. a[N] \in Fine
  <2>1. a[0] \in Fine /\ \A n \in 1 .. N : a[n - 1] \in Fine => a[n] \in Fine
    BY <1>3, <1>5, <1>9
  <2> QED
    BY <1>1, <2>1, LoopStays
<1>11. Spaced(a[N], "RCode") \in Whole
  BY <1>2, <1>10, SpacedIsWhole
<1> QED
  BY <1>0, <1>11

\* The arguments.
LEMMA ArgumentsAreWhole ==
  ASSUME NEW groups \in Seq([names : Fine, description : Fine])
  PROVE  ArgumentsSection(groups) \in Whole
<1> DEFINE Item(g) == Holding(<<Holding(g.names), Holding(g.description)>>)
           Add(children, i) ==
             Append(IF i = 1 THEN children ELSE AppendNewlines(children, "Text", 2),
                    Item(groups[i]))
           N == Len(groups)
           Is(h) == h = [n \in 0 .. N |-> IF n = 0 THEN <<>> ELSE Add(h[n - 1], n)]
           a == CHOOSE h : Is(h)
           F == [p \in Fine \X (1 .. N) |-> Add(p[1], p[2])]
<1>0. ArgumentsSection(groups) = Spaced(a[N], "Text")
  BY DEF ArgumentsSection
<1>1. N \in Nat /\ \A n \in 1 .. N : groups[n].names \in Fine /\ groups[n].description \in Fine
  <2>1. Len(groups) \in Nat /\ \A n \in 1 .. Len(groups) : groups[n] \in [names : Fine, description : Fine]
    BY LenProperties, ElementOfSeq
  <2> QED
    BY <2>1
<1>2. "Text" \in LeafKinds
  BY DEF LeafKinds
<1>3. \A r \in Fine, n \in 1 .. N : Add(r, n) \in Fine
  <2> SUFFICES ASSUME NEW r \in Fine, NEW n \in 1 .. N PROVE Add(r, n) \in Fine
    OBVIOUS
  <2>1. Item(groups[n]) \in Whole
    BY <1>1, PairIsFine, HoldingIsWhole
  <2>2. AppendNewlines(r, "Text", 2) \in Fine
    BY <1>2, NewlinesAreFine
  <2> HIDE DEF Item
  <2>3. \A t \in Fine : Append(t, Item(groups[n])) \in Fine
    BY <2>1, AppendIsFine DEF Finished
  <2> QED
    BY <2>2, <2>3
<1> HIDE DEF N, Add
<1>4. F \in Steps(Fine, N)
  BY <1>3 DEF Steps
<1>5. <<>> \in Fine
  BY EmptyIsFine DEF Finished
<1>6. PICK g : IsFold(g, Fine, N, <<>>, F)
  <2> HIDE DEF F
  <2> QED
    BY <1>1, <1>4, <1>5, FoldExists
<1>7. g \in [0 .. N -> Fine] /\ g[0] = <<>> /\ \A n \in 1 .. N : g[n] = Add(g[n - 1], n)
  <2>1. g \in [0 .. N -> Fine] /\ g[0] = <<>> /\ \A n \in 1 .. N : g[n] = F[<<g[n - 1], n>>]
    <3> HIDE DEF F
    <3> QED
      BY <1>6 DEF IsFold
  <2>2. \A n \in 1 .. N : n - 1 \in 0 .. N
    BY <1>1
  <2> QED
    BY <2>1, <2>2
<1>8. Is(a)
  <2>1. Is(g)
    BY <1>1, <1>7
  <2> QED
    BY <2>1
<1> HIDE DEF a
<1>9. a[0] = <<>> /\ \A n \in 1 .. N : a[n] = Add(a[n - 1], n)
  BY <1>1, <1>8
<1>10. a[N] \in Fine
  <2>1. a[0] \in Fine /\ \A n \in 1 .. N : a[n - 1] \in Fine => a[n] \in Fine
    BY <1>3, <1>5, <1>9
  <2> QED
    BY <1>1, <2>1, LoopStays
<1> QED
  BY <1>0, <1>2, <1>10, SpacedIsWhole

\* A few nodes, none of which clashes with the next.
LEMMA FewAreFine ==
  ASSUME NEW a \in FineNode, NEW b \in FineNode, ~ Clash(a, b)
  PROVE  /\ <<a, b>> \in Fine
         /\ Closed(b) => <<a, b>> \in Finished
<1>1. PICK s : s = <<a, b>>
  OBVIOUS
<1>2. s \in Seq(Node) /\ Len(s) = 2 /\ s[1] = a /\ s[2] = b
  BY <1>1 DEF FineNode
<1>3. 1 .. Len(s) = {1, 2} /\ 1 .. Len(s) - 1 = {1} /\ 1 + 1 = 2
  BY <1>2
<1>4. (\A i \in 1 .. Len(s) : s[i].ok) /\ \A i \in 1 .. Len(s) - 1 : ~ Clash(s[i], s[i + 1])
  BY <1>2, <1>3 DEF FineNode
<1>5. s \in Fine
  BY <1>2, <1>4, FineIs
<1>6. Closed(b) => s \in Finished
  BY <1>2, <1>5 DEF Finished
<1> QED
  BY <1>1, <1>5, <1>6

LEMMA FewerAreFine ==
  ASSUME NEW a \in FineNode, NEW b \in FineNode, NEW c \in FineNode,
         ~ Clash(a, b), ~ Clash(b, c)
  PROVE  /\ <<a, b, c>> \in Fine
         /\ Closed(c) => <<a, b, c>> \in Finished
<1>1. PICK s : s = <<a, b, c>>
  OBVIOUS
<1>2. s \in Seq(Node) /\ Len(s) = 3 /\ s[1] = a /\ s[2] = b /\ s[3] = c
  BY <1>1 DEF FineNode
<1>3. 1 .. Len(s) = {1, 2, 3} /\ 1 .. Len(s) - 1 = {1, 2} /\ 1 + 1 = 2 /\ 2 + 1 = 3
  BY <1>2
<1>4. (\A i \in 1 .. Len(s) : s[i].ok) /\ \A i \in 1 .. Len(s) - 1 : ~ Clash(s[i], s[i + 1])
  BY <1>2, <1>3 DEF FineNode
<1>5. s \in Fine
  BY <1>2, <1>4, FineIs
<1>6. Closed(c) => s \in Finished
  BY <1>2, <1>5 DEF Finished
<1> QED
  BY <1>1, <1>5, <1>6

LEMMA FourAreFine ==
  ASSUME NEW a \in FineNode, NEW b \in FineNode, NEW c \in FineNode, NEW d \in FineNode,
         ~ Clash(a, b), ~ Clash(b, c), ~ Clash(c, d)
  PROVE  /\ <<a, b, c, d>> \in Fine
         /\ Closed(d) => <<a, b, c, d>> \in Finished
<1>1. PICK s : s = <<a, b, c, d>>
  OBVIOUS
<1>2. s \in Seq(Node) /\ Len(s) = 4 /\ s[1] = a /\ s[2] = b /\ s[3] = c /\ s[4] = d
  BY <1>1 DEF FineNode
<1>3. /\ 1 .. Len(s) = {1, 2, 3, 4} /\ 1 .. Len(s) - 1 = {1, 2, 3}
      /\ 1 + 1 = 2 /\ 2 + 1 = 3 /\ 3 + 1 = 4
  BY <1>2
<1>4. (\A i \in 1 .. Len(s) : s[i].ok) /\ \A i \in 1 .. Len(s) - 1 : ~ Clash(s[i], s[i + 1])
  BY <1>2, <1>3 DEF FineNode
<1>5. s \in Fine
  BY <1>2, <1>4, FineIs
<1>6. Closed(d) => s \in Finished
  BY <1>2, <1>5 DEF Finished
<1> QED
  BY <1>1, <1>5, <1>6

\* The leaves the assembly itself writes.
LEMMA LeavesAre ==
  ASSUME NEW kind \in LeafKinds
  PROVE  /\ NewlineLeaf(kind) \in FineNode /\ Closed(NewlineLeaf(kind))
         /\ Line(kind) \in FineNode /\ Closed(Line(kind))
         /\ Word(kind) \in FineNode /\ Word(kind).kind = kind
         /\ Blank \in FineNode
         /\ \A n \in Whole : Closed(n) /\ ~ Clash(Word(kind), n) /\ ~ Clash(Blank, n)
         /\ \A m, n : Closed(m) => ~ Clash(m, n)
         /\ Holding(<<Word(kind)>>) \in Whole /\ Holding(<<>>) \in Whole
<1>1. /\ NewlineLeaf(kind) \in FineNode /\ Closed(NewlineLeaf(kind))
      /\ Line(kind) \in FineNode /\ Closed(Line(kind))
      /\ Word(kind) \in FineNode /\ Word(kind).kind = kind
  BY NodesAre DEF NewlineLeaf, Line, Word, Closed
<1>2. Blank \in FineNode /\ Blank.kind = "Text"
  BY NodesAre DEF Blank, LeafKinds
<1>3. \A n \in Whole : Closed(n) /\ ~ Clash(Word(kind), n) /\ ~ Clash(Blank, n)
  BY <1>1, <1>2 DEF Whole, Closed, Clash, LeafKinds
<1>4. \A m, n : Closed(m) => ~ Clash(m, n)
  BY DEF Closed, Clash, LeafKinds
<1>5. Holding(<<Word(kind)>>) \in Whole /\ Holding(<<>>) \in Whole
  BY <1>1, OneIsFine, EmptyIsFine, HoldingIsWhole DEF Finished
<1> QED
  BY <1>1, <1>2, <1>3, <1>4, <1>5

\* Examples of which only some may run.
LEMMA ExamplesAreFine ==
  ASSUME NEW conditional \in BOOLEAN, NEW nodes \in Fine
  PROVE  ExamplesNodes([conditional |-> conditional, body |-> nodes]) \in Fine
<1> DEFINE guard == Holding(<<Line("RCode"), Line("RCode"), Word("RCode")>>)
           close == Holding(<<Word("RCode")>>)
           body == <<guard, NewlineLeaf("RCode")>> \o nodes
           last == body[Len(body)]
           ended == IF OpenLeaf(body, "RCode") THEN Front(body) \o <<Ended(last)>>
                    ELSE Append(body, NewlineLeaf("RCode"))
<1>1. "RCode" \in LeafKinds
  BY DEF LeafKinds
<1>2. guard \in Whole /\ close \in Whole
  BY <1>1, LeavesAre, FewerAreFine, HoldingIsWhole
<1>3. body \in Fine
  <2>1. <<guard, NewlineLeaf("RCode")>> \in Finished
    <3> HIDE DEF guard
    <3> QED
      BY <1>1, <1>2, LeavesAre, FewAreFine DEF Whole
  <2> QED
    BY <2>1, FinishedJoin
<1> HIDE DEF guard, close, body
<1>4. ended \in Fine
  <2>1. CASE OpenLeaf(body, "RCode")
    <3>1. body # <<>> /\ last \in FineNode
      <4>1. body \in Seq(Node) /\ body # <<>> /\ Len(body) \in 1 .. Len(body)
        BY <1>3, <2>1 DEF Fine, OpenLeaf
      <4> QED
        BY <1>3, <4>1, FineIs DEF FineNode
    <3>2. Ended(last) \in FineNode /\ Ended(last).kind = last.kind
      <4> HIDE DEF last
      <4> QED
        BY <3>1 DEF Ended, FineNode, Node
    <3>3. Front(body) \o <<Ended(last)>> \in Fine
      BY <1>3, <3>1, <3>2, LastAnew
    <3> QED
      BY <2>1, <3>3
  <2>2. CASE ~ OpenLeaf(body, "RCode")
    <3>1. NewlineLeaf("RCode") \in FineNode /\ NewlineLeaf("RCode").kind = "RCode"
      BY <1>1, NodesAre DEF NewlineLeaf
    <3>2. PICK t : t = <<NewlineLeaf("RCode")>>
      OBVIOUS
    <3>3. t \in Fine /\ t[1] = NewlineLeaf("RCode")
      BY <3>1, <3>2, OneIsFine
    <3>4. body = <<>> \/ ~ Clash(last, t[1])
      BY <2>2, <3>1, <3>3 DEF OpenLeaf, Clash, Last
    <3>5. body \o t \in Fine
      BY <1>3, <3>3, <3>4, FineJoin
    <3>6. Append(body, NewlineLeaf("RCode")) = body \o t
      BY <1>3, <3>1, <3>2 DEF Fine, FineNode
    <3> QED
      BY <2>2, <3>5, <3>6
  <2> QED
    BY <2>1, <2>2
<1> HIDE DEF ended
<1>5. Append(ended, close) \in Fine
  BY <1>2, <1>4, AppendIsFine DEF Finished
<1>6. ExamplesNodes([conditional |-> conditional, body |-> nodes]) =
        IF ~ conditional THEN nodes ELSE Append(ended, close)
  BY DEF ExamplesNodes, ended, body, guard, close, Last
<1> QED
  BY <1>5, <1>6

\* What DESCRIPTION says of other places.
LEMMA SeeAlsoIsWhole ==
  ASSUME NEW seeAlso, seeAlso.urls \in Nat
  PROVE  SeeAlsoSection(seeAlso) \in Whole
<1> DEFINE Url == <<Holding(<<>>), Holding(<<Word("Verb")>>), NewlineLeaf("Text")>>
           Bugs == <<Holding(<<>>), Word("Text"), Holding(<<Word("Verb")>>), NewlineLeaf("Text")>>
           urls == [i \in 1 .. seeAlso.urls |-> Url]
           bugs == IF seeAlso.bugs THEN Bugs ELSE <<>>
           items == FlattenSeq(urls) \o bugs
<1>1. "Text" \in LeafKinds /\ "Verb" \in LeafKinds
  BY DEF LeafKinds
<1>2. Url \in Finished
  BY <1>1, LeavesAre, FewerAreFine DEF Whole
<1>3. Bugs \in Finished
  BY <1>1, LeavesAre, FourAreFine DEF Whole
<1> HIDE DEF Url, Bugs
<1>4. FlattenSeq(urls) \in Finished
  <2>1. urls \in Seq(Finished)
    BY <1>2
  <2> HIDE DEF urls
  <2> QED
    BY <2>1, FlattenIsFinished
<1>5. items \in Fine
  <2>1. bugs \in Fine
    BY <1>3, EmptyIsFine DEF Finished
  <2> HIDE DEF urls, bugs
  <2> QED
    BY <1>4, <2>1, FinishedJoin
<1> HIDE DEF items
<1>6. <<Line("Text"), Holding(items)>> \in Fine
  BY <1>1, <1>5, LeavesAre, HoldingIsWhole, FewAreFine DEF Whole
<1>7. SeeAlsoSection(seeAlso) = Spaced(<<Line("Text"), Holding(items)>>, "Text")
  BY DEF SeeAlsoSection, items, Url, Bugs
<1> QED
  BY <1>1, <1>6, <1>7, SpacedIsWhole

\* The links of reexports.
LEMMA ReexportIsWhole ==
  ASSUME NEW links \in Seq(Nat \ {0})
  PROVE  ReexportSection(links) \in Whole
<1> DEFINE Link == Holding(<<Holding(<<Word("Text")>>)>>)
           rest(n) == [i \in 1 .. n - 1 |-> <<Word("Text"), Link>>]
           Links(n) == Holding(<<Link>> \o FlattenSeq(rest(n)))
           Item(n) == Holding(<<Holding(<<Word("Text")>>), Links(n)>>)
           first(i) == IF i > 1 THEN <<NewlineLeaf("Text")>> ELSE <<>>
           Entry(i) == first(i) \o <<Blank, Item(links[i])>>
           entries == [i \in DOMAIN links |-> Entry(i)]
           opened == <<NewlineLeaf("Text")>> \o FlattenSeq(entries)
           describe == Holding(opened \o <<NewlineLeaf("Text")>>)
<1>1. "Text" \in LeafKinds
  BY DEF LeafKinds
<1>2. Link \in Whole
  BY <1>1, LeavesAre, HoldingIsWhole DEF Finished
<1>3. <<Word("Text"), Link>> \in Finished /\ <<Link>> \in Finished
  <2> HIDE DEF Link
  <2> QED
    BY <1>1, <1>2, LeavesAre, FewAreFine, HoldingIsWhole DEF Whole
<1>4. ASSUME NEW n \in Nat \ {0} PROVE Item(n) \in Whole
  <2> HIDE DEF Link
  <2>1. rest(n) \in Seq(Finished)
    <3>1. n - 1 \in Nat
      OBVIOUS
    <3> QED
      BY <1>3, <3>1
  <2>2. FlattenSeq(rest(n)) \in Finished
    <3> HIDE DEF rest
    <3> QED
      BY <2>1, FlattenIsFinished
  <2>3. Links(n) \in Whole
    <3> HIDE DEF rest
    <3> QED
      BY <1>3, <2>2, FinishedJoin, HoldingIsWhole DEF Finished
  <2> HIDE DEF Links
  <2> QED
    BY <1>1, <2>3, LeavesAre, PairIsFine, HoldingIsWhole
<1> HIDE DEF Item
<1>5. <<NewlineLeaf("Text")>> \in Finished
  BY <1>1, LeavesAre, OneIsFine
<1>6. ASSUME NEW i \in DOMAIN links PROVE Entry(i) \in Finished
  <2>1. links[i] \in Nat \ {0}
    OBVIOUS
  <2>2. <<Blank, Item(links[i])>> \in Finished
    BY <1>1, <1>4, <2>1, LeavesAre, FewAreFine DEF Whole
  <2>3. first(i) \in Finished
    BY <1>5, EmptyIsFine
  <2> HIDE DEF first
  <2> QED
    BY <2>2, <2>3, FinishedJoin DEF Finished
<1>7. FlattenSeq(entries) \in Finished
  <2>1. entries \in Seq(Finished)
    <3> HIDE DEF Entry
    <3>1. DOMAIN links = 1 .. Len(links) /\ Len(links) \in Nat
      BY LenProperties
    <3> QED
      BY <1>6, <3>1
  <2> HIDE DEF entries
  <2> QED
    BY <2>1, FlattenIsFinished
<1>8. describe \in Whole
  <2> HIDE DEF entries
  <2>1. opened \in Finished
    BY <1>5, <1>7, FinishedJoin DEF Finished
  <2> HIDE DEF opened
  <2> QED
    BY <1>5, <2>1, FinishedJoin, HoldingIsWhole DEF Finished
<1> HIDE DEF describe
<1>9. <<Line("Text"), Line("Text"), NewlineLeaf("Text"), describe>> \in Fine
  BY <1>1, <1>8, LeavesAre, FourAreFine DEF Whole
<1>10. ReexportSection(links) =
         Spaced(<<Line("Text"), Line("Text"), NewlineLeaf("Text"), describe>>, "Text")
  BY DEF ReexportSection, describe, opened, entries, Entry, first, Item, Links, rest, Link
<1> QED
  BY <1>1, <1>9, <1>10, SpacedIsWhole

\* A section and its newlines.
LEMMA PlacedIsFinished ==
  ASSUME NEW node \in Whole, NEW named \in BOOLEAN
  PROVE  Placed(node, named) \in Finished
<1> DEFINE k == IF named THEN 2 ELSE 1
           row == [i \in 1 .. k |-> NewlineLeaf("Text")]
<1>1. row \in Finished
  <2>1. "Text" \in LeafKinds /\ k \in Nat
    BY DEF LeafKinds
  <2> HIDE DEF k
  <2> QED
    BY <2>1, LeavesAre, RowIsFinished
<1> HIDE DEF row
<1>2. <<node>> \o row \in Finished
  BY <1>1, HoldingIsWhole, FinishedJoin DEF Finished
<1> QED
  BY <1>2 DEF Placed, row

-----------------------------------------------------------------------------
(* People *)

\* A loop with a function for its rounds has a value after each of them.
IsLoop(g, N, start, F) ==
  /\ g \in [0 .. N -> Fine]
  /\ g = [n \in 0 .. N |-> IF n = 0 THEN start ELSE F[<<g[n - 1], n>>]]
LEMMA LoopExists ==
  ASSUME NEW N \in Nat, NEW start \in Fine, NEW F \in Steps(Fine, N)
  PROVE  \E g : IsLoop(g, N, start, F)
<1>1. PICK g : IsFold(g, Fine, N, start, F)
  BY FoldExists
<1>2. /\ g \in [0 .. N -> Fine] /\ g[0] = start
      /\ \A n \in 1 .. N : g[n] = F[<<g[n - 1], n>>]
  BY <1>1 DEF IsFold
<1>3. \A n \in 0 .. N : g[n] = IF n = 0 THEN start ELSE F[<<g[n - 1], n>>]
  BY <1>2
<1> QED
  BY <1>2, <1>3 DEF IsLoop

\* A text without a line break always fits, any text after a closed node does.
LEMMA TextIsFine ==
  ASSUME NEW list \in Fine, NEW text \in Scalar, ~ text.breaks \/ ~ OpenLeaf(list, "Text")
  PROVE  AppendText(list, text) \in Fine
<1> DEFINE last == list[Len(list)]
           more == [Last(list) EXCEPT !.body = @ \/ text.body]
           leaf == Leaf("Text", text.body, text.ends)
<1>0. AppendText(list, text) = IF OpenLeaf(list, "Text") /\ ~ text.breaks
                                 THEN Front(list) \o <<more>> ELSE Append(list, leaf)
  <2>1. AppendText(list, text) = AppendLeaf(list, "Text", text)
    BY DEF AppendText
  <2> QED
    BY <2>1 DEF AppendLeaf
<1>1. "Text" \in LeafKinds /\ text.body \in BOOLEAN /\ text.ends \in BOOLEAN
  BY DEF LeafKinds, Scalar
<1>2. CASE OpenLeaf(list, "Text")
  <2>0. ~ text.breaks
    BY <1>2
  <2>1. list # <<>> /\ last \in FineNode
    <3>1. list \in Seq(Node) /\ list # <<>> /\ Len(list) \in 1 .. Len(list)
      BY <1>2 DEF Fine, OpenLeaf
    <3> QED
      BY <3>1, FineIs DEF FineNode
  <2>2. more \in FineNode /\ more.kind = last.kind
    <3>1. Last(list) = last
      BY DEF Last
    <3> HIDE DEF last
    <3> QED
      BY <1>1, <2>1, <3>1 DEF FineNode, Node
  <2>3. Front(list) \o <<more>> \in Fine
    <3> HIDE DEF more
    <3> QED
      BY <2>1, <2>2, LastAnew
  <2>4. AppendText(list, text) = Front(list) \o <<more>>
    <3> HIDE DEF more, leaf
    <3> QED
      BY <1>0, <1>2, <2>0
  <2> QED
    BY <2>3, <2>4
<1>3. CASE ~ OpenLeaf(list, "Text")
  <2>1. leaf \in FineNode /\ leaf.kind = "Text"
    BY <1>1, NodesAre
  <2> HIDE DEF leaf
  <2>2. PICK t : t = <<leaf>>
    OBVIOUS
  <2>3. t \in Fine /\ t[1] = leaf
    BY <2>1, <2>2, OneIsFine
  <2>4. list = <<>> \/ ~ Clash(last, t[1])
    BY <1>3, <2>1, <2>3 DEF OpenLeaf, Clash, Last
  <2>5. list \o t \in Fine
    BY <2>3, <2>4, FineJoin
  <2>6. AppendText(list, text) = Append(list, leaf)
    BY <1>0, <1>3
  <2>7. Append(list, leaf) = list \o t
    BY <2>1, <2>2 DEF Fine, FineNode
  <2> QED
    BY <2>5, <2>6, <2>7
<1> QED
  BY <1>2, <1>3

LEMMA WordsAreTexts ==
  /\ Text \in Scalar /\ ~ Text.breaks
  /\ Space \in Scalar /\ ~ Space.breaks
  /\ TextLine \in Scalar
  /\ \A nodes \in Fine : AppendText(nodes, Text) \in Fine /\ AppendText(nodes, Space) \in Fine
<1>1. /\ Text \in Scalar /\ ~ Text.breaks
      /\ Space \in Scalar /\ ~ Space.breaks
      /\ TextLine \in Scalar
  BY DEF Text, Space, TextLine, Scalar
<1> QED
  BY <1>1, TextIsFine

\* Nothing DESCRIPTION says of the person has a line break in it.
OnOneLine(person) ==
  /\ ~ person.name.breaks
  /\ \A i \in DOMAIN person.comments :
       /\ ~ person.comments[i].value.breaks
       /\ \A j \in DOMAIN person.comments[i].label : ~ person.comments[i].label[j].breaks

LEMMA PersonIsFine ==
  ASSUME NEW nodes \in Fine, NEW person \in PackagePerson, OnOneLine(person)
  PROVE  AppendPerson(nodes, person) \in Fine
<1> DEFINE named == AppendText(nodes, person.name)
           mailed == IF person.email
                     THEN Append(AppendText(named, Space), Holding(<<Word("Text")>>))
                     ELSE named
           Identity(out) ==
             AppendText(Append(AppendText(out, Text),
                               Holding(<<Holding(<<Word("Verb")>>), Holding(<<Word("Text")>>)>>)),
                        Text)
           M == person.identities
           Identified(h) == h = [n \in 0 .. M |-> IF n = 0 THEN mailed ELSE Identity(h[n - 1])]
           identified == CHOOSE h : Identified(h)
           AddComment(out, i) ==
             LET comment == person.comments[i]
                 separated == IF i > 1 THEN AppendText(out, Text) ELSE out
                 labelled == IF comment.label # <<>>
                             THEN AppendText(AppendText(separated, comment.label[1]), Text)
                             ELSE separated
             IN AppendText(labelled, comment.value)
           known == identified[M]
           N == Len(person.comments)
           opened == AppendText(known, Text)
           Commented(h) ==
             h = [n \in 0 .. N |-> IF n = 0 THEN opened ELSE AddComment(h[n - 1], n)]
           commented == CHOOSE h : Commented(h)
           described == IF person.comments = <<>> THEN known ELSE AppendText(commented[N], Text)
<1>1. AppendPerson(nodes, person) =
        IF person.roles THEN AppendText(AppendText(AppendText(described, Text), Text), Text)
        ELSE described
  BY DEF AppendPerson
<1>2. /\ person.name \in Scalar /\ M \in Nat /\ person.comments \in Seq(PackageComment)
      /\ "Text" \in LeafKinds /\ "Verb" \in LeafKinds
      /\ ~ person.name.breaks
  BY DEF PackagePerson, LeafKinds, OnOneLine
<1>3. mailed \in Fine
  <2>1. named \in Fine
    BY <1>2, TextIsFine
  <2> HIDE DEF named
  <2>2. Append(AppendText(named, Space), Holding(<<Word("Text")>>)) \in Fine
    BY <1>2, <2>1, WordsAreTexts, LeavesAre, AppendIsFine DEF Finished
  <2> QED
    BY <2>1, <2>2
<1>4. \A r \in Fine : Identity(r) \in Fine
  <2> DEFINE href == Holding(<<Holding(<<Word("Verb")>>), Holding(<<Word("Text")>>)>>)
  <2>1. href \in Whole
    BY <1>2, LeavesAre, PairIsFine, HoldingIsWhole
  <2> HIDE DEF href
  <2> QED
    BY <2>1, WordsAreTexts, AppendIsFine DEF Finished, href
<1>5. N \in Nat /\ \A i \in 1 .. N : /\ person.comments[i].value \in Scalar
                                   /\ person.comments[i].label \in Seq(Scalar)
                                   /\ ~ person.comments[i].value.breaks
                                   /\ \A j \in DOMAIN person.comments[i].label :
                                        ~ person.comments[i].label[j].breaks
  <2>1. N \in Nat /\ DOMAIN person.comments = 1 .. N /\ \A i \in 1 .. N : person.comments[i] \in PackageComment
    BY <1>2, LenProperties, ElementOfSeq
  <2> QED
    BY <2>1 DEF PackageComment, OnOneLine
<1>6. \A r \in Fine, i \in 1 .. N : AddComment(r, i) \in Fine
  <2> SUFFICES ASSUME NEW r \in Fine, NEW i \in 1 .. N PROVE AddComment(r, i) \in Fine
    OBVIOUS
  <2>1. PICK comment : comment = person.comments[i]
    OBVIOUS
  <2>2. /\ comment.value \in Scalar /\ ~ comment.value.breaks /\ comment.label \in Seq(Scalar)
        /\ comment.label # <<>> =>
             comment.label[1] \in Scalar /\ ~ comment.label[1].breaks
    <3>1. comment.label \in Seq(Scalar) /\ \A j \in DOMAIN comment.label : ~ comment.label[j].breaks
      BY <1>5, <2>1
    <3>2. comment.label # <<>> => 1 \in DOMAIN comment.label /\ comment.label[1] \in Scalar
      BY <3>1
    <3> QED
      BY <1>5, <2>1, <3>1, <3>2
  <2> DEFINE separated == IF i > 1 THEN AppendText(r, Text) ELSE r
             labelled == IF comment.label # <<>>
                         THEN AppendText(AppendText(separated, comment.label[1]), Text)
                         ELSE separated
  <2>3. separated \in Fine
    BY WordsAreTexts
  <2> HIDE DEF separated
  <2>4. labelled \in Fine
    BY <2>2, <2>3, TextIsFine, WordsAreTexts
  <2> HIDE DEF labelled
  <2>5. AppendText(labelled, comment.value) \in Fine
    BY <2>2, <2>4, TextIsFine
  <2>6. AddComment(r, i) = AppendText(labelled, comment.value)
    BY <2>1 DEF labelled, separated
  <2> QED
    BY <2>5, <2>6
<1> HIDE DEF M, N, mailed, Identity, AddComment, opened, described
<1>7. known \in Fine
  <2> DEFINE F == [p \in Fine \X (1 .. M) |-> Identity(p[1])]
  <2>1. F \in Steps(Fine, M)
    BY <1>4 DEF Steps
  <2>2. PICK g \in [0 .. M -> Fine] :
          g = [n \in 0 .. M |-> IF n = 0 THEN mailed ELSE F[<<g[n - 1], n>>]]
    <3> HIDE DEF F
    <3>1. \E g : IsLoop(g, M, mailed, F)
      BY <1>2, <1>3, <2>1, LoopExists
    <3> QED
      BY <3>1 DEF IsLoop
  <2>3. Identified(g)
    <3>1. \A n \in 0 .. M : n # 0 => F[<<g[n - 1], n>>] = Identity(g[n - 1])
      <4>1. \A n \in 0 .. M : n # 0 => n - 1 \in 0 .. M /\ n \in 1 .. M
        BY <1>2
      <4>2. \A n \in 0 .. M : g[n] \in Fine
        OBVIOUS
      <4> QED
        BY <4>1, <4>2
    <3> HIDE DEF F
    <3> QED
      BY <2>2, <3>1
  <2>4. Identified(identified)
    BY <2>3
  <2> HIDE DEF identified
  <2>5. identified[0] = mailed /\ \A n \in 1 .. M : identified[n] = Identity(identified[n - 1])
    BY <1>2, <2>4
  <2>6. identified[0] \in Fine /\ \A n \in 1 .. M : identified[n - 1] \in Fine => identified[n] \in Fine
    BY <1>3, <1>4, <2>5
  <2> QED
    BY <1>2, <2>6, LoopStays
<1> HIDE DEF known
<1>8. commented[N] \in Fine
  <2> DEFINE F == [p \in Fine \X (1 .. N) |-> AddComment(p[1], p[2])]
  <2>1. F \in Steps(Fine, N)
    BY <1>6 DEF Steps
  <2>2. opened \in Fine
    BY <1>7, WordsAreTexts DEF opened
  <2>3. PICK g \in [0 .. N -> Fine] :
          g = [n \in 0 .. N |-> IF n = 0 THEN opened ELSE F[<<g[n - 1], n>>]]
    <3> HIDE DEF F
    <3>1. \E g : IsLoop(g, N, opened, F)
      BY <1>5, <2>1, <2>2, LoopExists
    <3> QED
      BY <3>1 DEF IsLoop
  <2>4. Commented(g)
    <3>1. \A n \in 0 .. N : n # 0 => F[<<g[n - 1], n>>] = AddComment(g[n - 1], n)
      <4>1. \A n \in 0 .. N : n # 0 => n - 1 \in 0 .. N /\ n \in 1 .. N
        BY <1>5
      <4>2. \A n \in 0 .. N : g[n] \in Fine
        OBVIOUS
      <4> QED
        BY <4>1, <4>2
    <3> HIDE DEF F
    <3> QED
      BY <2>3, <3>1
  <2>5. Commented(commented)
    BY <2>4
  <2> HIDE DEF commented
  <2>6. commented[0] = opened /\ \A n \in 1 .. N : commented[n] = AddComment(commented[n - 1], n)
    BY <1>5, <2>5
  <2>7. commented[0] \in Fine /\ \A n \in 1 .. N : commented[n - 1] \in Fine => commented[n] \in Fine
    BY <1>6, <2>2, <2>6
  <2> QED
    BY <1>5, <2>7, LoopStays
<1> HIDE DEF commented
<1>9. described \in Fine
  BY <1>7, <1>8, WordsAreTexts DEF described
<1> QED
  BY <1>1, <1>9, WordsAreTexts

\* People one on a line.
PeopleOnOneLine(people) == \A i \in DOMAIN people : OnOneLine(people[i])

LEMMA ItemizeIsWhole ==
  ASSUME NEW people \in Seq(PackagePerson), PeopleOnOneLine(people)
  PROVE  PeopleItemize(people) \in Whole
<1> DEFINE Add(out, person) ==
             AppendNewlines(AppendPerson(AppendText(Append(out, Holding(<<>>)), Space), person),
                            "Text", 1)
           N == Len(people)
           empty == <<>>
           Is(h) == h = [n \in 0 .. N |-> IF n = 0 THEN empty ELSE Add(h[n - 1], people[n])]
           after == CHOOSE h : Is(h)
<1>1. PeopleItemize(people) = Holding(after[N])
  BY DEF PeopleItemize
<1>2. N \in Nat /\ \A i \in 1 .. N : people[i] \in PackagePerson /\ OnOneLine(people[i])
  BY LenProperties, ElementOfSeq DEF PeopleOnOneLine
<1>3. \A r \in Fine, i \in 1 .. N : Add(r, people[i]) \in Fine
  <2> SUFFICES ASSUME NEW r \in Fine, NEW i \in 1 .. N PROVE Add(r, people[i]) \in Fine
    OBVIOUS
  <2>1. "Text" \in LeafKinds
    BY DEF LeafKinds
  <2>2. Append(r, Holding(<<>>)) \in Fine
    BY <2>1, LeavesAre, AppendIsFine DEF Finished
  <2>3. AppendText(Append(r, Holding(<<>>)), Space) \in Fine
    BY <2>2, WordsAreTexts
  <2>4. AppendPerson(AppendText(Append(r, Holding(<<>>)), Space), people[i]) \in Fine
    BY <1>2, <2>3, PersonIsFine
  <2> QED
    BY <2>1, <2>4, NewlinesAreFine
<1> HIDE DEF N, Add, empty
<1>4. after[N] \in Fine
  <2> DEFINE F == [p \in Fine \X (1 .. N) |-> Add(p[1], people[p[2]])]
  <2>1. F \in Steps(Fine, N)
    BY <1>3 DEF Steps
  <2>2. empty \in Fine
    BY EmptyIsFine DEF Finished, empty
  <2>3. PICK g \in [0 .. N -> Fine] :
          g = [n \in 0 .. N |-> IF n = 0 THEN empty ELSE F[<<g[n - 1], n>>]]
    <3> HIDE DEF F
    <3>1. \E g : IsLoop(g, N, empty, F)
      BY <1>2, <2>1, <2>2, LoopExists
    <3> QED
      BY <3>1 DEF IsLoop
  <2>4. Is(g)
    <3>1. \A n \in 0 .. N : n # 0 => F[<<g[n - 1], n>>] = Add(g[n - 1], people[n])
      <4>1. \A n \in 0 .. N : n # 0 => n - 1 \in 0 .. N /\ n \in 1 .. N
        BY <1>2
      <4>2. \A n \in 0 .. N : g[n] \in Fine
        OBVIOUS
      <4> QED
        BY <4>1, <4>2
    <3> HIDE DEF F
    <3> QED
      BY <2>3, <3>1
  <2>5. Is(after)
    BY <2>4
  <2> HIDE DEF after
  <2>6. after[0] = empty /\ \A n \in 1 .. N : after[n] = Add(after[n - 1], people[n])
    BY <1>2, <2>5
  <2>7. after[0] \in Fine /\ \A n \in 1 .. N : after[n - 1] \in Fine => after[n] \in Fine
    BY <1>3, <2>2, <2>6
  <2> QED
    BY <1>2, <2>7, LoopStays
<1> QED
  BY <1>1, <1>4, HoldingIsWhole

LEMMA PeopleAreFine ==
  ASSUME NEW out \in Fine, NEW people \in Seq(PackagePerson), PeopleOnOneLine(people)
  PROVE  PeopleSection(out, people) \in Fine
<1> DEFINE lines == AppendNewlines(out, "Text", 2)
<1>1. lines \in Finished
  <2>1. "Text" \in LeafKinds
    BY DEF LeafKinds
  <2> QED
    BY <2>1, NewlinesAreFine
<1> HIDE DEF lines
<1>2. lines \in Fine /\ ~ OpenLeaf(lines, "Text")
  BY <1>1 DEF Finished, OpenLeaf, Last, Closed
<1>3. AppendText(lines, TextLine) \in Fine
  BY <1>2, WordsAreTexts, TextIsFine
<1>4. Append(AppendText(lines, TextLine), PeopleItemize(people)) \in Fine
  BY <1>3, ItemizeIsWhole, AppendIsFine DEF Finished
<1> QED
  BY <1>4 DEF PeopleSection, lines

\* The author section of the package topic.
AuthorsOnOneLine(author) ==
  /\ PeopleOnOneLine(author.maintainers)
  /\ PeopleOnOneLine(author.authors)
  /\ PeopleOnOneLine(author.others)

LEMMA AuthorIsWhole ==
  ASSUME NEW author \in PackageAuthor, AuthorsOnOneLine(author)
  PROVE  AuthorSection(author) \in Whole
<1> DEFINE Add(out, i) ==
             AppendPerson(IF i > 1 THEN AppendText(out, Text) ELSE out, author.maintainers[i])
           N == Len(author.maintainers)
           opened == AppendText(<<Holding(<<Word("Text")>>)>>, Text)
           Is(h) == h = [n \in 0 .. N |-> IF n = 0 THEN opened ELSE Add(h[n - 1], n)]
           after == CHOOSE h : Is(h)
           maintained == IF author.maintainers = <<>> THEN <<>>
                         ELSE AppendNewlines(after[N], "Text", 2)
<1>1. AuthorSection(author) =
        Spaced(PeopleSection(PeopleSection(maintained, author.authors), author.others), "Text")
  BY DEF AuthorSection
<1>2. /\ author.maintainers \in Seq(PackagePerson) /\ author.authors \in Seq(PackagePerson)
      /\ author.others \in Seq(PackagePerson)
      /\ PeopleOnOneLine(author.maintainers) /\ PeopleOnOneLine(author.authors)
      /\ PeopleOnOneLine(author.others)
      /\ "Text" \in LeafKinds
  BY DEF PackageAuthor, AuthorsOnOneLine, LeafKinds
<1>3. N \in Nat /\ \A i \in 1 .. N : /\ author.maintainers[i] \in PackagePerson
                                   /\ OnOneLine(author.maintainers[i])
  <2>1. N \in Nat /\ DOMAIN author.maintainers = 1 .. N
        /\ \A i \in 1 .. N : author.maintainers[i] \in PackagePerson
    BY <1>2, LenProperties, ElementOfSeq
  <2> QED
    BY <1>2, <2>1 DEF PeopleOnOneLine
<1>4. \A r \in Fine, i \in 1 .. N : Add(r, i) \in Fine
  BY <1>3, WordsAreTexts, PersonIsFine
<1> HIDE DEF N, Add, opened
<1>5. after[N] \in Fine
  <2> DEFINE F == [p \in Fine \X (1 .. N) |-> Add(p[1], p[2])]
  <2>1. F \in Steps(Fine, N)
    BY <1>4 DEF Steps
  <2>2. opened \in Fine
    BY <1>2, LeavesAre, HoldingIsWhole, WordsAreTexts DEF opened, Finished
  <2>3. PICK g \in [0 .. N -> Fine] :
          g = [n \in 0 .. N |-> IF n = 0 THEN opened ELSE F[<<g[n - 1], n>>]]
    <3> HIDE DEF F
    <3>1. \E g : IsLoop(g, N, opened, F)
      BY <1>3, <2>1, <2>2, LoopExists
    <3> QED
      BY <3>1 DEF IsLoop
  <2>4. Is(g)
    <3>1. \A n \in 0 .. N : n # 0 => F[<<g[n - 1], n>>] = Add(g[n - 1], n)
      <4>1. \A n \in 0 .. N : n # 0 => n - 1 \in 0 .. N /\ n \in 1 .. N
        BY <1>3
      <4>2. \A n \in 0 .. N : g[n] \in Fine
        OBVIOUS
      <4> QED
        BY <4>1, <4>2
    <3> HIDE DEF F
    <3> QED
      BY <2>3, <3>1
  <2>5. Is(after)
    BY <2>4
  <2> HIDE DEF after
  <2>6. after[0] = opened /\ \A n \in 1 .. N : after[n] = Add(after[n - 1], n)
    BY <1>3, <2>5
  <2>7. after[0] \in Fine /\ \A n \in 1 .. N : after[n - 1] \in Fine => after[n] \in Fine
    BY <1>4, <2>2, <2>6
  <2> QED
    BY <1>3, <2>7, LoopStays
<1> HIDE DEF after
<1>6. maintained \in Fine
  BY <1>2, <1>5, NewlinesAreFine, EmptyIsFine DEF Finished
<1> HIDE DEF maintained
<1> QED
  BY <1>1, <1>2, <1>6, PeopleAreFine, SpacedIsWhole

-----------------------------------------------------------------------------
(* What is converted *)

\* What is in two lists is in the one they make.
LEMMA RangeJoins ==
  ASSUME NEW S, NEW s \in Seq(S), NEW t \in Seq(S)
  PROVE  /\ s \o t \in Seq(S)
         /\ Range(s) \subseteq Range(s \o t) /\ Range(t) \subseteq Range(s \o t)
<1>1. /\ Len(s) \in Nat /\ Len(t) \in Nat /\ DOMAIN s = 1 .. Len(s) /\ DOMAIN t = 1 .. Len(t)
      /\ s \o t \in Seq(S) /\ Len(s \o t) = Len(s) + Len(t)
      /\ DOMAIN (s \o t) = 1 .. Len(s) + Len(t)
  OBVIOUS
<1>2. \A i \in 1 .. Len(s) + Len(t) :
        (s \o t)[i] = IF i <= Len(s) THEN s[i] ELSE t[i - Len(s)]
  OBVIOUS
<1>3. ASSUME NEW i \in DOMAIN s PROVE s[i] \in Range(s \o t)
  <2>1. i \in 1 .. Len(s) + Len(t) /\ i <= Len(s)
    BY <1>1
  <2>2. i \in DOMAIN (s \o t) /\ (s \o t)[i] = s[i]
    BY <1>1, <1>2, <2>1
  <2> QED
    BY <2>2 DEF Range
<1>4. ASSUME NEW i \in DOMAIN t PROVE t[i] \in Range(s \o t)
  <2>1. PICK n \in Nat : n = Len(s) + i
    BY <1>1
  <2>2. n \in 1 .. Len(s) + Len(t) /\ ~ (n <= Len(s)) /\ n - Len(s) = i
    BY <1>1, <2>1
  <2>3. n \in DOMAIN (s \o t) /\ (s \o t)[n] = t[i]
    BY <1>1, <1>2, <2>2
  <2> QED
    BY <2>3 DEF Range
<1> QED
  BY <1>1, <1>3, <1>4 DEF Range

\* What is in one of many lists is in the one they make.
LEMMA RangeFlattens ==
  ASSUME NEW S, NEW ss \in Seq(Seq(S))
  PROVE  /\ FlattenSeq(ss) \in Seq(S)
         /\ \A i \in DOMAIN ss : Range(ss[i]) \subseteq Range(FlattenSeq(ss))
<1> DEFINE N == Len(ss)
           Is(h) == h = [i \in 1 .. N |-> IF i = 1 THEN ss[i] ELSE h[i - 1] \o ss[i]]
           a == CHOOSE h : Is(h)
           F == [p \in Seq(S) \X (1 .. N) |-> p[1] \o ss[p[2]]]
           empty == <<>>
<1>1. N \in Nat /\ DOMAIN ss = 1 .. N /\ \A n \in 1 .. N : ss[n] \in Seq(S)
  BY LenProperties, ElementOfSeq
<1>2. FlattenSeq(ss) = IF N = 0 THEN ss ELSE a[N]
  BY DEF FlattenSeq
<1>3. N = 0 => ss = <<>> /\ ss \in Seq(S)
  OBVIOUS
<1> HIDE DEF N
<1>4. F \in Steps(Seq(S), N)
  BY <1>1 DEF Steps
<1>5. empty \in Seq(S) /\ \A s \in Seq(S) : empty \o s = s
  OBVIOUS
<1> HIDE DEF empty
<1>6. PICK g : IsFold(g, Seq(S), N, empty, F)
  <2> HIDE DEF F
  <2> QED
    BY <1>1, <1>4, <1>5, FoldExists
<1>7. /\ g \in [0 .. N -> Seq(S)] /\ g[0] = empty
      /\ \A n \in 1 .. N : g[n] = g[n - 1] \o ss[n]
  <2>1. g \in [0 .. N -> Seq(S)] /\ g[0] = empty /\ \A n \in 1 .. N : g[n] = F[<<g[n - 1], n>>]
    <3> HIDE DEF F
    <3> QED
      BY <1>6 DEF IsFold
  <2>2. \A n \in 1 .. N : n - 1 \in 0 .. N
    BY <1>1
  <2> QED
    BY <2>1, <2>2
<1> DEFINE f == [i \in 1 .. N |-> g[i]]
<1>8. Is(f)
  <2>1. ASSUME NEW i \in 1 .. N PROVE g[i] = IF i = 1 THEN ss[i] ELSE f[i - 1] \o ss[i]
    <3>1. CASE i = 1
      <4>1. 1 \in 1 .. N /\ 1 - 1 = 0
        BY <3>1
      <4>2. g[1] = empty \o ss[1]
        BY <1>7, <4>1
      <4>3. empty \o ss[1] = ss[1]
        BY <1>1, <1>5, <4>1
      <4> QED
        BY <3>1, <4>2, <4>3
    <3>2. CASE i # 1
      <4>1. i - 1 \in 1 .. N
        BY <1>1, <3>2
      <4> QED
        BY <1>7, <3>2, <4>1
    <3> QED
      BY <3>1, <3>2
  <2> QED
    BY <2>1
<1>9. Is(a)
  <2> HIDE DEF f
  <2> QED
    BY <1>8
<1> HIDE DEF a, f
<1> DEFINE Has(n) == a[n] \in Seq(S) /\ \A i \in 1 .. n : Range(ss[i]) \subseteq Range(a[n])
           K == {n \in 0 .. N : n # 0 => Has(n)}
<1>10. ASSUME NEW n \in 1 .. N, n - 1 \in K PROVE n \in K
  <2>1. a[n] = IF n = 1 THEN ss[n] ELSE a[n - 1] \o ss[n]
    BY <1>9
  <2>2. CASE n = 1
    <3>1. a[n] = ss[n] /\ a[n] \in Seq(S)
      BY <1>1, <2>1, <2>2
    <3>2. ASSUME NEW i \in 1 .. n PROVE Range(ss[i]) \subseteq Range(a[n])
      <4>1. i = n
        BY <2>2
      <4> QED
        BY <3>1, <4>1
    <3> QED
      BY <3>1, <3>2
  <2>3. CASE n # 1
    <3>1. n - 1 # 0 /\ Has(n - 1)
      BY <1>10, <2>3
    <3>2. /\ a[n - 1] \o ss[n] \in Seq(S)
          /\ Range(a[n - 1]) \subseteq Range(a[n - 1] \o ss[n])
          /\ Range(ss[n]) \subseteq Range(a[n - 1] \o ss[n])
      BY <1>1, <3>1, RangeJoins
    <3>3. a[n] = a[n - 1] \o ss[n]
      BY <2>1, <2>3
    <3>4. ASSUME NEW i \in 1 .. n PROVE Range(ss[i]) \subseteq Range(a[n])
      <4>1. CASE i = n
        BY <3>2, <3>3, <4>1
      <4>2. CASE i # n
        <5>1. i \in 1 .. n - 1
          BY <4>2
        <5>2. Range(ss[i]) \subseteq Range(a[n - 1])
          BY <3>1, <5>1
        <5> QED
          BY <3>2, <3>3, <5>2
      <4> QED
        BY <4>1, <4>2
    <3>5. a[n] \in Seq(S)
      BY <3>2, <3>3
    <3> QED
      BY <3>4, <3>5
  <2> QED
    BY <2>2, <2>3
<1> HIDE DEF Has
<1>11. \A n \in 0 .. N : n \in K
  <2>1. 0 \in K
    BY <1>1
  <2>2. \A n \in 1 .. N : n - 1 \in K => n \in K
    BY <1>10
  <2> HIDE DEF K
  <2> QED
    BY <1>1, <2>1, <2>2, UpToBound, Zenon
<1>12. CASE N = 0
  <2>1. DOMAIN ss = {} /\ FlattenSeq(ss) = ss
    BY <1>1, <1>2, <1>12
  <2> QED
    BY <1>3, <1>12, <2>1
<1>13. CASE N # 0
  <2>1. N \in K
    <3> HIDE DEF K
    <3> QED
      BY <1>1, <1>11
  <2>2. FlattenSeq(ss) = a[N]
    BY <1>2, <1>13
  <2> QED
    BY <1>1, <1>13, <2>1, <2>2 DEF Has
<1> QED
  BY <1>12, <1>13

\* The fields of a topic.
RichFields(t) ==
  {t.title, t.format, t.source, t.value, t.description, t.details, t.note, t.references,
   t.seeAlso, t.author}
LEMMA TopicFields ==
  ASSUME NEW t \in RdTopic
  PROVE  /\ \A field \in RichFields(t) : field \in Seq(RichText)
         /\ t.examples \in Seq(Content)
         /\ t.params \in Seq([names : Seq(Node), content : RichText])
         /\ t.sections \in Seq([title : RichText, body : RichText])
         /\ t.usages \in Seq(UsageContribution) /\ t.reexports \in Seq(Nat \ {0})
         /\ t.aliases \in Nat /\ t.keywords \in Nat
         /\ t.packageAuthor \in Seq(PackageAuthor)
         /\ t.packageSeeAlso \in Seq([urls : Nat, bugs : BOOLEAN])
<1>1. \A S : Optional(S) \subseteq Seq(S)
  BY DEF Optional
<1> HIDE DEF Optional, Content, RichText
<1> QED
  BY <1>1 DEF RdTopic, RichFields

LEMMA RichIsContent ==
  /\ RichText \subseteq Content
  /\ \A s \in Seq(RichText) : s \in Seq(Content)
<1>1. RichText \subseteq Content
  BY DEF RichText
<1>2. \A s \in Seq(RichText) : s \in Seq(Content)
  <2> HIDE DEF RichText
  <2> QED
    BY <1>1, SeqDef
<1> QED
  BY <1>1, <1>2

\* What is shown of a topic is converted.
LEMMA FieldsAreConverted ==
  ASSUME NEW t \in RdTopic
  PROVE  /\ ContentsOf(t) \subseteq Content
         /\ \A field \in RichFields(t) \cup {t.examples} : Range(field) \subseteq ContentsOf(t)
         /\ \A i \in DOMAIN t.params : t.params[i].content \in ContentsOf(t)
         /\ \A i \in DOMAIN t.sections : /\ t.sections[i].title \in ContentsOf(t)
                                       /\ t.sections[i].body \in ContentsOf(t)
<1> DEFINE params == [i \in DOMAIN t.params |-> t.params[i].content]
           pairs == [i \in DOMAIN t.sections |-> <<t.sections[i].title, t.sections[i].body>>]
           sections == FlattenSeq(pairs)
           c1 == t.title \o t.format
           c2 == c1 \o t.source
           c3 == c2 \o params
           c4 == c3 \o t.value
           c5 == c4 \o t.description
           c6 == c5 \o t.details
           c7 == c6 \o t.note
           c8 == c7 \o sections
           c9 == c8 \o t.examples
           c10 == c9 \o t.references
           c11 == c10 \o t.seeAlso
           c12 == c11 \o t.author
<1>1. Converted(t) = c12
  BY DEF Converted
<1>2. /\ t.title \in Seq(Content) /\ t.examples \in Seq(Content)
      /\ \A field \in RichFields(t) : field \in Seq(Content)
  BY TopicFields, RichIsContent DEF RichFields
<1>3. params \in Seq(Content) /\ \A i \in DOMAIN t.params : t.params[i].content \in Range(params)
  <2>1. \A i \in DOMAIN t.params : t.params[i] \in [names : Seq(Node), content : RichText]
    <3>1. t.params \in Seq([names : Seq(Node), content : RichText])
      BY TopicFields
    <3> QED
      BY <3>1, ElementOfSeq, LenProperties
  <2>2. \A i \in DOMAIN t.params : t.params[i].content \in Content
    BY <2>1, RichIsContent
  <2>3. DOMAIN t.params = 1 .. Len(t.params) /\ Len(t.params) \in Nat
    BY TopicFields, LenProperties
  <2>4. params \in Seq(Content)
    BY <2>2, <2>3
  <2> QED
    BY <2>4 DEF Range
<1>4. pairs \in Seq(Seq(Content))
      /\ \A i \in DOMAIN t.sections : /\ t.sections[i].title \in Range(pairs[i])
                                    /\ t.sections[i].body \in Range(pairs[i])
  <2>1. \A i \in DOMAIN t.sections : t.sections[i] \in [title : RichText, body : RichText]
    <3>1. t.sections \in Seq([title : RichText, body : RichText])
      BY TopicFields
    <3> QED
      BY <3>1, ElementOfSeq, LenProperties
  <2>2. \A i \in DOMAIN t.sections : t.sections[i].title \in Content /\ t.sections[i].body \in Content
    BY <2>1, RichIsContent
  <2>3. DOMAIN t.sections = 1 .. Len(t.sections) /\ Len(t.sections) \in Nat
    BY TopicFields, LenProperties
  <2>4. \A a, b \in Content : <<a, b>> \in Seq(Content)
    OBVIOUS
  <2>5. pairs \in Seq(Seq(Content))
    BY <2>2, <2>3, <2>4
  <2>6. ASSUME NEW i \in DOMAIN t.sections
        PROVE  t.sections[i].title \in Range(pairs[i]) /\ t.sections[i].body \in Range(pairs[i])
    <3>1. PICK q : q = <<t.sections[i].title, t.sections[i].body>>
      OBVIOUS
    <3>2. pairs[i] = q
      BY <3>1
    <3>3. 1 \in DOMAIN q /\ q[1] = t.sections[i].title /\ 2 \in DOMAIN q /\ q[2] = t.sections[i].body
      BY <3>1
    <3> QED
      BY <3>2, <3>3 DEF Range
  <2> QED
    BY <2>5, <2>6
<1>5. /\ sections \in Seq(Content)
      /\ \A i \in DOMAIN t.sections : /\ t.sections[i].title \in Range(sections)
                                    /\ t.sections[i].body \in Range(sections)
  <2>1. DOMAIN pairs = DOMAIN t.sections
    OBVIOUS
  <2> HIDE DEF pairs
  <2>2. /\ FlattenSeq(pairs) \in Seq(Content)
        /\ \A i \in DOMAIN pairs : Range(pairs[i]) \subseteq Range(FlattenSeq(pairs))
    BY <1>4, RangeFlattens
  <2> QED
    BY <1>4, <2>1, <2>2
<1> HIDE DEF params, sections, pairs, Content
<1>6. c1 \in Seq(Content) /\ Range(t.title) \subseteq Range(c1) /\ Range(t.format) \subseteq Range(c1)
  BY <1>2, RangeJoins DEF RichFields
<1> HIDE DEF c1
<1>7. c2 \in Seq(Content) /\ Range(c1) \subseteq Range(c2) /\ Range(t.source) \subseteq Range(c2)
  BY <1>6, <1>2, RangeJoins DEF RichFields
<1> HIDE DEF c2
<1>8. c3 \in Seq(Content) /\ Range(c2) \subseteq Range(c3) /\ Range(params) \subseteq Range(c3)
  BY <1>7, <1>3, RangeJoins
<1> HIDE DEF c3
<1>9. c4 \in Seq(Content) /\ Range(c3) \subseteq Range(c4) /\ Range(t.value) \subseteq Range(c4)
  BY <1>8, <1>2, RangeJoins DEF RichFields
<1> HIDE DEF c4
<1>10. c5 \in Seq(Content) /\ Range(c4) \subseteq Range(c5) /\ Range(t.description) \subseteq Range(c5)
  BY <1>9, <1>2, RangeJoins DEF RichFields
<1> HIDE DEF c5
<1>11. c6 \in Seq(Content) /\ Range(c5) \subseteq Range(c6) /\ Range(t.details) \subseteq Range(c6)
  BY <1>10, <1>2, RangeJoins DEF RichFields
<1> HIDE DEF c6
<1>12. c7 \in Seq(Content) /\ Range(c6) \subseteq Range(c7) /\ Range(t.note) \subseteq Range(c7)
  BY <1>11, <1>2, RangeJoins DEF RichFields
<1> HIDE DEF c7
<1>13. c8 \in Seq(Content) /\ Range(c7) \subseteq Range(c8) /\ Range(sections) \subseteq Range(c8)
  BY <1>12, <1>5, RangeJoins
<1> HIDE DEF c8
<1>14. c9 \in Seq(Content) /\ Range(c8) \subseteq Range(c9) /\ Range(t.examples) \subseteq Range(c9)
  BY <1>13, <1>2, RangeJoins DEF RichFields
<1> HIDE DEF c9
<1>15. c10 \in Seq(Content) /\ Range(c9) \subseteq Range(c10) /\ Range(t.references) \subseteq Range(c10)
  BY <1>14, <1>2, RangeJoins DEF RichFields
<1> HIDE DEF c10
<1>16. c11 \in Seq(Content) /\ Range(c10) \subseteq Range(c11) /\ Range(t.seeAlso) \subseteq Range(c11)
  BY <1>15, <1>2, RangeJoins DEF RichFields
<1> HIDE DEF c11
<1>17. c12 \in Seq(Content) /\ Range(c11) \subseteq Range(c12) /\ Range(t.author) \subseteq Range(c12)
  BY <1>16, <1>2, RangeJoins DEF RichFields
<1> HIDE DEF c12
<1>18. ContentsOf(t) = Range(c12)
  BY <1>1 DEF ContentsOf, Range
<1>19. Range(c12) \subseteq Content
  <2> HIDE DEF c12
  <2> QED
    BY <1>17, ElementOfSeq, LenProperties DEF Range
<1> QED
  BY <1>3, <1>5, <1>6, <1>7, <1>8, <1>9, <1>10, <1>11, <1>12, <1>13, <1>14, <1>15, <1>16, <1>17, <1>18, <1>19 DEF RichFields

\* The writer takes every content and every list of names.
ContentsAreFine(t) ==
  /\ \A c \in ContentsOf(t) : c.form # "Examples" => c.nodes \in Fine
  /\ \A i \in DOMAIN t.params : t.params[i].names \in Fine

LEMMA FieldIsWhole ==
  ASSUME NEW t \in RdTopic, ContentsAreFine(t), NEW field \in RichFields(t)
  PROVE  /\ Field(field) \in Seq(Whole)
         /\ \A i \in DOMAIN field : /\ field[i].nodes \in Fine
                                  /\ Spaced(Trimmed(field[i]), "Text") \in Whole
<1>1. "Text" \in LeafKinds /\ "RCode" \in LeafKinds /\ "Verb" \in LeafKinds
  BY DEF LeafKinds
<1>2. field \in Seq(RichText) /\ DOMAIN field = 1 .. Len(field) /\ Len(field) \in Nat
  BY TopicFields, LenProperties
<1>3. ASSUME NEW i \in DOMAIN field PROVE field[i].nodes \in Fine
  <2>1. field[i] \in ContentsOf(t)
    BY FieldsAreConverted DEF Range
  <2>2. field[i] \in RichText
    BY <1>2, ElementOfSeq
  <2> QED
    BY <2>1, <2>2 DEF ContentsAreFine, RichText
<1>4. \A i \in DOMAIN field : Trimmed(field[i]) \in Fine
  BY <1>3, TrimIsFine DEF Trimmed
<1>5. \A i \in DOMAIN field : Spaced(Trimmed(field[i]), "Text") \in Whole
  BY <1>1, <1>4, SpacedIsWhole
<1>6. Field(field) \in Seq(Whole)
  BY <1>2, <1>5 DEF Field
<1> QED
  BY <1>3, <1>5, <1>6

\* Sections, one after the other.
LEMMA SectionsAreFinished ==
  ASSUME NEW nodes \in Seq(Whole), NEW named \in BOOLEAN
  PROVE  FlattenSeq([i \in DOMAIN nodes |-> Placed(nodes[i], named)]) \in Finished
<1> DEFINE placed == [i \in DOMAIN nodes |-> Placed(nodes[i], named)]
<1>1. DOMAIN nodes = 1 .. Len(nodes) /\ Len(nodes) \in Nat
      /\ \A i \in DOMAIN nodes : nodes[i] \in Whole
  BY LenProperties, ElementOfSeq
<1>2. placed \in Seq(Finished)
  BY <1>1, PlacedIsFinished
<1> HIDE DEF placed
<1>3. FlattenSeq(placed) \in Finished
  BY <1>2, FlattenIsFinished
<1> QED
  BY <1>3 DEF placed

-----------------------------------------------------------------------------
(* Examples *)

\* What lower_rlike gives, and what a turn of it is about: where the literal
\* begins, where the scan is, where the region ends.
LeafRange == [tag : {"RCode", "Verb"}, from : Nat, to : Nat]
IssueRange == [as : {"Unsupported", "Unterminated"}, from : Nat, to : Nat]
Lowered == [nodes : Fine, leaves : SUBSET LeafRange, issues : SUBSET IssueRange]
Turns == Nat \X Nat \X Nat
\* What is left to scan.
Left == [turn \in Turns |-> IF turn[2] <= turn[3] THEN turn[3] - turn[2] ELSE 0]

OnePiece(done, tag, from, to) ==
  /\ from < to => done.leaves = {[tag |-> tag, from |-> from, to |-> to]}
  /\ ~ (from < to) => done.leaves = {}
LEMMA PieceIsLowered ==
  ASSUME NEW source, NEW tag \in {"RCode", "Verb"}, NEW from \in Nat, NEW to \in Nat
  PROVE  /\ Piece(source, tag, from, to) \in Lowered
         /\ OnePiece(Piece(source, tag, from, to), tag, from, to)
<1> DEFINE breaks == FirstAt(source, "nl", from, to)
           newlines == Cardinality(breaks)
           ends == source[to - 1] = "nl"
           text == [lines |-> IF ends THEN newlines ELSE newlines + 1, ends |-> ends]
<1>1. Piece(source, tag, from, to) =
        IF from < to
        THEN [nodes |-> Lines(tag, text), issues |-> {},
              leaves |-> {[tag |-> tag, from |-> from, to |-> to]}]
        ELSE [nodes |-> <<>>, issues |-> {}, leaves |-> {}]
  BY DEF Piece
<1>2. newlines \in Nat
  <2>1. IsFiniteSet(from .. to - 1)
    BY FS_Interval
  <2>2. breaks \subseteq from .. to - 1
    BY DEF FirstAt
  <2>3. IsFiniteSet(breaks)
    BY <2>1, <2>2, FS_Subset
  <2> QED
    BY <2>3, FS_CardinalityType
<1> HIDE DEF newlines
<1>3. text \in RCodeText
  <2>1. ends \in BOOLEAN
    OBVIOUS
  <2> HIDE DEF ends
  <2> QED
    BY <1>2, <2>1 DEF RCodeText
<1> HIDE DEF text
<1>4. Lines(tag, text) \in Fine
  BY <1>3, LinesAreFine DEF LeafKinds
<1>5. <<>> \in Fine
  BY EmptyIsFine DEF Finished
<1>6. [tag |-> tag, from |-> from, to |-> to] \in LeafRange
  BY DEF LeafRange
<1> QED
  BY <1>1, <1>4, <1>5, <1>6 DEF Lowered, OnePiece

\* What a backslash of the region begins.
Candidates ==
  [as : {"Unsupported", "Unterminated", "Supported"}, to : Nat, open : Nat]

\* How many of a token there are from open to j.
Count(source, t, open, j) == Cardinality(FirstAt(source, t, open, j + 1))

LEMMA ClosesAre ==
  ASSUME NEW source, NEW open \in Nat, NEW end \in Nat
  PROVE  /\ Close(source, open, end) \in Nat
         /\ Close(source, open, end) # 0 =>
              /\ open < Close(source, open, end) /\ Close(source, open, end) <= end
              /\ source[open] = Opening => source[Close(source, open, end) - 1] \in {Opening, Closing}
         /\ OptionClose(source, open, end) \in Nat
         /\ OptionClose(source, open, end) # 0 =>
              open < OptionClose(source, open, end) /\ OptionClose(source, open, end) <= end
<1>1. \A S \in SUBSET Nat : S # {} => Least(S) \in S /\ \A j \in S : Least(S) <= j
  <2> SUFFICES ASSUME NEW S \in SUBSET Nat, S # {} PROVE Least(S) \in S /\ \A j \in S : Least(S) <= j
    OBVIOUS
  <2>1. \E i \in S : \A j \in S : i <= j
    BY LeastExists
  <2> QED
    BY <2>1 DEF Least
<1>2. /\ Close(source, open, end) \in Nat
      /\ Close(source, open, end) # 0 =>
           /\ open < Close(source, open, end) /\ Close(source, open, end) <= end
           /\ source[open] = Opening => source[Close(source, open, end) - 1] \in {Opening, Closing}
  <2> DEFINE balanced(j) == Count(source, Opening, open, j) = Count(source, Closing, open, j)
             closes == {j \in open .. end - 1 : balanced(j)}
  <2>1. Close(source, open, end) = IF closes = {} THEN 0 ELSE Least(closes) + 1
    BY DEF Close, Count
  <2>2. /\ \A j \in closes : j \in Nat /\ open <= j /\ j <= end - 1
        /\ \A j \in closes : balanced(j)
        /\ \A j \in open .. end - 1 : balanced(j) => j \in closes
    OBVIOUS
  <2> HIDE DEF closes
  <2>4. closes \in SUBSET Nat
    BY <2>2
  <2>5. CASE closes = {}
    BY <2>1, <2>5
  <2>6. CASE closes # {}
    <3>1. PICK least \in closes : least = Least(closes) /\ \A j \in closes : least <= j
      BY <1>1, <2>4, <2>6
    <3>2. least \in Nat /\ open <= least /\ least <= end - 1
      BY <2>2
    <3>2a. balanced(least)
      BY <2>2
    <3>3. Close(source, open, end) = least + 1
      BY <2>1, <2>6, <3>1
    <3>4. ASSUME source[open] = Opening PROVE source[least] \in {Opening, Closing}
      <4> SUFFICES ASSUME source[least] \notin {Opening, Closing} PROVE FALSE
        OBVIOUS
      <4>1. PICK before \in Nat : before = least - 1 /\ before \in open .. end - 1
        BY <3>2, <3>4
      <4>2. \A t \in {Opening, Closing} :
              FirstAt(source, t, open, least + 1) = FirstAt(source, t, open, before + 1)
        <5> SUFFICES ASSUME NEW t \in {Opening, Closing}
                     PROVE  FirstAt(source, t, open, least + 1) = FirstAt(source, t, open, before + 1)
          OBVIOUS
        <5>1. \A i \in open .. least : source[i] = t => i \in open .. before
          BY <3>2, <4>1
        <5>2. least + 1 - 1 = least /\ before + 1 - 1 = before /\ before <= least
          BY <3>2, <4>1
        <5> QED
          BY <3>2, <4>1, <5>1, <5>2 DEF FirstAt
      <4>3. balanced(before)
        BY <3>2a, <4>2 DEF Count
      <4>4. before \in closes
        BY <2>2, <4>1, <4>3
      <4>5. least <= before
        BY <3>1, <4>4
      <4> QED
        BY <3>2, <4>1, <4>5
    <3>5. open < least + 1 /\ least + 1 <= end /\ (least + 1) - 1 = least
      BY <3>2
    <3> QED
      BY <3>2, <3>3, <3>4, <3>5
  <2> QED
    BY <2>5, <2>6
<1>3. /\ OptionClose(source, open, end) \in Nat
      /\ OptionClose(source, open, end) # 0 =>
           open < OptionClose(source, open, end) /\ OptionClose(source, open, end) <= end
  <2> DEFINE escaped(i) ==
               LET run == {k \in open + 1 .. i - 1 :
                             \A j \in k .. i - 1 : source[j] \in {"\\", "text\\"}}
               IN Cardinality(run) % 2 = 1
             closes == {i \in FirstAt(source, "]", open + 1, end) : ~ escaped(i)}
  <2>1. OptionClose(source, open, end) = IF closes = {} THEN 0 ELSE Least(closes) + 1
    BY DEF OptionClose
  <2> HIDE DEF escaped
  <2>2. \A i \in closes : i \in Nat /\ open + 1 <= i /\ i <= end - 1
    BY DEF FirstAt
  <2> HIDE DEF closes
  <2>3. CASE closes = {}
    BY <2>1, <2>3
  <2>4. CASE closes # {}
    <3>1. closes \in SUBSET Nat
      BY <2>2
    <3>2. PICK least \in closes : least = Least(closes)
      BY <1>1, <2>4, <3>1
    <3>3. OptionClose(source, open, end) = least + 1 /\ least \in Nat /\ open + 1 <= least
          /\ least <= end - 1
      BY <2>1, <2>2, <2>4, <3>2
    <3> QED
      BY <3>3
  <2> QED
    BY <2>3, <2>4
<1> QED
  BY <1>2, <1>3

MayBegin(source, start, end, found) ==
  /\ found \in Candidates
  /\ start < found.to
  /\ found.as = "Unsupported" => found.to <= end
  /\ found.as = "Unterminated" => Token(source, found.to - 1) = Opening
  /\ found.as = "Supported" =>
       /\ found.open = start + 2 /\ found.open < found.to /\ found.to <= end
       /\ source[start + 1] \in Supported /\ source[found.open] = Opening
       /\ source[found.to - 1] \in {Opening, Closing}
LEMMA CandidateIs ==
  ASSUME NEW source, NEW start \in Nat, NEW end \in Nat, start < end
  PROVE  MayBegin(source, start, end, Candidate(source, start, end))
<1> SUFFICES ASSUME NEW found, found = Candidate(source, start, end)
             PROVE  MayBegin(source, start, end, found)
  OBVIOUS
<1> USE DEF MayBegin
<1> DEFINE named == start + 1 < end /\ source[start + 1] \in MacroNames
           name == source[start + 1]
           option == start + 2 < end + 1 /\ Token(source, start + 2) = "["
           optionEnd == OptionClose(source, start + 2, end)
           open == IF option THEN optionEnd ELSE start + 2
           close == Close(source, open, end)
           known == named /\ ~ option /\ name \in Supported
           unsupported(to, from) == [as |-> "Unsupported", to |-> to, open |-> from]
<1>1. found =
        IF ~ named THEN unsupported(start + 1, 0)
        ELSE IF option /\ optionEnd = 0 THEN unsupported(end, 0)
        ELSE IF Token(source, open) # Opening THEN unsupported(open, 0)
        ELSE IF known /\ close # 0 THEN [as |-> "Supported", to |-> close, open |-> open]
        ELSE IF known THEN [as |-> "Unterminated", to |-> open + 1, open |-> open]
        ELSE unsupported(IF close = 0 THEN end ELSE close, open)
  BY DEF Candidate
<1>2. optionEnd \in Nat /\ (optionEnd # 0 => start + 2 < optionEnd /\ optionEnd <= end)
  <2>1. PICK o \in Nat : o = start + 2
    OBVIOUS
  <2>2. /\ OptionClose(source, o, end) \in Nat
        /\ OptionClose(source, o, end) # 0 =>
             o < OptionClose(source, o, end) /\ OptionClose(source, o, end) <= end
    BY ClosesAre
  <2> QED
    BY <2>1, <2>2
<1>3. named => start + 2 <= end
  OBVIOUS
<1> HIDE DEF optionEnd
<1>4. open \in Nat /\ (named /\ ~ (option /\ optionEnd = 0) => start < open /\ open <= end)
  BY <1>2, <1>3
<1>5. known => open = start + 2 /\ name \in Supported
  OBVIOUS
<1> HIDE DEF open, named, option, known, name
<1>6. /\ close \in Nat
      /\ close # 0 => /\ open < close /\ close <= end
                      /\ source[open] = Opening => source[close - 1] \in {Opening, Closing}
  BY <1>4, ClosesAre
<1>7. Token(source, open) = Opening => source[open] = Opening
  BY DEF Token, Opening
<1> HIDE DEF close
<1>8. CASE ~ named
  BY <1>1, <1>8 DEF Candidates
<1>9. CASE named /\ option /\ optionEnd = 0
  BY <1>1, <1>9 DEF Candidates
<1>10. CASE named /\ ~ (option /\ optionEnd = 0) /\ Token(source, open) # Opening
  <2>1. found = [as |-> "Unsupported", to |-> open, open |-> 0]
    BY <1>1, <1>10, Zenon
  <2>2. start < open /\ open \in Nat /\ open <= end
    BY <1>4, <1>10, Zenon
  <2> QED
    BY <2>1, <2>2 DEF Candidates
<1>11. CASE named /\ ~ (option /\ optionEnd = 0) /\ Token(source, open) = Opening /\ known /\ close # 0
  <2>1. found = [as |-> "Supported", to |-> close, open |-> open]
    BY <1>1, <1>11
  <2>2a. start < open /\ open \in Nat /\ close \in Nat /\ close # 0 /\ source[open] = Opening /\ known
    BY <1>4, <1>6, <1>7, <1>11, Zenon
  <2>2. open < close
    BY <1>6, <2>2a
  <2>3. found.open = start + 2 /\ source[start + 1] \in Supported /\ source[open] = Opening
        /\ source[close - 1] \in {Opening, Closing} /\ close <= end
    <3>1. open = start + 2 /\ source[start + 1] \in Supported
      BY <1>5, <2>2a, Zenon DEF name
    <3> QED
      BY <1>6, <2>1, <2>2a, <3>1
  <2> QED
    BY <2>1, <2>2a, <2>2, <2>3 DEF Candidates
<1>12. CASE named /\ ~ (option /\ optionEnd = 0) /\ Token(source, open) = Opening /\ known /\ close = 0
  <2>1. found = [as |-> "Unterminated", to |-> open + 1, open |-> open]
    BY <1>1, <1>12
  <2>2. start < open /\ open \in Nat /\ Token(source, open) = Opening
    BY <1>4, <1>12, Zenon
  <2>3. open + 1 - 1 = open /\ start < open + 1 /\ open + 1 \in Nat
    BY <2>2
  <2> QED
    BY <2>1, <2>2, <2>3 DEF Candidates
<1>13. CASE named /\ ~ (option /\ optionEnd = 0) /\ Token(source, open) = Opening /\ ~ known
  <2>1. found = unsupported(IF close = 0 THEN end ELSE close, open)
    BY <1>1, <1>13
  <2>2. start < open /\ open \in Nat /\ close \in Nat /\ (close # 0 => open < close /\ close <= end)
    BY <1>4, <1>6, <1>13, Zenon
  <2> QED
    BY <2>1, <2>2 DEF Candidates
<1> QED
  BY <1>8, <1>9, <1>10, <1>11, <1>12, <1>13

\* Where a macro may begin.
Starts(source, cursor, end) ==
  {i \in FirstAt(source, "\\", cursor, end) : ~ (i + 1 < end /\ source[i + 1] = "(")}
\* One turn when it meets a macro, and when it passes over something.
Held(part) == [nodes |-> <<Holding(part.nodes)>>, leaves |-> part.leaves, issues |-> part.issues]
Inner(source, lower, start, found) ==
  IF Opaque(source[start + 1]) THEN Piece(source, "Verb", found.open + 1, found.to - 1)
  ELSE lower[<<found.open + 1, found.open + 1, found.to - 1>>]
Taken(source, lower, literal, start, found, end) ==
  Then(Piece(source, "RCode", literal, start),
       Then(Held(Inner(source, lower, start, found)), lower[<<found.to, found.to, end>>]))
Passed(lower, literal, start, found, end) ==
  LET rest == lower[<<literal, IF found.as = "Unterminated" THEN end ELSE found.to, end>>]
  IN [nodes |-> rest.nodes, leaves |-> rest.leaves,
      issues |-> Issue(found.as, start, found.to) \cup rest.issues]

\* lower[turn] is one of these.
LoweredIs == \A part \in Lowered :
  /\ part.nodes \in Fine /\ part.leaves \in SUBSET LeafRange /\ part.issues \in SUBSET IssueRange
  /\ [part EXCEPT !.nodes = <<Holding(@)>>] = Held(part)
  /\ \A more : [part EXCEPT !.issues = more \cup @] =
                 [nodes |-> part.nodes, leaves |-> part.leaves, issues |-> more \cup part.issues]
LEMMA PartsAre == LoweredIs
  BY DEF LoweredIs, Lowered, Held

\* The turns that a turn calls are shorter.
Shorter(l, c, e, found) ==
  /\ found.as = "Supported" =>
       /\ <<found.open + 1, found.open + 1, found.to - 1>> \in Turns
       /\ Left[<<found.open + 1, found.open + 1, found.to - 1>>] < Left[<<l, c, e>>]
       /\ <<found.to, found.to, e>> \in Turns
       /\ Left[<<found.to, found.to, e>>] < Left[<<l, c, e>>]
  /\ found.as = "Unterminated" =>
       <<l, e, e>> \in Turns /\ Left[<<l, e, e>>] < Left[<<l, c, e>>]
  /\ found.as = "Unsupported" =>
       <<l, found.to, e>> \in Turns /\ Left[<<l, found.to, e>>] < Left[<<l, c, e>>]
LEMMA CallsAreShorter ==
  ASSUME NEW source, NEW l \in Nat, NEW c \in Nat, NEW e \in Nat, NEW start \in Nat,
         c <= start, start < e, NEW found, MayBegin(source, start, e, found)
  PROVE  Shorter(l, c, e, found)
<1> USE DEF Shorter
<1>1. /\ found \in Candidates
      /\ start < found.to
      /\ found.as = "Unsupported" => found.to <= e
      /\ found.as = "Supported" => found.open = start + 2 /\ found.open < found.to /\ found.to <= e
  BY DEF MayBegin
<1>2. found.to \in Nat /\ found.open \in Nat
  BY <1>1 DEF Candidates
<1>3. PICK to \in Nat : to = found.to
  BY <1>2
<1>4. PICK open \in Nat : open = found.open
  BY <1>2
<1>5. \A x, y, z \in Nat :
        /\ <<x, y, z>> \in Turns
        /\ Left[<<x, y, z>>] = IF y <= z THEN z - y ELSE 0
  BY DEF Turns, Left
<1>6. Left[<<l, c, e>>] = e - c
  BY <1>5
<1>7. CASE found.as = "Supported"
  <2>1. open = start + 2 /\ open < to /\ to <= e
    BY <1>1, <1>3, <1>4, <1>7
  <2>2. open + 1 \in Nat /\ to - 1 \in Nat
    BY <2>1
  <2>3. <<open + 1, open + 1, to - 1>> \in Turns /\ <<to, to, e>> \in Turns
    BY <1>5, <2>2
  <2>4. Left[<<to, to, e>>] = e - to
    BY <1>5, <2>1
  <2>5. Left[<<open + 1, open + 1, to - 1>>] =
          IF open + 1 <= to - 1 THEN (to - 1) - (open + 1) ELSE 0
    BY <1>5, <2>2
  <2>6. Left[<<to, to, e>>] < Left[<<l, c, e>>]
    BY <1>6, <2>1, <2>4
  <2>7. Left[<<open + 1, open + 1, to - 1>>] < Left[<<l, c, e>>]
    BY <1>6, <2>1, <2>5
  <2> QED
    BY <1>3, <1>4, <1>7, <2>3, <2>6, <2>7
<1>8. CASE found.as = "Unterminated"
  <2>1. Left[<<l, e, e>>] = 0
    BY <1>5
  <2> QED
    BY <1>5, <1>6, <1>8, <2>1
<1>9. CASE found.as = "Unsupported"
  <2>1. Left[<<l, to, e>>] = e - to /\ start < to
    BY <1>1, <1>3, <1>5, <1>9
  <2> QED
    BY <1>3, <1>5, <1>6, <1>9, <2>1
<1> QED
  BY <1>1, <1>7, <1>8, <1>9 DEF Candidates

\* What is known of shorter turns is enough.
LoweredBelow(lower, n) == \A turn \in Turns : Left[turn] < n => lower[turn] \in Lowered

\* A turn, by what it meets.
LEMMA TurnIs ==
  ASSUME NEW source, NEW lower, NEW l \in Nat, NEW c \in Nat, NEW e \in Nat,
         LoweredBelow(lower, Left[<<l, c, e>>])
  PROVE  /\ Starts(source, c, e) = {} =>
              LowerFrom(source, lower, l, c, e) = Piece(source, "RCode", l, e)
         /\ Starts(source, c, e) # {} =>
              \E start \in Starts(source, c, e) :
                /\ start \in Nat /\ c <= start /\ start < e
                /\ start = Least(Starts(source, c, e))
                /\ \A i \in Starts(source, c, e) : start <= i
                /\ LET found == Candidate(source, start, e)
                   IN LowerFrom(source, lower, l, c, e) =
                        IF found.as = "Supported" THEN Taken(source, lower, l, start, found, e)
                        ELSE Passed(lower, l, start, found, e)
<1> DEFINE starts == Starts(source, c, e)
<1>1. ASSUME NEW i \in starts PROVE i \in Nat /\ c <= i /\ i < e
  BY DEF Starts, FirstAt
<1>2. CASE starts = {}
  BY <1>2 DEF LowerFrom, Starts
<1>3. CASE starts # {}
  <2>1. starts \in SUBSET Nat
    BY <1>1
  <2>2. PICK start \in starts : \A j \in starts : start <= j
    BY <1>3, <2>1, LeastExists
  <2>3. start = Least(starts)
    <3>1. \A i \in starts : (\A j \in starts : i <= j) => i = start
      BY <2>1, <2>2
    <3> HIDE DEF starts
    <3> QED
      BY <2>2, <3>1 DEF Least
  <2>4. start \in Nat /\ c <= start /\ start < e
    BY <1>1
  <2> DEFINE found == Candidate(source, start, e)
             rest == lower[<<IF found.as = "Supported" THEN found.to ELSE l,
                             IF found.as = "Unterminated" THEN e ELSE found.to, e>>]
             macro == Then(Piece(source, "RCode", l, start),
                           Then([Inner(source, lower, start, found) EXCEPT !.nodes = <<Holding(@)>>], rest))
  <2>5. LowerFrom(source, lower, l, c, e) =
          IF found.as = "Supported" THEN macro
          ELSE [rest EXCEPT !.issues = Issue(found.as, start, found.to) \cup @]
    <3>1. starts = {i \in FirstAt(source, "\\", c, e) : ~ (i + 1 < e /\ source[i + 1] = "(")}
      BY DEF Starts
    <3>2. LowerFrom(source, lower, l, c, e) =
            IF starts = {} THEN Piece(source, "RCode", l, e)
            ELSE LET f == Candidate(source, Least(starts), e)
                     r == lower[<<IF f.as = "Supported" THEN f.to ELSE l,
                                  IF f.as = "Unterminated" THEN e ELSE f.to, e>>]
                 IN IF f.as = "Supported"
                    THEN Then(Piece(source, "RCode", l, Least(starts)),
                              Then([Inner(source, lower, Least(starts), f)
                                     EXCEPT !.nodes = <<Holding(@)>>], r))
                    ELSE [r EXCEPT !.issues = Issue(f.as, Least(starts), f.to) \cup @]
      BY DEF LowerFrom, Starts, Inner
    <3> HIDE DEF starts
    <3> QED
      BY <1>3, <2>3, <3>2
  <2>6a. MayBegin(source, start, e, found)
    BY <2>4, CandidateIs
  <2>6b. Shorter(l, c, e, found)
    BY <2>4, <2>6a, CallsAreShorter
  <2>6. /\ found \in Candidates
        /\ found.as = "Supported" =>
              /\ lower[<<found.open + 1, found.open + 1, found.to - 1>>] \in Lowered
              /\ lower[<<found.to, found.to, e>>] \in Lowered
              /\ found.open < found.to
        /\ found.as = "Unterminated" => lower[<<l, e, e>>] \in Lowered
        /\ found.as = "Unsupported" => lower[<<l, found.to, e>>] \in Lowered
    <3> HIDE DEF found
    <3> QED
      BY <2>6a, <2>6b DEF MayBegin, Shorter, LoweredBelow
  <2> HIDE DEF found, starts
  <2>7. rest \in Lowered
    BY <2>6 DEF Candidates
  <2>8. found.as = "Supported" => Inner(source, lower, start, found) \in Lowered
    <3> SUFFICES ASSUME found.as = "Supported" PROVE Inner(source, lower, start, found) \in Lowered
      OBVIOUS
    <3>1. lower[<<found.open + 1, found.open + 1, found.to - 1>>] \in Lowered
      BY <2>6
    <3>2. found.open + 1 \in Nat /\ found.to - 1 \in Nat
      BY <2>6 DEF Candidates
    <3>3. Piece(source, "Verb", found.open + 1, found.to - 1) \in Lowered
      BY <3>2, PieceIsLowered
    <3> QED
      BY <3>1, <3>3 DEF Inner
  <2>9. found.as = "Supported" => macro = Taken(source, lower, l, start, found, e)
    BY <2>8, PartsAre DEF Taken, LoweredIs
  <2>10. found.as # "Supported" =>
           [rest EXCEPT !.issues = Issue(found.as, start, found.to) \cup @] =
             Passed(lower, l, start, found, e)
    BY <2>7, PartsAre DEF Passed, LoweredIs
  <2>11. LowerFrom(source, lower, l, c, e) =
           IF found.as = "Supported" THEN Taken(source, lower, l, start, found, e)
           ELSE Passed(lower, l, start, found, e)
    BY <2>5, <2>9, <2>10
  <2> QED
    BY <1>3, <2>2, <2>3, <2>4, <2>11 DEF found, starts
<1> QED
  BY <1>2, <1>3

LEMMA NodesAssociate ==
  ASSUME NEW a \in Seq(Node), NEW b \in Seq(Node), NEW c \in Seq(Node)
  PROVE  (a \o b) \o c = a \o (b \o c)
  BY ConcatAssociative

\* What a turn gives is what a region gives.
LEMMA TakenIsLowered ==
  ASSUME NEW source, NEW l \in Nat, NEW start \in Nat, NEW inner \in Lowered, NEW rest \in Lowered
  PROVE  Then(Piece(source, "RCode", l, start), Then(Held(inner), rest)) \in Lowered
<1> DEFINE piece == Piece(source, "RCode", l, start)
<1>1. piece \in Lowered
  BY PieceIsLowered
<1> HIDE DEF piece
<1>2. /\ piece.nodes \in Fine /\ inner.nodes \in Fine /\ rest.nodes \in Fine
      /\ piece.leaves \cup (inner.leaves \cup rest.leaves) \in SUBSET LeafRange
      /\ piece.issues \cup (inner.issues \cup rest.issues) \in SUBSET IssueRange
  BY <1>1 DEF Lowered
<1>3. piece.nodes \o (<<Holding(inner.nodes)>> \o rest.nodes) \in Fine
  <2>1. PICK one : one = <<Holding(inner.nodes)>>
    OBVIOUS
  <2>2. one \in Finished /\ piece.nodes \o one \in Finished
    BY <1>2, <2>1, HoldingIsWhole
  <2>3. (piece.nodes \o one) \o rest.nodes \in Fine
    BY <1>2, <2>2, FinishedJoin
  <2>4. piece.nodes \in Seq(Node) /\ one \in Seq(Node) /\ rest.nodes \in Seq(Node)
    BY <1>2, <2>2 DEF Fine, Finished
  <2>5. (piece.nodes \o one) \o rest.nodes = piece.nodes \o (one \o rest.nodes)
    BY <2>4, NodesAssociate
  <2> QED
    BY <2>1, <2>3, <2>5
<1> QED
  BY <1>2, <1>3 DEF Then, Held, Lowered, piece

LEMMA TurnIsLowered ==
  ASSUME NEW source, NEW lower, NEW l \in Nat, NEW c \in Nat, NEW e \in Nat,
         LoweredBelow(lower, Left[<<l, c, e>>])
  PROVE  LowerFrom(source, lower, l, c, e) \in Lowered
<1>1. CASE Starts(source, c, e) = {}
  <2>1. Piece(source, "RCode", l, e) \in Lowered
    BY PieceIsLowered
  <2>2. LowerFrom(source, lower, l, c, e) = Piece(source, "RCode", l, e)
    BY <1>1, TurnIs
  <2> QED
    BY <2>1, <2>2
<1>2. CASE Starts(source, c, e) # {}
  <2>1. PICK start \in Starts(source, c, e) :
          /\ start \in Nat /\ c <= start /\ start < e
          /\ LET found == Candidate(source, start, e)
             IN LowerFrom(source, lower, l, c, e) =
                  IF found.as = "Supported" THEN Taken(source, lower, l, start, found, e)
                  ELSE Passed(lower, l, start, found, e)
    BY <1>2, TurnIs
  <2>2. PICK found : found = Candidate(source, start, e)
    OBVIOUS
  <2>3. LowerFrom(source, lower, l, c, e) =
          IF found.as = "Supported" THEN Taken(source, lower, l, start, found, e)
          ELSE Passed(lower, l, start, found, e)
    BY <2>1, <2>2
  <2>4. MayBegin(source, start, e, found)
    BY <2>1, <2>2, CandidateIs
  <2>5. Shorter(l, c, e, found)
    BY <2>1, <2>4, CallsAreShorter
  <2>6. found \in Candidates /\ found.to \in Nat /\ found.open \in Nat
        /\ (found.as = "Supported" => found.open < found.to)
    BY <2>4 DEF MayBegin, Candidates
  <2>7. CASE found.as = "Supported"
    <3>1. lower[<<found.open + 1, found.open + 1, found.to - 1>>] \in Lowered
          /\ lower[<<found.to, found.to, e>>] \in Lowered
      BY <2>5, <2>7 DEF Shorter, LoweredBelow
    <3>2. found.open + 1 \in Nat /\ found.to - 1 \in Nat
      BY <2>6, <2>7
    <3>3. Inner(source, lower, start, found) \in Lowered
      BY <3>1, <3>2, PieceIsLowered DEF Inner
    <3>4. Taken(source, lower, l, start, found, e) \in Lowered
      BY <2>1, <3>1, <3>3, TakenIsLowered DEF Taken
    <3> QED
      BY <2>3, <2>7, <3>4
  <2>8. CASE found.as # "Supported"
    <3> DEFINE rest == lower[<<l, IF found.as = "Unterminated" THEN e ELSE found.to, e>>]
    <3>1. rest \in Lowered
      BY <2>5, <2>6, <2>8 DEF Shorter, Candidates, LoweredBelow
    <3>2. Issue(found.as, start, found.to) \in SUBSET IssueRange
      BY <2>1, <2>6, <2>8 DEF Issue, IssueRange, Candidates
    <3>3. Passed(lower, l, start, found, e) =
            [nodes |-> rest.nodes, leaves |-> rest.leaves,
             issues |-> Issue(found.as, start, found.to) \cup rest.issues]
      BY DEF Passed
    <3> HIDE DEF rest
    <3>4. Passed(lower, l, start, found, e) \in Lowered
      BY <3>1, <3>2, <3>3 DEF Lowered
    <3> QED
      BY <2>3, <2>8, <3>4
  <2> QED
    BY <2>7, <2>8
<1> QED
  BY <1>1, <1>2

\* It depends on what shorter turns give only.
LEMMA TurnIsLocal ==
  ASSUME NEW source, NEW f, NEW g, NEW l \in Nat, NEW c \in Nat, NEW e \in Nat,
         LoweredBelow(f, Left[<<l, c, e>>]), LoweredBelow(g, Left[<<l, c, e>>]),
         \A turn \in Turns : Left[turn] < Left[<<l, c, e>>] => f[turn] = g[turn]
  PROVE  LowerFrom(source, f, l, c, e) = LowerFrom(source, g, l, c, e)
<1>1. CASE Starts(source, c, e) = {}
  BY <1>1, TurnIs
<1>2. CASE Starts(source, c, e) # {}
  <2>1. PICK start : start = Least(Starts(source, c, e))
    OBVIOUS
  <2>2. PICK found : found = Candidate(source, start, e)
    OBVIOUS
  <2>3. /\ start \in Nat /\ c <= start /\ start < e
        /\ \A lower \in {f, g} : LowerFrom(source, lower, l, c, e) =
             IF found.as = "Supported" THEN Taken(source, lower, l, start, found, e)
             ELSE Passed(lower, l, start, found, e)
    BY <1>2, <2>1, <2>2, TurnIs
  <2>4. MayBegin(source, start, e, found)
    BY <2>2, <2>3, CandidateIs
  <2>5. Shorter(l, c, e, found)
    BY <2>3, <2>4, CallsAreShorter
  <2>6. CASE found.as = "Supported"
    <3>1. /\ f[<<found.open + 1, found.open + 1, found.to - 1>>] =
               g[<<found.open + 1, found.open + 1, found.to - 1>>]
          /\ f[<<found.to, found.to, e>>] = g[<<found.to, found.to, e>>]
      BY <2>5, <2>6 DEF Shorter
    <3>2. Inner(source, f, start, found) = Inner(source, g, start, found)
      BY <3>1 DEF Inner
    <3>3. Taken(source, f, l, start, found, e) = Taken(source, g, l, start, found, e)
      BY <3>1, <3>2 DEF Taken
    <3> QED
      BY <2>3, <2>6, <3>3
  <2>7. CASE found.as = "Unterminated"
    <3>1. f[<<l, e, e>>] = g[<<l, e, e>>]
      BY <2>5, <2>7 DEF Shorter
    <3>2. Passed(f, l, start, found, e) = Passed(g, l, start, found, e)
      BY <2>7, <3>1 DEF Passed
    <3> QED
      BY <2>3, <2>7, <3>2
  <2>8. CASE found.as = "Unsupported"
    <3>1. f[<<l, found.to, e>>] = g[<<l, found.to, e>>]
      BY <2>5, <2>8 DEF Shorter
    <3>2. Passed(f, l, start, found, e) = Passed(g, l, start, found, e)
      BY <2>8, <3>1 DEF Passed
    <3> QED
      BY <2>3, <2>8, <3>2
  <2> QED
    BY <2>4, <2>6, <2>7, <2>8 DEF MayBegin, Candidates
<1> QED
  BY <1>1, <1>2

\* So lowering has a value at every turn, the one its turns say.
LEMMA LowerRlikeIs ==
  ASSUME NEW source
  PROVE  /\ LowerRlike(source) \in [Turns -> Lowered]
         /\ \A l, c, e \in Nat :
              LowerRlike(source)[<<l, c, e>>] = LowerFrom(source, LowerRlike(source), l, c, e)
<1> DEFINE F == [x \in [Turns -> Lowered] \X Turns |->
                   LowerFrom(source, x[1], x[2][1], x[2][2], x[2][3])]
           nothing == [nodes |-> <<>>, leaves |-> {}, issues |-> {}]
           Is(lower) == lower = [turn \in Turns |-> LowerFrom(source, lower, turn[1], turn[2], turn[3])]
<1>1. nothing \in Lowered
  BY EmptyIsFine DEF Lowered, Finished
<1>2. \A turn \in Turns : turn[1] \in Nat /\ turn[2] \in Nat /\ turn[3] \in Nat
                          /\ turn = <<turn[1], turn[2], turn[3]>>
  BY DEF Turns
<1>3. \A lower \in [Turns -> Lowered], turn \in Turns :
        F[<<lower, turn>>] = LowerFrom(source, lower, turn[1], turn[2], turn[3])
  OBVIOUS
<1>4. F \in [[Turns -> Lowered] \X Turns -> Lowered]
  <2> SUFFICES ASSUME NEW lower \in [Turns -> Lowered], NEW turn \in Turns
               PROVE  LowerFrom(source, lower, turn[1], turn[2], turn[3]) \in Lowered
    OBVIOUS
  <2>1. LoweredBelow(lower, Left[<<turn[1], turn[2], turn[3]>>])
    BY DEF LoweredBelow
  <2> QED
    BY <1>2, <2>1, TurnIsLowered
<1>5. Left \in [Turns -> Nat]
  BY DEF Left, Turns
<1> HIDE DEF F
<1>6. IsLocal(F, Turns, Lowered, Left)
  <2> SUFFICES ASSUME NEW f \in [Turns -> Lowered], NEW g \in [Turns -> Lowered], NEW turn \in Turns,
                      \A y \in Turns : Left[y] < Left[turn] => f[y] = g[y]
               PROVE  F[<<f, turn>>] = F[<<g, turn>>]
    BY DEF IsLocal
  <2>1. PICK l \in Nat, c \in Nat, e \in Nat : l = turn[1] /\ c = turn[2] /\ e = turn[3]
    BY <1>2
  <2>2. turn = <<l, c, e>>
    BY <1>2, <2>1
  <2>3. LowerFrom(source, f, l, c, e) = LowerFrom(source, g, l, c, e)
    <3>1. \A lower \in {f, g} : LoweredBelow(lower, Left[<<l, c, e>>])
      BY DEF LoweredBelow
    <3> QED
      BY <2>2, <3>1, TurnIsLocal
  <2> QED
    BY <1>3, <2>1, <2>3
<1>7. PICK h \in [Turns -> Lowered] : \A turn \in Turns : h[turn] = F[<<h, turn>>]
  <2>1. IsRecursion(F, Turns, Lowered, Left)
    BY <1>4, <1>5, <1>6 DEF IsRecursion
  <2> HIDE DEF nothing
  <2>2. \E h : DefinedBy(h, F, Turns, Lowered)
    BY <1>1, <2>1, RecursionExists
  <2> QED
    BY <2>2 DEF DefinedBy
<1>8. Is(h)
  BY <1>3, <1>7
<1>9. LowerRlike(source) = CHOOSE lower : Is(lower)
  BY DEF LowerRlike, Turns
<1> DEFINE r == LowerRlike(source)
<1>10. Is(r)
  BY <1>8, <1>9
<1> HIDE DEF r
<1>11. \A l, c, e \in Nat : r[<<l, c, e>>] = LowerFrom(source, r, l, c, e)
  <2> SUFFICES ASSUME NEW l \in Nat, NEW c \in Nat, NEW e \in Nat
               PROVE  r[<<l, c, e>>] = LowerFrom(source, r, l, c, e)
    OBVIOUS
  <2>1. PICK turn \in Turns : turn = <<l, c, e>>
    BY DEF Turns
  <2>2. r[turn] = LowerFrom(source, r, turn[1], turn[2], turn[3])
    BY <1>10
  <2> QED
    BY <2>1, <2>2
<1> HIDE DEF Is
<1>12. \A turn \in Turns : r[turn] \in Lowered
  <2> SUFFICES ASSUME NEW bad \in Turns, r[bad] \notin Lowered PROVE FALSE
    OBVIOUS
  <2> DEFINE sizes == {n \in Nat : \E turn \in Turns : Left[turn] = n /\ r[turn] \notin Lowered}
  <2>1. PICK n \in sizes : \A k \in sizes : n <= k
    <3>1. sizes \in SUBSET Nat /\ sizes # {}
      BY <1>5
    <3> HIDE DEF sizes
    <3> QED
      BY <3>1, LeastExists
  <2>2. PICK turn \in Turns : Left[turn] = n /\ r[turn] \notin Lowered
    BY <2>1
  <2>3. PICK l \in Nat, c \in Nat, e \in Nat : turn = <<l, c, e>>
    BY <1>2
  <2>4. LoweredBelow(r, Left[<<l, c, e>>])
    <3> SUFFICES ASSUME NEW y \in Turns, Left[y] < n, r[y] \notin Lowered PROVE FALSE
      BY <2>2, <2>3 DEF LoweredBelow
    <3>1. Left[y] \in sizes /\ Left[y] \in Nat
      BY <1>5
    <3>2. n <= Left[y] /\ n \in Nat
      BY <2>1, <3>1
    <3> QED
      BY <3>1, <3>2
  <2>5. r[<<l, c, e>>] \in Lowered
    BY <1>11, <2>4, TurnIsLowered
  <2> QED
    BY <2>2, <2>3, <2>5
<1>13. r \in [Turns -> Lowered]
  BY <1>10, <1>12 DEF Is
<1> QED
  BY <1>11, <1>13 DEF r

LEMMA LowerIsFine ==
  ASSUME NEW source \in Seq(STRING)
  PROVE  Lower(source).nodes \in Fine
<1>1. <<1, 1, Len(source) + 1>> \in Turns
  BY DEF Turns
<1>2. Lower(source) \in Lowered
  BY <1>1, LowerRlikeIs DEF Lower
<1> QED
  BY <1>2 DEF Lowered

\* What is asked of a region from l to e that is scanned from c on.
Covers(source, issue, i) ==
  issue.from <= i /\ (i < issue.to \/ Token(source, issue.to - 1) = Opening)
Said(source, done, i) ==
  Token(source, i + 1) = "(" \/ \E issue \in done.issues : Covers(source, issue, i)
Begins(done, l) == \A leaf \in done.leaves : l <= leaf.from
Speaks(source, done, c) ==
  \A leaf \in done.leaves : leaf.tag = "RCode" =>
    \A i \in Nat : leaf.from <= i /\ i < leaf.to /\ source[i] = "\\" /\ c <= i => Said(source, done, i)
Holds(done, i) == \E leaf \in done.leaves : leaf.from <= i /\ i < leaf.to
Keeps(source, done, l, e) ==
  \A i \in Nat : l <= i /\ i < e /\ source[i] \in CodeTokens => Holds(done, i)
Kept(source, done, l, c, e) ==
  Begins(done, l) /\ Speaks(source, done, c) /\ Keeps(source, done, l, e)
\* Backslashes that begin no macro.
Lambdas(source, c, to) ==
  \A i \in Nat : c <= i /\ i < to /\ source[i] = "\\" => Token(source, i + 1) = "("

LEMMA MarkupIsNoCode ==
  /\ Opening \notin CodeTokens /\ Closing \notin CodeTokens /\ "\\" \notin CodeTokens
  /\ \A name \in Supported : name \notin CodeTokens
  BY DEF Opening, Closing, CodeTokens, Supported, RLike

LEMMA PieceIsKept ==
  ASSUME NEW source, NEW tag \in {"RCode", "Verb"}, NEW l \in Nat, NEW c \in Nat, NEW e \in Nat,
         tag = "RCode" => Lambdas(source, c, e)
  PROVE  Kept(source, Piece(source, tag, l, e), l, c, e)
<1>1a. PICK done : done = Piece(source, tag, l, e)
  OBVIOUS
<1>1b. /\ l < e => done.leaves = {[tag |-> tag, from |-> l, to |-> e]}
       /\ ~ (l < e) => done.leaves = {}
  <2>1. OnePiece(done, tag, l, e)
    BY <1>1a, PieceIsLowered
  <2> QED
    BY <2>1 DEF OnePiece
<1>1. /\ \A leaf \in done.leaves : leaf.tag = tag /\ leaf.from = l /\ leaf.to = e
      /\ l < e => \E leaf \in done.leaves : leaf.from = l /\ leaf.to = e
  <2>1. PICK range : range = [tag |-> tag, from |-> l, to |-> e]
    OBVIOUS
  <2>2. range.tag = tag /\ range.from = l /\ range.to = e
    BY <2>1
  <2>3. (l < e => done.leaves = {range}) /\ (~ (l < e) => done.leaves = {})
    BY <1>1b, <2>1
  <2> QED
    BY <2>2, <2>3
<1>2. Begins(done, l)
  BY <1>1 DEF Begins
<1>3. Speaks(source, done, c)
  BY <1>1 DEF Speaks, Said, Lambdas
<1>4. Keeps(source, done, l, e)
  <2> SUFFICES ASSUME NEW i \in Nat, l <= i, i < e PROVE Holds(done, i)
    BY DEF Keeps
  <2>1. l < e
    OBVIOUS
  <2>2. PICK leaf \in done.leaves : leaf.from = l /\ leaf.to = e
    BY <1>1, <2>1
  <2> QED
    BY <2>2 DEF Holds
<1> QED
  BY <1>1a, <1>2, <1>3, <1>4 DEF Kept

LEMMA ThenKeeps ==
  ASSUME NEW source, NEW part, NEW rest
  PROVE  /\ \A i : Said(source, part, i) \/ Said(source, rest, i) => Said(source, Then(part, rest), i)
         /\ \A i : Holds(part, i) \/ Holds(rest, i) => Holds(Then(part, rest), i)
         /\ \A l : Begins(part, l) /\ Begins(rest, l) => Begins(Then(part, rest), l)
         /\ \A c : Speaks(source, part, c) /\ Speaks(source, rest, c) => Speaks(source, Then(part, rest), c)
<1>1. Then(part, rest).leaves = part.leaves \cup rest.leaves
      /\ Then(part, rest).issues = part.issues \cup rest.issues
  BY DEF Then
<1>2. \A i : Said(source, part, i) \/ Said(source, rest, i) => Said(source, Then(part, rest), i)
  BY <1>1 DEF Said
<1>3. \A i : Holds(part, i) \/ Holds(rest, i) => Holds(Then(part, rest), i)
  BY <1>1 DEF Holds
<1>4. \A l : Begins(part, l) /\ Begins(rest, l) => Begins(Then(part, rest), l)
  BY <1>1 DEF Begins
<1>5. \A c : Speaks(source, part, c) /\ Speaks(source, rest, c) => Speaks(source, Then(part, rest), c)
  BY <1>1, <1>2 DEF Speaks
<1> QED
  BY <1>2, <1>3, <1>4, <1>5

\* Where a part begins, nothing before is asked of it.
LEMMA FromTheStart ==
  ASSUME NEW source, NEW done \in Lowered, NEW c \in Nat, NEW l \in Nat, Begins(done, l),
         Speaks(source, done, l)
  PROVE  Speaks(source, done, c)
<1>1. \A leaf \in done.leaves : leaf.from \in Nat /\ l <= leaf.from
  BY DEF Lowered, LeafRange, Begins
<1>2. ASSUME NEW leaf \in done.leaves, leaf.tag = "RCode", NEW i \in Nat, leaf.from <= i,
             i < leaf.to, source[i] = "\\"
      PROVE  Said(source, done, i)
  <2>1. l <= i
    BY <1>1, <1>2
  <2> QED
    BY <1>2, <2>1 DEF Speaks
<1> QED
  BY <1>2 DEF Speaks

LEMMA TakenIsKept ==
  ASSUME NEW source, NEW l \in Nat, NEW c \in Nat, NEW e \in Nat, NEW start \in Nat,
         NEW open \in Nat, NEW to \in Nat, l <= c, c <= start, open = start + 2, open < to, to <= e,
         Lambdas(source, c, start), source[start] = "\\", source[start + 1] \in Supported,
         source[open] = Opening, source[to - 1] \in {Opening, Closing},
         NEW inner \in Lowered, Kept(source, inner, open + 1, open + 1, to - 1),
         NEW rest \in Lowered, Kept(source, rest, to, to, e)
  PROVE  Kept(source, Then(Piece(source, "RCode", l, start), Then(Held(inner), rest)), l, c, e)
<1> DEFINE piece == Piece(source, "RCode", l, start)
           held == Held(inner)
           more == Then(held, rest)
           done == Then(piece, more)
<1>1. Kept(source, piece, l, c, start)
  BY PieceIsKept
<1>2. held.leaves = inner.leaves /\ held.issues = inner.issues
  BY DEF Held
<1>3. open + 1 \in Nat /\ to - 1 \in Nat
  OBVIOUS
<1>4. Speaks(source, inner, c) /\ Speaks(source, rest, c)
  BY <1>3, FromTheStart DEF Kept
<1>5. Begins(inner, l) /\ Begins(rest, l)
  <2>1. \A leaf \in inner.leaves \cup rest.leaves : leaf.from \in Nat
    BY DEF Lowered, LeafRange
  <2>2. l <= open + 1 /\ l <= to
    OBVIOUS
  <2> QED
    BY <2>1, <2>2 DEF Kept, Begins
<1>6. Speaks(source, held, c) /\ Begins(held, l)
  <2> HIDE DEF held
  <2> QED
    BY <1>2, <1>4, <1>5 DEF Speaks, Begins, Said
<1>7. \A i : Holds(inner, i) => Holds(held, i)
  <2> HIDE DEF held
  <2> QED
    BY <1>2 DEF Holds
<1> HIDE DEF piece, held
<1>8. Speaks(source, done, c) /\ Begins(done, l)
  BY <1>1, <1>4, <1>5, <1>6, ThenKeeps DEF Kept
<1>9. Keeps(source, done, l, e)
  <2> SUFFICES ASSUME NEW i \in Nat, l <= i, i < e, source[i] \in CodeTokens
               PROVE  Holds(done, i)
    BY DEF Keeps
  <2>1. i # start /\ i # start + 1 /\ i # open /\ i # to - 1
    BY MarkupIsNoCode
  <2>2. CASE i < start
    <3>1. Holds(piece, i)
      BY <1>1, <2>2 DEF Kept, Keeps
    <3> QED
      BY <3>1, ThenKeeps
  <2>3. CASE open + 1 <= i /\ i < to - 1
    <3>1. Holds(held, i)
      BY <1>7, <2>3 DEF Kept, Keeps
    <3> QED
      BY <3>1, ThenKeeps
  <2>4. CASE to <= i
    <3>1. Holds(rest, i)
      BY <2>4 DEF Kept, Keeps
    <3> QED
      BY <3>1, ThenKeeps
  <2>5. i < start \/ (open + 1 <= i /\ i < to - 1) \/ to <= i
    BY <2>1
  <2> QED
    BY <2>2, <2>3, <2>4, <2>5
<1> QED
  BY <1>8, <1>9 DEF Kept, piece, held

LEMMA PassedIsKept ==
  ASSUME NEW source, NEW l \in Nat, NEW c \in Nat, NEW e \in Nat, NEW start \in Nat, NEW next \in Nat,
         NEW issue, issue.from = start, issue.to \in Nat,
         Lambdas(source, c, start),
         next <= issue.to \/ Token(source, issue.to - 1) = Opening,
         NEW rest \in Lowered, Kept(source, rest, l, next, e),
         NEW done, done.leaves = rest.leaves, done.issues = {issue} \cup rest.issues
  PROVE  Kept(source, done, l, c, e)
<1>1. Begins(done, l) /\ Keeps(source, done, l, e)
  BY DEF Kept, Begins, Keeps, Holds
<1>2. ASSUME NEW leaf \in done.leaves, leaf.tag = "RCode", NEW i \in Nat, leaf.from <= i,
             i < leaf.to, source[i] = "\\", c <= i
      PROVE  Said(source, done, i)
  <2>1. CASE i < start
    BY <1>2, <2>1 DEF Lambdas, Said
  <2>2. CASE next <= i
    <3>1. Said(source, rest, i)
      BY <1>2, <2>2 DEF Kept, Speaks
    <3> QED
      BY <3>1 DEF Said
  <2>3. CASE start <= i /\ i < next
    <3>1. Covers(source, issue, i)
      BY <2>3 DEF Covers
    <3> QED
      BY <3>1 DEF Said
  <2> QED
    BY <2>1, <2>2, <2>3
<1> QED
  BY <1>1, <1>2 DEF Kept, Speaks

\* Nothing that begins a macro is left out of the scan.
LEMMA BetweenStarts ==
  ASSUME NEW source \in Seq(STRING), NEW c \in Nat, NEW e \in Nat, NEW to \in Nat,
         1 <= c, to <= e, e <= Len(source) + 1, \A i \in Starts(source, c, e) : to <= i
  PROVE  Lambdas(source, c, to)
<1> SUFFICES ASSUME NEW i \in Nat, c <= i, i < to, source[i] = "\\"
             PROVE  Token(source, i + 1) = "("
  BY DEF Lambdas
<1>1. Len(source) \in Nat /\ DOMAIN source = 1 .. Len(source)
  BY LenProperties
<1>2. i \in FirstAt(source, "\\", c, e)
  BY DEF FirstAt
<1>3. i \notin Starts(source, c, e)
  OBVIOUS
<1>4. i + 1 < e /\ source[i + 1] = "("
  BY <1>2, <1>3 DEF Starts
<1>5. i + 1 \in DOMAIN source
  BY <1>1, <1>4
<1> QED
  BY <1>4, <1>5 DEF Token

\* What is asked of every turn that scans inside its source.
Scanned(source, turn) ==
  turn \in Turns /\ 1 <= turn[1] /\ turn[1] <= turn[2] /\ turn[3] <= Len(source) + 1
KeptAt(source, turn) == Kept(source, LowerRlike(source)[turn], turn[1], turn[2], turn[3])

LEMMA TurnIsKept ==
  ASSUME NEW source \in Seq(STRING), NEW l \in Nat, NEW c \in Nat, NEW e \in Nat,
         Scanned(source, <<l, c, e>>),
         \A turn \in Turns : Left[turn] < Left[<<l, c, e>>] /\ Scanned(source, turn) => KeptAt(source, turn)
  PROVE  KeptAt(source, <<l, c, e>>)
<1>0. 1 <= l /\ l <= c /\ e <= Len(source) + 1 /\ Len(source) \in Nat /\ 1 <= c
  BY LenProperties DEF Scanned
<1>1. PICK r : r = LowerRlike(source)
  OBVIOUS
<1>2. /\ r \in [Turns -> Lowered]
      /\ r[<<l, c, e>>] = LowerFrom(source, r, l, c, e)
  BY <1>1, LowerRlikeIs
<1>3. LoweredBelow(r, Left[<<l, c, e>>])
  BY <1>2 DEF LoweredBelow
<1>4. ASSUME NEW x \in Nat, NEW y \in Nat, NEW z \in Nat, <<x, y, z>> \in Turns,
             Left[<<x, y, z>>] < Left[<<l, c, e>>], 1 <= x, x <= y, z <= Len(source) + 1
      PROVE  /\ r[<<x, y, z>>] \in Lowered
             /\ Kept(source, r[<<x, y, z>>], x, y, z)
  <2>1. PICK turn \in Turns : turn = <<x, y, z>>
    BY <1>4
  <2>2. turn[1] = x /\ turn[2] = y /\ turn[3] = z
    BY <2>1
  <2>3. Scanned(source, turn)
    BY <1>4, <2>2 DEF Scanned
  <2>4. KeptAt(source, turn)
    BY <1>4, <2>1, <2>3
  <2> QED
    BY <1>1, <1>2, <2>1, <2>2, <2>4 DEF KeptAt
<1>5. Kept(source, LowerFrom(source, r, l, c, e), l, c, e)
  <2>1. CASE Starts(source, c, e) = {}
    <3>1. Lambdas(source, c, e)
      <4>1. e <= e /\ \A i \in Starts(source, c, e) : e <= i
        BY <2>1
      <4> QED
        BY <1>0, <4>1, BetweenStarts
    <3>2. Kept(source, Piece(source, "RCode", l, e), l, c, e)
      BY <3>1, PieceIsKept
    <3> QED
      BY <1>3, <2>1, <3>2, TurnIs
  <2>2. CASE Starts(source, c, e) # {}
    <3>1. PICK start \in Starts(source, c, e) :
            /\ start \in Nat /\ c <= start /\ start < e
            /\ \A i \in Starts(source, c, e) : start <= i
            /\ LET found == Candidate(source, start, e)
               IN LowerFrom(source, r, l, c, e) =
                    IF found.as = "Supported" THEN Taken(source, r, l, start, found, e)
                    ELSE Passed(r, l, start, found, e)
      BY <1>3, <2>2, TurnIs
    <3>2. PICK found : found = Candidate(source, start, e)
      OBVIOUS
    <3>3. LowerFrom(source, r, l, c, e) =
            IF found.as = "Supported" THEN Taken(source, r, l, start, found, e)
            ELSE Passed(r, l, start, found, e)
      BY <3>1, <3>2
    <3>4. MayBegin(source, start, e, found)
      BY <3>1, <3>2, CandidateIs
    <3>5. Shorter(l, c, e, found)
      BY <3>1, <3>4, CallsAreShorter
    <3>6. found \in Candidates /\ start < found.to
      BY <3>4 DEF MayBegin
    <3>7. PICK to \in Nat : to = found.to
      BY <3>6 DEF Candidates
    <3>8. PICK open \in Nat : open = found.open
      BY <3>6 DEF Candidates
    <3>9. Lambdas(source, c, start)
      BY <1>0, <3>1, BetweenStarts
    <3>10. source[start] = "\\"
      BY DEF Starts, FirstAt
    <3>11. CASE found.as = "Supported"
      <4>1. /\ open = start + 2 /\ open < to /\ to <= e
            /\ source[start + 1] \in Supported /\ source[open] = Opening
            /\ source[to - 1] \in {Opening, Closing}
        BY <3>4, <3>7, <3>8, <3>11 DEF MayBegin
      <4>2. /\ <<open + 1, open + 1, to - 1>> \in Turns
            /\ Left[<<open + 1, open + 1, to - 1>>] < Left[<<l, c, e>>]
            /\ <<to, to, e>> \in Turns
            /\ Left[<<to, to, e>>] < Left[<<l, c, e>>]
        BY <3>5, <3>7, <3>8, <3>11 DEF Shorter
      <4>3. r[<<to, to, e>>] \in Lowered /\ Kept(source, r[<<to, to, e>>], to, to, e)
        <5>1. 1 <= to /\ to <= to
          BY <1>0, <3>1, <3>6, <3>7
        <5> QED
          BY <1>0, <1>4, <4>2, <5>1
      <4>4. open + 1 \in Nat /\ to - 1 \in Nat /\ to - 1 <= Len(source) + 1 /\ 1 <= open + 1
            /\ open + 1 <= open + 1
        BY <1>0, <4>1
      <4>5. PICK inner : inner = Inner(source, r, start, found)
        OBVIOUS
      <4>6. inner = IF Opaque(source[start + 1]) THEN Piece(source, "Verb", open + 1, to - 1)
                    ELSE r[<<open + 1, open + 1, to - 1>>]
        BY <3>7, <3>8, <4>5 DEF Inner
      <4>7. inner \in Lowered /\ Kept(source, inner, open + 1, open + 1, to - 1)
        <5>1. /\ Piece(source, "Verb", open + 1, to - 1) \in Lowered
              /\ Kept(source, Piece(source, "Verb", open + 1, to - 1), open + 1, open + 1, to - 1)
          BY <4>4, PieceIsLowered, PieceIsKept
        <5>2. /\ r[<<open + 1, open + 1, to - 1>>] \in Lowered
              /\ Kept(source, r[<<open + 1, open + 1, to - 1>>], open + 1, open + 1, to - 1)
          BY <1>4, <4>2, <4>4
        <5> QED
          BY <4>6, <5>1, <5>2
      <4>8. Taken(source, r, l, start, found, e) =
              Then(Piece(source, "RCode", l, start), Then(Held(inner), r[<<to, to, e>>]))
        BY <3>7, <4>5 DEF Taken
      <4>9. Kept(source, Then(Piece(source, "RCode", l, start), Then(Held(inner), r[<<to, to, e>>])), l, c, e)
        BY <1>0, <3>1, <3>9, <3>10, <4>1, <4>3, <4>7, TakenIsKept
      <4> QED
        BY <3>3, <3>11, <4>8, <4>9
    <3>12. CASE found.as # "Supported"
      <4>1. PICK next \in Nat : next = IF found.as = "Unterminated" THEN e ELSE to
        OBVIOUS
      <4>2. /\ <<l, next, e>> \in Turns /\ Left[<<l, next, e>>] < Left[<<l, c, e>>]
            /\ next <= to \/ Token(source, to - 1) = Opening
            /\ start < next
        <5>1. start < to /\ (found.as = "Unterminated" => Token(source, to - 1) = Opening)
          BY <3>4, <3>6, <3>7 DEF MayBegin
        <5>2. CASE found.as = "Unterminated"
          BY <3>1, <3>5, <4>1, <5>1, <5>2 DEF Shorter
        <5>3. CASE found.as = "Unsupported"
          <6>1. next = to /\ next <= to
            BY <4>1, <5>3
          <6>2. <<l, to, e>> \in Turns /\ Left[<<l, to, e>>] < Left[<<l, c, e>>]
            BY <3>5, <3>7, <5>3 DEF Shorter
          <6> QED
            BY <5>1, <6>1, <6>2
        <5> QED
          BY <3>6, <3>12, <5>2, <5>3 DEF Candidates
      <4>3. PICK rest : rest = r[<<l, next, e>>]
        OBVIOUS
      <4>4. rest \in Lowered /\ Kept(source, rest, l, next, e)
        <5>1. l <= next
          BY <1>0, <3>1, <4>2
        <5> QED
          BY <1>0, <1>4, <4>2, <4>3, <5>1
      <4>5. PICK issue : issue = [as |-> found.as, from |-> start, to |-> to]
        OBVIOUS
      <4>6. issue.from = start /\ issue.to = to
        BY <4>5
      <4>7. PICK done : done = Passed(r, l, start, found, e)
        OBVIOUS
      <4>8. done.leaves = rest.leaves /\ done.issues = {issue} \cup rest.issues
        BY <3>7, <4>1, <4>3, <4>5, <4>7 DEF Passed, Issue
      <4>9. Kept(source, done, l, c, e)
        <5>1. issue.to \in Nat /\ (next <= issue.to \/ Token(source, issue.to - 1) = Opening)
          BY <4>2, <4>6
        <5> QED
          BY <3>1, <3>9, <4>4, <4>6, <4>8, <5>1, PassedIsKept
      <4> QED
        BY <3>3, <3>12, <4>7, <4>9
    <3> QED
      BY <3>11, <3>12
  <2> QED
    BY <2>1, <2>2
<1> QED
  BY <1>1, <1>2, <1>5 DEF KeptAt

LEMMA EveryTurnIsKept ==
  ASSUME NEW source \in Seq(STRING), NEW turn, Scanned(source, turn)
  PROVE  KeptAt(source, turn)
<1> SUFFICES ASSUME ~ KeptAt(source, turn) PROVE FALSE
  OBVIOUS
<1>0. Left \in [Turns -> Nat]
  BY DEF Left, Turns
<1> DEFINE sizes == {n \in Nat : \E t \in Turns : Left[t] = n /\ Scanned(source, t) /\ ~ KeptAt(source, t)}
<1>1. PICK n \in sizes : \A k \in sizes : n <= k
  <2>1. sizes \in SUBSET Nat /\ sizes # {}
    BY <1>0 DEF Scanned
  <2> HIDE DEF sizes
  <2> QED
    BY <2>1, LeastExists
<1>2. PICK t \in Turns : Left[t] = n /\ Scanned(source, t) /\ ~ KeptAt(source, t)
  BY <1>1
<1>3. PICK l \in Nat, c \in Nat, e \in Nat : t = <<l, c, e>>
  BY DEF Turns
<1>4. ASSUME NEW y \in Turns, Left[y] < n, Scanned(source, y), ~ KeptAt(source, y) PROVE FALSE
  <2>1. Left[y] \in sizes /\ Left[y] \in Nat
    BY <1>0, <1>4
  <2>2. n <= Left[y] /\ n \in Nat
    BY <1>1, <2>1
  <2> QED
    BY <1>4, <2>1, <2>2
<1> QED
  BY <1>2, <1>3, <1>4, TurnIsKept

\* Every backslash is said.
LEMMA EveryBackslashIsSaid ==
  ASSUME NEW source \in Seq(STRING)
  PROVE  BackslashesAreSaid(source)
<1>1. PICK e \in Nat : e = Len(source) + 1
  BY LenProperties
<1>2. DOMAIN source = 1 .. Len(source) /\ Len(source) \in Nat
  BY LenProperties
<1>3. PICK turn : turn = <<1, 1, e>>
  OBVIOUS
<1>4. turn \in Turns /\ turn[1] = 1 /\ turn[2] = 1 /\ turn[3] = e
  BY <1>3 DEF Turns
<1>5. KeptAt(source, turn)
  <2>1. Scanned(source, turn)
    BY <1>1, <1>4 DEF Scanned
  <2> QED
    BY <2>1, EveryTurnIsKept
<1>6. PICK done : done = Lower(source)
  OBVIOUS
<1>7. done \in Lowered /\ Kept(source, done, 1, 1, e)
  <2>1. done = LowerRlike(source)[turn]
    BY <1>1, <1>3, <1>6 DEF Lower
  <2> QED
    BY <1>4, <1>5, <2>1, LowerRlikeIs DEF KeptAt
<1>8. ASSUME NEW leaf \in done.leaves, leaf.tag = "RCode",
             NEW i \in FirstAt(source, "\\", leaf.from, leaf.to)
      PROVE  Said(source, done, i)
  <2>1. leaf.from \in Nat /\ leaf.to \in Nat /\ 1 <= leaf.from
    BY <1>7 DEF Lowered, LeafRange, Kept, Begins
  <2>2. i \in Nat /\ leaf.from <= i /\ i < leaf.to /\ source[i] = "\\" /\ 1 <= i
    BY <2>1 DEF FirstAt
  <2> QED
    BY <1>7, <1>8, <2>2 DEF Kept, Speaks
<1>9. ASSUME NEW i \in DOMAIN source, source[i] \in CodeTokens
      PROVE  \E leaf \in done.leaves : leaf.from <= i /\ i < leaf.to
  <2>1. i \in Nat /\ 1 <= i /\ i < e
    BY <1>1, <1>2
  <2> QED
    BY <1>7, <1>9, <2>1 DEF Kept, Keeps, Holds
<1> QED
  BY <1>6, <1>8, <1>9 DEF BackslashesAreSaid, Said, Covers

-----------------------------------------------------------------------------
(* The document *)

\* The document of a topic with a title, when its parts are fine.
LEMMA DocumentIsFine ==
  ASSUME NEW t \in RdTopic, ContentsAreFine(t), t.title # <<>>,
         t.author = <<>> => \A i \in DOMAIN t.packageAuthor : AuthorsOnOneLine(t.packageAuthor[i])
  PROVE  Roots(t) \in Fine
<1> DEFINE named == [i \in DOMAIN t.sections |->
                       NamedSection(t.sections[i].title.nodes, t.sections[i].body.nodes)]
           example(c) == IF c.form = "Examples"
                         THEN ExamplesNodes([conditional |-> c.conditional, body |-> NodesIn(c)])
                         ELSE Trimmed(c)
           docType == t.docType \/ (~ t.docTypeSuppressed /\ t.kind \in {"Package", "Data"})
           groups == [i \in DOMAIN t.params |->
                        [names |-> t.params[i].names, description |-> t.params[i].content.nodes]]
           arguments == IF t.params # <<>> THEN <<ArgumentsSection(groups)>> ELSE <<>>
           examples == [i \in DOMAIN t.examples |-> Spaced(example(t.examples[i]), "RCode")]
           seeAlso == IF t.seeAlso = <<>>
                      THEN [i \in DOMAIN t.packageSeeAlso |-> SeeAlsoSection(t.packageSeeAlso[i])]
                      ELSE Field(t.seeAlso)
           author == IF t.author = <<>>
                     THEN [i \in DOMAIN t.packageAuthor |-> AuthorSection(t.packageAuthor[i])]
                     ELSE Field(t.author)
           p1 == One(docType, Plain(<<Word("Text")>>, "Text"))
           p2 == <<Plain(<<Word("Verb")>>, "Verb")>>
           p3 == [i \in 1 .. t.aliases |-> Plain(<<Word("Verb")>>, "Verb")]
           p4 == <<Plain(t.title[1].nodes, "Text")>>
           p5 == Field(t.format)
           p6 == Field(t.source)
           p7 == UsageSection(t.usages)
           p8 == arguments
           p9 == Field(t.value)
           p10 == DescriptionSection(t)
           p11 == Field(t.details)
           p12 == Field(t.note)
           q1 == examples
           q2 == Field(t.references)
           q3 == seeAlso
           q4 == author
           q5 == [i \in 1 .. t.keywords |-> Plain(<<Word("Text")>>, "Text")]
           first == p1 \o p2 \o p3 \o p4 \o p5 \o p6 \o p7 \o p8 \o p9 \o p10 \o p11 \o p12
           last == q1 \o q2 \o q3 \o q4 \o q5
           single(nodes) == FlattenSeq([i \in DOMAIN nodes |-> Placed(nodes[i], FALSE)])
           middle == FlattenSeq([i \in DOMAIN named |-> Placed(named[i], TRUE)])
<1>1. Roots(t) = single(first) \o middle \o single(last)
  BY DEF Roots
<1>2. /\ "Text" \in LeafKinds /\ "RCode" \in LeafKinds /\ "Verb" \in LeafKinds
      /\ <<>> \in Seq(Whole) /\ \A node \in Whole : <<node>> \in Seq(Whole)
      /\ \A n \in Nat, node \in Whole : [i \in 1 .. n |-> node] \in Seq(Whole)
  BY DEF LeafKinds
<1>3. \A kind \in LeafKinds : Plain(<<Word(kind)>>, kind) \in Whole
  BY LeavesAre, OneIsFine, SpacedIsWhole
<1>4. \A field \in RichFields(t) :
        /\ Field(field) \in Seq(Whole)
        /\ \A i \in DOMAIN field : field[i].nodes \in Fine /\ Spaced(Trimmed(field[i]), "Text") \in Whole
  BY FieldIsWhole
<1>5. 1 \in DOMAIN t.title
  <2>1. t.title \in Seq(RichText)
    BY TopicFields DEF RichFields
  <2> QED
    BY <2>1
<1>6. named \in Seq(Whole)
  <2>1. DOMAIN t.sections = 1 .. Len(t.sections) /\ Len(t.sections) \in Nat
        /\ \A i \in DOMAIN t.sections : t.sections[i] \in [title : RichText, body : RichText]
    <3>1. t.sections \in Seq([title : RichText, body : RichText])
      BY TopicFields
    <3> QED
      BY <3>1, LenProperties, ElementOfSeq
  <2>2. \A i \in DOMAIN t.sections : t.sections[i].title.nodes \in Fine
                                   /\ t.sections[i].body.nodes \in Fine
    BY <2>1, FieldsAreConverted DEF ContentsAreFine, RichText
  <2> QED
    BY <2>1, <2>2, NamedIsWhole
<1>7. arguments \in Seq(Whole)
  <2>1. DOMAIN t.params = 1 .. Len(t.params) /\ Len(t.params) \in Nat
        /\ \A i \in DOMAIN t.params : t.params[i] \in [names : Seq(Node), content : RichText]
    <3>1. t.params \in Seq([names : Seq(Node), content : RichText])
      BY TopicFields
    <3> QED
      BY <3>1, LenProperties, ElementOfSeq
  <2>2. \A i \in DOMAIN t.params : t.params[i].names \in Fine /\ t.params[i].content.nodes \in Fine
    BY <2>1, FieldsAreConverted DEF ContentsAreFine, RichText
  <2>3. groups \in Seq([names : Fine, description : Fine])
    BY <2>1, <2>2
  <2> HIDE DEF groups
  <2>4. ArgumentsSection(groups) \in Whole
    BY <2>3, ArgumentsAreWhole
  <2> QED
    BY <1>2, <2>4
<1>8. examples \in Seq(Whole)
  <2>1. DOMAIN t.examples = 1 .. Len(t.examples) /\ Len(t.examples) \in Nat
        /\ \A i \in DOMAIN t.examples : t.examples[i] \in Content
    BY TopicFields, LenProperties, ElementOfSeq
  <2>2. ASSUME NEW i \in DOMAIN t.examples PROVE example(t.examples[i]) \in Fine
    <3>1. PICK c \in Content : c = t.examples[i]
      BY <2>1
    <3>2. c \in ContentsOf(t)
      BY <3>1, FieldsAreConverted DEF Range
    <3>3. c.source \in Seq(STRING) /\ c.conditional \in BOOLEAN
      BY DEF Content
    <3>4. CASE c.form = "Examples"
      <4>1. NodesIn(c) \in Fine
        BY <3>3, <3>4, LowerIsFine DEF NodesIn
      <4>2. ExamplesNodes([conditional |-> c.conditional, body |-> NodesIn(c)]) \in Fine
        BY <3>3, <4>1, ExamplesAreFine
      <4> QED
        BY <3>1, <3>4, <4>2
    <3>5. CASE c.form # "Examples"
      <4>1. c.nodes \in Fine
        BY <3>2, <3>5 DEF ContentsAreFine
      <4>2. Trimmed(c) \in Fine
        BY <1>2, <4>1, TrimIsFine DEF Trimmed
      <4> QED
        BY <3>1, <3>5, <4>2
    <3> QED
      BY <3>4, <3>5
  <2> HIDE DEF example
  <2>3. \A i \in DOMAIN t.examples : Spaced(example(t.examples[i]), "RCode") \in Whole
    BY <1>2, <2>2, SpacedIsWhole
  <2> QED
    BY <2>1, <2>3
<1>9. seeAlso \in Seq(Whole)
  <2>1. DOMAIN t.packageSeeAlso = 1 .. Len(t.packageSeeAlso) /\ Len(t.packageSeeAlso) \in Nat
        /\ \A i \in DOMAIN t.packageSeeAlso : t.packageSeeAlso[i] \in [urls : Nat, bugs : BOOLEAN]
    <3>1. t.packageSeeAlso \in Seq([urls : Nat, bugs : BOOLEAN])
      BY TopicFields
    <3> QED
      BY <3>1, LenProperties, ElementOfSeq
  <2>2. \A i \in DOMAIN t.packageSeeAlso : SeeAlsoSection(t.packageSeeAlso[i]) \in Whole
    <3>1. \A i \in DOMAIN t.packageSeeAlso : t.packageSeeAlso[i].urls \in Nat
      BY <2>1
    <3> QED
      BY <3>1, SeeAlsoIsWhole
  <2>3. [i \in DOMAIN t.packageSeeAlso |-> SeeAlsoSection(t.packageSeeAlso[i])] \in Seq(Whole)
    BY <2>1, <2>2
  <2>4. Field(t.seeAlso) \in Seq(Whole)
    BY <1>4 DEF RichFields
  <2> QED
    BY <2>3, <2>4
<1>10. author \in Seq(Whole)
  <2>1. DOMAIN t.packageAuthor = 1 .. Len(t.packageAuthor) /\ Len(t.packageAuthor) \in Nat
        /\ \A i \in DOMAIN t.packageAuthor : t.packageAuthor[i] \in PackageAuthor
    BY TopicFields, LenProperties, ElementOfSeq
  <2>2. t.author = <<>> => \A i \in DOMAIN t.packageAuthor : AuthorSection(t.packageAuthor[i]) \in Whole
    BY <2>1, AuthorIsWhole
  <2>3. t.author = <<>> =>
          [i \in DOMAIN t.packageAuthor |-> AuthorSection(t.packageAuthor[i])] \in Seq(Whole)
    BY <2>1, <2>2
  <2>4. Field(t.author) \in Seq(Whole)
    BY <1>4 DEF RichFields
  <2> QED
    BY <2>3, <2>4
<1> HIDE DEF named, arguments, examples, seeAlso, author, docType
<1>11. first \in Seq(Whole)
  <2>1. p1 \in Seq(Whole) /\ p2 \in Seq(Whole)
    BY <1>2, <1>3 DEF One
  <2>2. p3 \in Seq(Whole)
    BY <1>2, <1>3, TopicFields
  <2>3. p4 \in Seq(Whole)
    <3>1. t.title[1].nodes \in Fine
      BY <1>4, <1>5 DEF RichFields
    <3> QED
      BY <1>2, <3>1, SpacedIsWhole
  <2>4. p5 \in Seq(Whole) /\ p6 \in Seq(Whole) /\ p9 \in Seq(Whole) /\ p11 \in Seq(Whole)
        /\ p12 \in Seq(Whole)
    BY <1>4 DEF RichFields
  <2>5. p7 \in Seq(Whole)
    <3>1. t.usages \in Seq(UsageContribution)
      BY TopicFields
    <3> QED
      BY <1>2, <3>1, UsageIsWhole
  <2>6. p8 \in Seq(Whole)
    BY <1>7
  <2>7. p10 \in Seq(Whole)
    <3>1. Field(t.description) \in Seq(Whole)
      BY <1>4 DEF RichFields
    <3>2. ReexportSection(t.reexports) \in Whole
      <4>1. t.reexports \in Seq(Nat \ {0})
        BY TopicFields
      <4> QED
        BY <4>1, ReexportIsWhole
    <3>3. Spaced(Trimmed(t.title[1]), "Text") \in Whole
      BY <1>4, <1>5 DEF RichFields
    <3> QED
      BY <1>2, <3>1, <3>2, <3>3 DEF DescriptionSection, One
  <2> HIDE DEF p1, p2, p3, p4, p5, p6, p7, p8, p9, p10, p11, p12
  <2> QED
    BY <2>1, <2>2, <2>3, <2>4, <2>5, <2>6, <2>7
<1>12. last \in Seq(Whole)
  <2>1. q1 \in Seq(Whole) /\ q2 \in Seq(Whole) /\ q3 \in Seq(Whole) /\ q4 \in Seq(Whole)
    BY <1>4, <1>8, <1>9, <1>10 DEF RichFields
  <2>2. q5 \in Seq(Whole)
    BY <1>2, <1>3, TopicFields
  <2> HIDE DEF q1, q2, q3, q4, q5
  <2> QED
    BY <2>1, <2>2
<1> HIDE DEF first, last
<1>13. single(first) \in Finished /\ middle \in Finished /\ single(last) \in Finished
  BY <1>6, <1>11, <1>12, SectionsAreFinished
<1> HIDE DEF single, middle
<1>14. (single(first) \o middle) \o single(last) \in Finished
  BY <1>13, FinishedJoin DEF Finished
<1> QED
  BY <1>1, <1>14 DEF Finished

\* No name and no comment that a topic shows of a person has a line break.
PeopleFit(p) ==
  \A k \in DOMAIN p.topics : p.topics[k].author = <<>> =>
    \A i \in DOMAIN p.topics[k].packageAuthor : AuthorsOnOneLine(p.topics[k].packageAuthor[i])

\* A topic whose contents are taken is taken.
LEMMA ContentsSuffice ==
  ASSUME NEW t \in RdTopic, t.title # <<>>,
         \A i \in DOMAIN Converted(t) : \/ Converted(t)[i].form = "Examples"
                                       \/ Representable(Converted(t)[i].nodes),
         \A i \in DOMAIN t.params : Representable(t.params[i].names),
         t.author = <<>> => \A i \in DOMAIN t.packageAuthor : AuthorsOnOneLine(t.packageAuthor[i])
  PROVE  Representable(Roots(t))
<1>1. ASSUME NEW c \in ContentsOf(t), c.form # "Examples" PROVE c.nodes \in Fine
  <2>1. c.nodes \in Seq(Node)
    BY FieldsAreConverted DEF Content
  <2>2. Representable(c.nodes)
    BY <1>1 DEF ContentsOf
  <2> QED
    BY <2>1, <2>2 DEF Fine
<1>2. ASSUME NEW i \in DOMAIN t.params PROVE t.params[i].names \in Fine
  <2>1. t.params \in Seq([names : Seq(Node), content : RichText])
    BY TopicFields
  <2>2. t.params[i] \in [names : Seq(Node), content : RichText]
    BY <2>1, LenProperties, ElementOfSeq
  <2> QED
    BY <2>2 DEF Fine
<1>3. ContentsAreFine(t)
  BY <1>1, <1>2 DEF ContentsAreFine
<1>4. Roots(t) \in Fine
  BY <1>3, DocumentIsFine
<1> QED
  BY <1>4 DEF Fine

LEMMA TopicsOfPackage ==
  ASSUME TypeInv, NEW k \in Topics
  PROVE  pkg.topics[k] \in RdTopic
<1>1. pkg.topics \in Seq(RdTopic)
  BY TopicsAssumption DEF TypeInv
<1> QED
  BY <1>1, ElementOfSeq, LenProperties DEF Topics

LEMMA PeopleFitDocuments ==
  ASSUME TypeInv, PeopleFit(pkg)
  PROVE  DocumentsAreAssembled
<1> SUFFICES ASSUME NEW k \in Topics, NEW t, t = pkg.topics[k], t.title # <<>>,
                    \A i \in DOMAIN Converted(t) : \/ Converted(t)[i].form = "Examples"
                                                  \/ Representable(Converted(t)[i].nodes),
                    \A i \in DOMAIN t.params : Representable(t.params[i].names)
             PROVE  Representable(Roots(t))
  BY DEF DocumentsAreAssembled
<1>1. t \in RdTopic
  BY TopicsOfPackage
<1>2. t.author = <<>> => \A i \in DOMAIN t.packageAuthor : AuthorsOnOneLine(t.packageAuthor[i])
  BY DEF PeopleFit, Topics
<1> QED
  BY <1>1, <1>2, ContentsSuffice

LEMMA CodeStays ==
  ASSUME TypeInv
  PROVE  ExamplesStayR
<1> SUFFICES ASSUME NEW k \in Topics, NEW t, t = pkg.topics[k], NEW i \in DOMAIN t.examples
             PROVE  BackslashesAreSaid(t.examples[i].source)
  BY DEF ExamplesStayR
<1>1. t \in RdTopic
  BY TopicsOfPackage
<1>2. t.examples[i] \in Content
  BY <1>1, TopicFields, LenProperties, ElementOfSeq
<1>3. t.examples[i].source \in Seq(STRING)
  BY <1>2 DEF Content
<1> QED
  BY <1>3, EveryBackslashIsSaid

-----------------------------------------------------------------------------
(* What a run promises *)

\* Whatever the stages say and in whichever of them, an error is in the report
\* at the end and keeps every file from being written, and nothing else does.
THEOREM GateIsSound == Spec => []ErrorsShutTheGate
  BY RunInvariant, GateShuts, PTL

\* Whatever the topics are named and whatever fails in them: exactly those are
\* left out that fail or share their file name, each with an error that says so.
THEOREM EveryTopicIsSeen == Spec => []NoTopicVanishes
  BY RunInvariant, NothingVanishes, PTL

\* Whatever looks up substitutions, in whichever stage: one that is reported
\* unused is in no document, and one that is not reported is in the package.
THEOREM UnusedIsMeant == Spec => []UnusedIsUnused
  BY RunInvariant, UnusedSaid, PTL

\* Whatever the source of examples is: no code of it is lost, and a backslash
\* in it is a lambda's or is reported, by itself or by what is open before it.
THEOREM ExamplesAreR == Spec => []ExamplesStayR
<1>1. RunInv => ExamplesStayR
  BY CodeStays DEF RunInv
<1> QED
  BY <1>1, RunInvariant, PTL

\* Whatever a package has: unless the name or a comment of a person that a
\* topic shows has a line break, the writer takes the document of every topic
\* of which it takes each content, and its examples are R.
THEOREM DocumentsAreTaken == Spec => [](PeopleFit(pkg) => DocumentsAreWritable)
<1>1. RunInv => (PeopleFit(pkg) => DocumentsAreWritable)
  BY PeopleFitDocuments, CodeStays DEF RunInv, DocumentsAreWritable
<1> QED
  BY <1>1, RunInvariant, PTL
=============================================================================
