------------------------------- MODULE DocRun -------------------------------
(***************************************************************************)
(* One run of the documentation command: inputs and configuration, then    *)
(* every stage of document_package_with_options_and_providers, each of     *)
(* which goes on after the errors of an earlier one, then the gate before  *)
(* the writer.  The diagnostics of the stages are kept apart as in the     *)
(* code: of the analysis, of the Rd build, of NAMESPACE.  The Rd build's   *)
(* are deduplicated, the first stays: they are kept by topic, in order.    *)
(* The order of the others is not looked at; they are sets.                *)
(*                                                                         *)
(* What parsing, the topic model, inheritance and NAMESPACE have to say is *)
(* part of the package (their own modules say when); the Rd build is that  *)
(* of RdTopics, topic by topic.  A diagnostic is its severity, its code    *)
(* and its place.                                                          *)
(***************************************************************************)
EXTENDS RdTopics

CONSTANTS Builtins,  \* expressions with a built-in substitution
          Families   \* sets of packages, with their configuration

\* Codes of what several topics can say of one content they share.
InlineCodes == {"UnsupportedInlineR", "UndefinedInlineRSubstitution"}
IsList(s) == Len(s) \in Nat /\ DOMAIN s = 1 .. Len(s)

\* Topics are what the model of the package makes of blocks and DESCRIPTION.
ASSUME TopicsAssumption ==
  \A Packages \in Families : \A p \in Packages : p.topics \in Seq(RdTopic)
\* What a package is: every topic is made from blocks, the codes of inline R
\* are errors wherever they are raised, and the codes of this module's own
\* stages are raised nowhere else (diagnostic.rs, model/merge).
ASSUME PackagesAssumption ==
  \A Packages \in Families : \A p \in Packages :
    /\ IsList(p.files) /\ IsList(p.topics)
    /\ \A d \in (UNION {p.files[i] : i \in DOMAIN p.files}) \cup p.model \cup p.inherit :
         d.code # "UnusedInlineRSubstitution"
    /\ \A k \in DOMAIN p.topics :
         /\ p.topics[k].blocks > 0
         /\ \A c \in ContentsOf(p.topics[k]) : \A d \in c.problems :
              /\ d = Diagnostic(d.severity, d.code, d.place)
              /\ d.code # "ConflictingRdFileName"
              /\ d.code \in InlineCodes => d.severity = "Error"

VARIABLES
  pc,
  pkg,               \* constant through a run
  at,                \* files parsed, or topics built, so far
  analysis,          \* diagnostics of the analysis
  rd,                \* of each topic built, in their order
  namespace,         \* of NAMESPACE
  used,              \* InlineRUsage::matched_user_keys
  files,             \* RdBuildOutput::files: topic -> path
  status,            \* of the command
  published,         \* the topics whose files the writer was given
  \* History.
  raised             \* errors any stage has raised

vars == <<pc, pkg, at, analysis, rd, namespace, used, files, status, published, raised>>

Errors(diagnostics) == {d \in diagnostics : d.severity = "Error"}
RdSaid == UNION {rd[k] : k \in DOMAIN rd}
Shown == analysis \cup RdSaid \cup namespace
\* The table is the built-in entries and the user's, which override them;
\* only lookups of the user's are recorded.
Table == Builtins \cup pkg.user
Recorded(looked) == looked \cap pkg.user
Function0 == [k \in {} |-> <<>>]

Init ==
  /\ \E Packages \in Families : pkg \in Packages
  /\ pc = "inputs" /\ at = 0 /\ status = "Running" /\ published = {}
  /\ analysis = {} /\ rd = <<>> /\ namespace = {}
  /\ used = {} /\ files = Function0 /\ raised = {}

Stop(s) ==
  /\ pc' = "done" /\ status' = s
  /\ UNCHANGED <<pkg, at, analysis, rd, namespace, used, files, published, raised>>

-----------------------------------------------------------------------------
(* run: before the pipeline *)

Goto(label) ==
  /\ pc' = label
  /\ UNCHANGED <<pkg, at, analysis, rd, namespace, used, files, status, published, raised>>

\* PackageInputs::from_package_root
LoadInputs ==
  /\ pc = "inputs"
  /\ IF pkg.inputs = "unreadable" THEN Stop("Operational") ELSE Goto("config")

\* config::load and the table of substitutions: a configuration that cannot
\* be read is operational, a substitution that is not Rd is a diagnostic.
LoadConfig ==
  /\ pc = "config"
  /\ CASE pkg.config = "unreadable" -> Stop("Operational")
       [] pkg.config = "invalid" -> Stop("Diagnostics")
       [] OTHER -> Goto("parse")

-----------------------------------------------------------------------------
(* The pipeline *)

Say(diagnostics) ==
  /\ analysis' = analysis \cup diagnostics
  /\ raised' = raised \cup Errors(diagnostics)

\* One R file: syntax, registrars, then the tags of its blocks.
ParseFile ==
  /\ pc = "parse" /\ at < Len(pkg.files)
  /\ Say(pkg.files[at + 1]) /\ at' = at + 1
  /\ UNCHANGED <<pc, pkg, rd, namespace, used, files, status, published>>

BuildModel ==
  /\ pc = "parse" /\ at = Len(pkg.files)
  /\ Say(pkg.model)
  /\ pc' = "inherit"
  /\ UNCHANGED <<pkg, at, rd, namespace, used, files, status, published>>

\* Mutant: inheritance with a session of its own.
Keyed_OwnSession == {}
Keyed == pkg.keyed

\* Titles of sections are converted for their keys with the session of the
\* run; what those conversions say is dropped, what they look up counts.
Inherit ==
  /\ pc = "inherit"
  /\ Say(pkg.inherit)
  /\ used' = used \cup Recorded(Keyed)
  /\ pc' = "topics" /\ at' = 0
  /\ UNCHANGED <<pkg, rd, namespace, files, status, published>>

\* Mutant: a topic with a title claims its name even when it fails.
Claim_Eager(topic, result) ==
  IF Refused(topic) THEN <<>> ELSE OutputPath(topic.key)
Claim(topic, result) == result.path

\* build_with_context, first loop: the next topic in the order of the keys.
BuildTopic ==
  /\ pc = "topics" /\ at < Len(pkg.topics)
  /\ \E topic \in {pkg.topics[at + 1]}, result \in {Build(pkg.topics[at + 1], Table)} :
        /\ rd' = Append(rd, result.diagnostics)
        /\ raised' = raised \cup Errors(result.diagnostics)
        /\ used' = used \cup Recorded(result.looked)
        /\ files' = IF Claim(topic, result) = <<>> THEN files
                    ELSE [k \in DOMAIN files \cup {at + 1} |->
                            IF k = at + 1 THEN Claim(topic, result)[1] ELSE files[k]]
  /\ at' = at + 1
  /\ UNCHANGED <<pc, pkg, analysis, namespace, status, published>>

\* Second loop: each topic after the first with its path collides with that
\* first one; all of them are left out.
FirstWith(path) == CHOOSE k \in DOMAIN files : files[k] = path
                     /\ \A j \in DOMAIN files : files[j] = path => k <= j
Late == {k \in DOMAIN files : FirstWith(files[k]) # k}
\* Mutant: the first claimant keeps its file.
Colliding_Late == Late
Colliding == Late \cup {FirstWith(files[k]) : k \in Late}
JudgeNames ==
  LET said(k) == SaidIf(k \in Late,
                        Diagnostic("Error", "ConflictingRdFileName", pkg.topics[k].key))
  IN /\ pc = "topics" /\ at = Len(pkg.topics)
     /\ rd' = [k \in DOMAIN rd |-> rd[k] \cup said(k)]
     /\ raised' = raised \cup UNION {said(k) : k \in DOMAIN rd}
     /\ files' = [k \in DOMAIN files \ Colliding |-> files[k]]
     /\ pc' = "dedup"
     /\ UNCHANGED <<pkg, at, analysis, namespace, used, status, published>>

\* deduplicate_inline_r_diagnostics: of equal code and place the first.
\* Mutant: of equal place the first.
Repeated_Place(k, d) ==
  d.code \in InlineCodes /\ \E j \in 1 .. k - 1 : \E e \in rd[j] : e.place = d.place
Repeated(k, d) ==
  /\ d.code \in InlineCodes
  /\ \E j \in 1 .. k - 1 : \E e \in rd[j] : e.code = d.code /\ e.place = d.place
Deduplicate ==
  /\ pc = "dedup"
  /\ rd' = [k \in DOMAIN rd |-> {d \in rd[k] : ~ Repeated(k, d)}]
  /\ pc' = "unused"
  /\ UNCHANGED <<pkg, at, analysis, namespace, used, files, status, published, raised>>

\* unused_diagnostics joins the analysis, after the Rd build has used them.
ReportUnused ==
  /\ pc = "unused"
  /\ Say({Diagnostic("Warning", "UnusedInlineRSubstitution", <<e>>) : e \in pkg.user \ used})
  /\ pc' = "namespace"
  /\ UNCHANGED <<pkg, at, rd, namespace, used, files, status, published>>

BuildNamespace ==
  /\ pc = "namespace"
  /\ namespace' = pkg.namespace
  /\ raised' = raised \cup Errors(pkg.namespace)
  /\ pc' = "gate"
  /\ UNCHANGED <<pkg, at, analysis, rd, used, files, status, published>>

-----------------------------------------------------------------------------
(* write_gate *)

\* Mutant: NAMESPACE comes after the gate.
HasErrorsAnywhere_SoFar == HasErrors(analysis) \/ HasErrors(RdSaid)
HasErrorsAnywhere == HasErrors(analysis) \/ HasErrors(RdSaid) \/ HasErrors(namespace)

\* The plan may be refused and the writer may fail: OutputWriter says when.
Gate ==
  /\ pc = "gate"
  /\ \/ HasErrorsAnywhere /\ Stop("Diagnostics")
     \/ ~ HasErrorsAnywhere /\ Stop("Operational")
     \/ /\ ~ HasErrorsAnywhere
        /\ published' = DOMAIN files
        /\ pc' = "done" /\ status' = "Success"
        /\ UNCHANGED <<pkg, at, analysis, rd, namespace, used, files, raised>>

Done == pc = "done" /\ UNCHANGED vars

Next ==
  \/ LoadInputs \/ LoadConfig \/ ParseFile \/ BuildModel \/ Inherit \/ BuildTopic
  \/ JudgeNames \/ Deduplicate \/ ReportUnused \/ BuildNamespace \/ Gate \/ Done

Spec == Init /\ [][Next]_vars

-----------------------------------------------------------------------------
(* Properties *)

\* The pipeline ran: nothing stopped the command before it.
Ran == pkg.inputs = "fine" /\ pkg.config \in {"none", "fine"}
Topics == DOMAIN pkg.topics
PathsAlone == [k \in Topics |-> Build(pkg.topics[k], Table).path]

\* Of the topics that could be built on their own, exactly those are kept
\* whose file name no other of them has: all claimants of a shared name are
\* left out, however many, and a topic that failed takes none with it.
\* Every topic left out after the first is named in an error
\* (rd/mod.rs:build_with_context).
CollidersAreLeftOut ==
  pc \in {"dedup", "unused", "namespace", "gate"} =>
    \A paths \in {PathsAlone} :
      LET built == {k \in Topics : paths[k] # <<>>}
          rivals(k) == {j \in built : paths[j] = paths[k]}
          blamed == {d.place : d \in {e \in RdSaid : e.code = "ConflictingRdFileName"}}
      IN /\ DOMAIN files = {k \in built : rivals(k) = {k}}
         /\ blamed = {pkg.topics[k].key : k \in {j \in built : \E i \in rivals(j) : i < j}}

\* An error of any stage, whichever stages follow it, is in the report and
\* keeps every file from being written; without one the command does not end
\* with the status of diagnostics (pipeline.rs:has_errors, doc.rs:write_gate).
ErrorsShutTheGate ==
  pc = "done" /\ Ran =>
    /\ raised \subseteq Errors(Shown)
    /\ raised # {} <=> status = "Diagnostics"
    /\ published # {} => raised = {}

Places(t) ==
  {t.key} \cup UNION {{e.place : e \in c.inline} \cup {d.place : d \in c.problems} \cup {c.place} :
                        c \in ContentsOf(t)}

\* A topic without a file has an error at its own place or at that of a
\* content it shows, after all deduplication: two topics that inherit one
\* bad paragraph may share the diagnostic, no topic may have none.
LossesAreReported ==
  pc = "done" /\ Ran =>
    \A k \in Topics \ DOMAIN files :
      \/ \E e \in Errors(Shown) : e.place \in Places(pkg.topics[k])
      \/ \E j \in Topics \ {k} : /\ OutputPath(pkg.topics[j].key) = OutputPath(pkg.topics[k].key)
                             /\ \E e \in Errors(Shown) : e.place = pkg.topics[j].key

\* No topic vanishes: a topic has its file, exactly those whose file name is
\* claimed by others have none, and every one without has an error that says so.
NoTopicVanishes == CollidersAreLeftOut /\ LossesAreReported

Mentions(t) == UNION {LookedUp(c) : c \in ContentsOf(t)}
ReportedUnused ==
  {d.place[1] : d \in {e \in analysis : e.code = "UnusedInlineRSubstitution"}}

\* A substitution is reported unused only if no document and no section key
\* looked it up, in whichever stage; one that is not reported is somewhere
\* in the package (inline_r.rs:unused_diagnostics over the one session of
\* the run).
UnusedIsUnused ==
  pc \in {"namespace", "gate"} =>
    \A e \in pkg.user :
      IF e \in ReportedUnused
      THEN e \notin pkg.keyed /\ \A k \in DOMAIN files : e \notin Mentions(pkg.topics[k])
      ELSE e \in pkg.keyed \/ \E k \in Topics : e \in Mentions(pkg.topics[k])

\* Documents are put together so that the writer takes them whenever it takes
\* each content that was converted: no piece of any section ends up next to
\* one of its kind that does not end a line, and examples are taken whatever
\* their source is (rd/mod.rs: "Builds writer-valid Rd documents").
DocumentsAreAssembled ==
  pc = "topics" =>
    \A k \in Topics :
      LET t == pkg.topics[k] IN
      /\ t.title # <<>>
      /\ \A i \in DOMAIN Converted(t) : \/ Converted(t)[i].form = "Examples"
                                       \/ Representable(Converted(t)[i].nodes)
      /\ \A i \in DOMAIN t.params : Representable(t.params[i].names)
      => Representable(Roots(t))

\* In example code that will run, every backslash is that of a lambda, or an
\* issue points at it or at an introducer before it that is never closed;
\* and no code is lost: it is in the document, in a macro or outside
\* (examples_raw_rd.rs:lower_rlike, scan_candidate).
BackslashesAreSaid(source) ==
  LET done == Lower(source)
      opens(issue) == Token(source, issue.to - 1) = Opening
      covers(issue, i) == issue.from <= i /\ (i < issue.to \/ opens(issue))
  IN /\ \A leaf \in done.leaves : leaf.tag = "RCode" =>
          \A i \in FirstAt(source, "\\", leaf.from, leaf.to) :
            \/ Token(source, i + 1) = "("
            \/ \E issue \in done.issues : covers(issue, i)
     /\ \A i \in DOMAIN source :
          source[i] \in CodeTokens =>
            \E leaf \in done.leaves : leaf.from <= i /\ i < leaf.to
ExamplesStayR ==
  pc = "topics" /\ at = 0 =>
    \A k \in Topics : \A i \in DOMAIN pkg.topics[k].examples :
      LET c == pkg.topics[k].examples[i] IN c.form = "Examples" => BackslashesAreSaid(c.source)

\* Whatever the parts are, the document of a topic is one the writer takes, and
\* its examples are the R code of the source.
DocumentsAreWritable == DocumentsAreAssembled /\ ExamplesStayR

=============================================================================
