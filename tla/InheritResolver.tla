--------------------------- MODULE InheritResolver ---------------------------
(***************************************************************************)
(* resolve_inheritance_with_substitutions: every topic's requests are      *)
(* prepared, the topics on an inheritance cycle keep only what they say    *)
(* themselves, and the others are filled from their donors, donors first.  *)
(* Topics of other packages come from a provider that may find them, miss  *)
(* them or fail, differently at each call.                                 *)
(*                                                                         *)
(* Topics are numbered in key order.  The content of a field, a section or *)
(* a parameter group is abstracted to its writer: the topic whose author   *)
(* wrote it.  The analysis of the graph is InheritGraph.tla, which is      *)
(* proved to find the classes and the order taken here.                    *)
(***************************************************************************)
EXTENDS DonorGraph, InheritParams

CONSTANTS NumTopics,    \* topics of the package, and their keys as names
          NumNames,     \* keys, then names that are aliases only
          NumExternals, \* package::topic names of other packages
          Canonical,    \* the help topic each of these names leads to
          ExternalDocs, \* what the help topics say
          Fields,       \* the single-value fields
          Scenes        \* the packages to resolve, each with an ExternalInheritancePolicy

Topics == 1 .. NumTopics
Names == 1 .. NumNames
Externals == 1 .. NumExternals
\* Help topics are numbered after the local ones.
HelpTopics == {NumTopics + Canonical[e] : e \in Externals}
Nobody == 0

ASSUME NumberAssumption ==
  NumTopics \in Nat /\ NumNames \in Nat /\ NumExternals \in Nat /\ NumTopics <= NumNames
ASSUME CanonicalAssumption == Canonical \in [Externals -> Externals]
ASSUME PolicyAssumption == \A s \in Scenes : s[2] \in {"Off", "BestEffort", "Strict"}

\* A request asks a local name, a name of another package, or one that cannot
\* be read, or it suppresses.
IsRequest(r) == /\ r.to \in {"local", "external", "malformed", "suppress"}
                /\ r.to = "external" => r.name \in Externals
ASSUME RequestAssumption ==
  \A s \in Scenes : \A t \in Topics :
    LET r == s[1][t].requests IN
    r \in Seq(Range(r)) /\ \A i \in DOMAIN r : IsRequest(r[i])

\* What a topic says of its sections, formals and parameters are lists.  A
\* topic describes a parameter once; what a help topic says is its own.
IsList(l) == l \in Seq(Range(l))
ASSUME ListsAssumption ==
  /\ \A s \in Scenes : \A t \in Topics :
       LET own == s[1][t] IN
       /\ IsList(own.sections) /\ IsList(own.formals) /\ IsList(own.params)
       /\ \A i, j \in DOMAIN own.params : own.params[i] \cap own.params[j] # {} => i = j
  /\ \A e \in Externals :
       LET docs == ExternalDocs[Canonical[e]] IN
       /\ IsList(docs.sections) /\ IsList(docs.params)
       /\ \A i \in DOMAIN docs.params : docs.params[i].writer = NumTopics + Canonical[e]

VARIABLES
  pc,          \* prepare, graph, cycles, resolve or done
  pkg,         \* the package model, constant through a run
  policy,
  normalized,  \* the prepared requests of each topic, by their positions
  edges,       \* the graph of local requests, by the same positions
  waiting,     \* components the current loop has yet to pass
  memo,        \* the resolved topics
  current,     \* the topic under resolution, or Nobody
  donors,      \* the donors found so far for its requests
  externalMemo,\* the provider's answer to each name asked
  asked,       \* history: how often the provider was asked each name
  diagnostics

vars == <<pc, pkg, policy, normalized, edges, waiting, memo, current, donors,
          externalMemo, asked, diagnostics>>

Report(code, t, i) == [code |-> code, topic |-> t, at |-> i]

-----------------------------------------------------------------------------
(* Resolver::prepare *)

\* lookup_local_topic: the key itself, or the topics with that alias.
LocalKeys(name) ==
  IF name \in Topics THEN {name} ELSE {t \in Topics : name \in pkg[t].aliases}

\* prepare_target.  An own-package qualification is a local name here.
PrepareTarget(r) ==
  IF r.to # "local" THEN [to |-> r.to, donor |-> r.name]
  ELSE IF \E t \in Topics : LocalKeys(r.name) = {t}
       THEN [to |-> "local", donor |-> CHOOSE t \in Topics : LocalKeys(r.name) = {t}]
  ELSE [to |-> IF LocalKeys(r.name) = {} THEN "missing" ELSE "ambiguous", donor |-> r.name]

Suppressed(requests) == UNION {r.fields : r \in {q \in ToSet(requests) : q.to = "suppress"}}

PrepareRequest(t, i) ==
  LET r == pkg[t].requests[i] IN
  [request |-> r, target |-> PrepareTarget(r),
   effective |-> r.fields \ Suppressed(pkg[t].requests)]

\* Mutant: the selectors are not compared.
RequestIdentity_NoSelectors(p) == <<p.target, p.request.kind, p.request.fields, p.request.title>>

\* Two requests are the same: same target once resolved, same kind, same
\* set of fields, same selectors in the same order, same section.
RequestIdentity(p) ==
  <<p.target, p.request.kind, p.request.fields, p.request.filtered,
    p.request.selectors, p.request.title>>

IsDuplicate(t, i) ==
  /\ pkg[t].requests[i].to # "suppress"
  /\ \E j \in 1 .. i - 1 :
       RequestIdentity(PrepareRequest(t, j)) = RequestIdentity(PrepareRequest(t, i))

\* Duplicates are dropped before the requests with nothing left to inherit;
\* a request that stays keeps its position, and with it its place in the order.
Normalize(t) ==
  LET all == [i \in DOMAIN pkg[t].requests |-> PrepareRequest(t, i)]
      kept == {i \in DOMAIN all :
                 ~IsDuplicate(t, i) /\ (all[i].effective # {} \/ all[i].target.to = "suppress")}
  IN [i \in kept |-> all[i]]

DuplicateReports(t) ==
  {Report("Duplicate", t, i) : i \in {j \in DOMAIN pkg[t].requests : IsDuplicate(t, j)}}

Prepare ==
  /\ pc = "prepare"
  /\ pc' = "graph"
  /\ normalized' = [t \in Topics |-> Normalize(t)]
  /\ diagnostics' = UNION {DuplicateReports(t) : t \in Topics}
  /\ UNCHANGED <<pkg, policy, edges, waiting, memo, current, donors, externalMemo, asked>>

\* Mutant: requests with nothing left to inherit are edges too.
LocalDonors_Raw(t) ==
  LET all == [i \in DOMAIN pkg[t].requests |-> PrepareRequest(t, i)]
      local == {i \in DOMAIN all : all[i].target.to = "local"}
  IN [i \in local |-> all[i].target.donor]

\* Resolver::graph, then analyze_inheritance_graph.
LocalDonors(t) ==
  LET p == normalized[t]
      local == {i \in DOMAIN p : p[i].target.to = "local" /\ p[i].effective # {}}
  IN [i \in local |-> p[i].target.donor]

Analyse ==
  /\ pc = "graph"
  /\ pc' = "cycles"
  /\ edges' = [t \in Topics |-> LocalDonors(t)]
  /\ waiting' = {C \in Classes(edges') : IsCyclic(edges', C)}
  /\ UNCHANGED <<pkg, policy, normalized, memo, current, donors, externalMemo, asked,
                 diagnostics>>

-----------------------------------------------------------------------------
(* local_only_topic *)

Keys(sections) == {s.key : s \in ToSet(sections)}
AddSection(sections, s) ==
  IF s.key \in Keys(sections) THEN sections ELSE Append(sections, s)
AddSections(sections, more) ==
  LET added[n \in 0 .. Len(more)] ==
        IF n = 0 THEN sections ELSE AddSection(added[n - 1], more[n])
  IN added[Len(more)]

\* What a topic says itself; of two sections with one title the first.
OwnSections(t) == [i \in DOMAIN pkg[t].sections |-> [key |-> pkg[t].sections[i], writer |-> t]]
LocalOnly(t) ==
  [prose    |-> [f \in Fields |-> IF f \in pkg[t].own THEN t ELSE Nobody],
   sections |-> AddSections(<<>>, OwnSections(t)),
   params   |-> [i \in DOMAIN pkg[t].params |-> [names |-> pkg[t].params[i], writer |-> t]]]
SectionConflicts(t) ==
  {Report("ConflictingSection", t, i) : i \in {j \in DOMAIN pkg[t].sections :
     \E k \in 1 .. j - 1 : pkg[t].sections[k] = pkg[t].sections[j]}}

-----------------------------------------------------------------------------
(* Cyclic components *)

\* The requests between members; the first is in the order of emit_cycles.
CycleRequests(C) ==
  {r \in UNION {{t} \X DOMAIN normalized[t] : t \in C} :
     LET target == normalized[r[1]][r[2]].target IN target.to = "local" /\ target.donor \in C}
FirstCycleRequest(C) ==
  {r \in CycleRequests(C) : \A q \in CycleRequests(C) :
     r[1] < q[1] \/ (r[1] = q[1] /\ r[2] <= q[2])}

\* Mutant: the members of a cycle are reported and left out.
RecoverCycle_LeftOut(C) ==
  /\ pc = "cycles"
  /\ IsFirst(C, waiting)
  /\ waiting' = waiting \ {C}
  /\ diagnostics' = diagnostics \cup {Report("Cycle", r[1], r[2]) : r \in FirstCycleRequest(C)}
  /\ UNCHANGED <<pc, pkg, policy, normalized, edges, memo, current, donors, externalMemo, asked>>

\* The members keep what they say themselves; one error names the cycle, at
\* the first request on it.
RecoverCycle(C) ==
  /\ pc = "cycles"
  /\ IsFirst(C, waiting)
  /\ waiting' = waiting \ {C}
  /\ memo' = [t \in DOMAIN memo \cup C |-> IF t \in C THEN LocalOnly(t) ELSE memo[t]]
  /\ diagnostics' = diagnostics \cup (UNION {SectionConflicts(t) : t \in C})
                    \cup {Report("Cycle", r[1], r[2]) : r \in FirstCycleRequest(C)}
  /\ UNCHANGED <<pc, pkg, policy, normalized, edges, current, donors, externalMemo, asked>>

EndCycles ==
  /\ pc = "cycles" /\ waiting = {}
  /\ pc' = "resolve"
  /\ waiting' = Classes(edges)
  /\ UNCHANGED <<pkg, policy, normalized, edges, memo, current, donors, externalMemo,
                 asked, diagnostics>>

-----------------------------------------------------------------------------
(* The other components, in dependency order *)

Ready == {C \in waiting : DonorParts(edges, waiting, C) = {}}

PassCycle(C) ==
  /\ pc = "resolve" /\ current = Nobody
  /\ IsFirst(C, Ready) /\ IsCyclic(edges, C)
  /\ waiting' = waiting \ {C}
  /\ UNCHANGED <<pc, pkg, policy, normalized, edges, memo, current, donors, externalMemo,
                 asked, diagnostics>>

\* Mutant: the topics are resolved in key order.
StartTopic_KeyOrder(t) ==
  /\ pc = "resolve" /\ current = Nobody
  /\ IsFirst({t}, waiting) /\ ~IsCyclic(edges, {t})
  /\ waiting' = waiting \ {{t}}
  /\ current' = t
  /\ donors' = <<>>
  /\ UNCHANGED <<pc, pkg, policy, normalized, edges, memo, externalMemo, asked, diagnostics>>

StartTopic(t) ==
  /\ pc = "resolve" /\ current = Nobody
  /\ IsFirst({t}, Ready) /\ ~IsCyclic(edges, {t})
  /\ waiting' = waiting \ {{t}}
  /\ current' = t
  /\ donors' = <<>>
  /\ UNCHANGED <<pc, pkg, policy, normalized, edges, memo, externalMemo, asked, diagnostics>>

\* Resolver::donor, for the next request of the current topic: the donors
\* are kept by the positions of the requests.
Fetching(i) ==
  LET left == DOMAIN normalized[current] \ DOMAIN donors IN
  current # Nobody /\ i \in left /\ \A j \in left : i <= j
Target(i) == normalized[current][i].target

Record(i, d) == donors' = [k \in DOMAIN donors \cup {i} |-> IF k = i THEN d ELSE donors[k]]
Found(d, i) == Record(i, d) /\ UNCHANGED diagnostics
NotFound(code, i) ==
  Record(i, Nobody) /\ diagnostics' = diagnostics \cup {Report(code, current, i)}

FetchNothing(i) ==
  /\ Fetching(i)
  /\ \/ Target(i).to = "suppress" /\ Found(Nobody, i)
     \/ Target(i).to \in {"malformed", "missing", "ambiguous"} /\ NotFound("Invalid", i)
     \/ Target(i).to = "external" /\ policy = "Off" /\ NotFound("Disabled", i)
  /\ UNCHANGED <<pc, pkg, policy, normalized, edges, waiting, memo, current, externalMemo, asked>>

FetchLocal(i) ==
  /\ Fetching(i) /\ Target(i).to = "local"
  /\ IF Target(i).donor \in DOMAIN memo THEN Found(Target(i).donor, i)
                                        ELSE NotFound("Unresolved", i)
  /\ UNCHANGED <<pc, pkg, policy, normalized, edges, waiting, memo, current, externalMemo, asked>>

Answer(e, answer, i) ==
  IF answer = "found" THEN Found(NumTopics + Canonical[e], i) ELSE NotFound("External", i)

\* Mutant: a remembered failure is not reported again.
FetchRemembered_Quiet(i) ==
  /\ Fetching(i) /\ Target(i).to = "external" /\ policy # "Off"
  /\ LET e == Target(i).donor IN
     /\ e \in DOMAIN externalMemo
     /\ Found(IF externalMemo[e] = "found" THEN NumTopics + Canonical[e] ELSE Nobody, i)
  /\ UNCHANGED <<pc, pkg, policy, normalized, edges, waiting, memo, current, externalMemo, asked>>

\* The answer to this name is remembered, whatever it was.
FetchRemembered(i) ==
  /\ Fetching(i) /\ Target(i).to = "external" /\ policy # "Off"
  /\ LET e == Target(i).donor IN
     /\ e \in DOMAIN externalMemo
     /\ Answer(e, externalMemo[e], i)
  /\ UNCHANGED <<pc, pkg, policy, normalized, edges, waiting, memo, current, externalMemo, asked>>

\* Mutant: failures are not remembered.
AskProvider_ForgetFailure(i) ==
  /\ Fetching(i) /\ Target(i).to = "external" /\ policy # "Off"
  /\ LET e == Target(i).donor IN
     /\ e \notin DOMAIN externalMemo
     /\ \E answer \in {"found", "none", "failure"} :
          /\ Answer(e, answer, i)
          /\ externalMemo' = IF answer = "failure" THEN externalMemo
                             ELSE [n \in DOMAIN externalMemo \cup {e} |->
                                     IF n = e THEN answer ELSE externalMemo[n]]
     /\ asked' = [asked EXCEPT ![e] = @ + 1]
  /\ UNCHANGED <<pc, pkg, policy, normalized, edges, waiting, memo, current>>

AskProvider(i) ==
  /\ Fetching(i) /\ Target(i).to = "external" /\ policy # "Off"
  /\ LET e == Target(i).donor IN
     /\ e \notin DOMAIN externalMemo
     /\ \E answer \in {"found", "none", "failure"} :
          /\ Answer(e, answer, i)
          /\ externalMemo' = [n \in DOMAIN externalMemo \cup {e} |->
                                IF n = e THEN answer ELSE externalMemo[n]]
     /\ asked' = [asked EXCEPT ![e] = @ + 1]
  /\ UNCHANGED <<pc, pkg, policy, normalized, edges, waiting, memo, current>>

-----------------------------------------------------------------------------
(* resolve_local, once every donor is there *)

Content(d) == IF d \in Topics THEN memo[d] ELSE ExternalDocs[d - NumTopics]

\* The requests whose donor was found and that ask for a field.
Giving(t, field) ==
  {k \in DOMAIN donors : donors[k] # Nobody /\ field \in normalized[t][k].effective}

\* Mutant: the first donor gives the field even when it does not have it.
MergeProse_FirstFound(t, f) ==
  IF f \in pkg[t].own THEN t
  ELSE IF Giving(t, f) = {} THEN Nobody
  ELSE Content(donors[Min(Giving(t, f))]).prose[f]

\* merge_single_field: the first donor that has the field gives it.
MergeProse(t, f) ==
  LET givers == {k \in Giving(t, f) : Content(donors[k]).prose[f] # Nobody} IN
  IF f \in pkg[t].own THEN t
  ELSE IF givers = {} THEN Nobody
  ELSE Content(donors[Min(givers)]).prose[f]

\* merge_sections of the whole-section requests, then
\* merge_inherited_section of the others.
AsksTitle(t, k) == normalized[t][k].request.kind = "section"
Titled(t, k) ==
  LET sections == Content(donors[k]).sections IN
  {n \in DOMAIN sections : sections[n].key = normalized[t][k].request.title}
IsOne(S) == \E n \in S : S = {n}
Whole(t, k) ==
  IF k \in Giving(t, "sections") /\ ~AsksTitle(t, k) THEN Content(donors[k]).sections ELSE <<>>
Single(t, k) ==
  IF k \in Giving(t, "sections") /\ AsksTitle(t, k) /\ IsOne(Titled(t, k))
  THEN <<Content(donors[k]).sections[CHOOSE n \in Titled(t, k) : TRUE]>> ELSE <<>>
AddLists(sections, lists) ==
  LET added[n \in 0 .. Len(lists)] ==
        IF n = 0 THEN sections ELSE AddSections(added[n - 1], lists[n])
  IN added[Len(lists)]

\* Mutant: whole-section and by-title requests are merged in one pass.
MergeSections_OnePass(t) ==
  AddLists(LocalOnly(t).sections, [k \in DOMAIN pkg[t].requests |-> Whole(t, k) \o Single(t, k)])

MergeSections(t) ==
  AddLists(LocalOnly(t).sections, [k \in DOMAIN pkg[t].requests |-> Whole(t, k)]
                                  \o [k \in DOMAIN pkg[t].requests |-> Single(t, k)])
SectionReports(t) ==
  {Report(IF Titled(t, k) = {} THEN "MissingSection" ELSE "AmbiguousSection", t, k) :
     k \in {i \in Giving(t, "sections") : AsksTitle(t, i) /\ ~IsOne(Titled(t, i))}}

Ask(t, k) == [donor     |-> donors[k],
              params    |-> Content(donors[k]).params,
              filtered  |-> normalized[t][k].request.filtered,
              selectors |-> normalized[t][k].request.selectors]
SelectionReports(t) ==
  {Report("InvalidSelection", t, k) : k \in {i \in Giving(t, "params") : ~Valid(Ask(t, i))}}

\* merge_params, or emit_missing_params when parameters are suppressed.
MergedParams(t) ==
  IF "params" \in Suppressed(pkg[t].requests)
  THEN [groups  |-> LocalOnly(t).params,
        missing |-> Missing(pkg[t].formals, LocalOnly(t).params)]
  ELSE MergeParams(pkg[t].formals, LocalOnly(t).params, Len(pkg[t].requests),
                   [k \in Giving(t, "params") |-> Ask(t, k)])

ResolveTopic(t) ==
  /\ current = t /\ DOMAIN donors = DOMAIN normalized[t]
  /\ memo' = [u \in DOMAIN memo \cup {t} |->
                IF u = t THEN [prose    |-> [f \in Fields |-> MergeProse(t, f)],
                               sections |-> MergeSections(t),
                               params   |-> MergedParams(t).groups]
                         ELSE memo[u]]
  /\ diagnostics' = diagnostics \cup SectionConflicts(t) \cup SectionReports(t)
       \cup SelectionReports(t)
       \cup {Report("MissingParam", t, i) : i \in {j \in DOMAIN pkg[t].formals :
                                            pkg[t].formals[j] \in MergedParams(t).missing}}
  /\ current' = Nobody /\ donors' = <<>>
  /\ UNCHANGED <<pc, pkg, policy, normalized, edges, waiting, externalMemo, asked>>

Return ==
  /\ pc = "resolve" /\ current = Nobody /\ waiting = {}
  /\ pc' = "done"
  /\ UNCHANGED <<pkg, policy, normalized, edges, waiting, memo, current, donors,
                 externalMemo, asked, diagnostics>>

-----------------------------------------------------------------------------
Init ==
  /\ pc = "prepare"
  /\ \E s \in Scenes : pkg = s[1] /\ policy = s[2]
  /\ normalized = <<>> /\ edges = <<>> /\ waiting = {}
  /\ memo = <<>> /\ current = Nobody /\ donors = <<>>
  /\ externalMemo = <<>> /\ asked = [e \in Externals |-> 0]
  /\ diagnostics = {}

Fetch == current # Nobody /\ \E i \in DOMAIN normalized[current] :
           FetchNothing(i) \/ FetchLocal(i) \/ FetchRemembered(i) \/ AskProvider(i)

Next ==
  \/ Prepare \/ Analyse \/ EndCycles \/ Fetch \/ Return
  \/ \E C \in waiting : RecoverCycle(C) \/ PassCycle(C)
  \/ \E t \in Topics : StartTopic(t) \/ ResolveTopic(t)

Spec == Init /\ [][Next]_vars
\* One call: it runs until it returns, and every provider call returns.
FairSpec == Spec /\ WF_vars(Next)

-----------------------------------------------------------------------------
(* Properties *)

OnCycle(t) == IsCyclic(edges, Class(edges, t))

\* The donor a request of the source leads to, if it was found.
DonorOf(t, i) ==
  LET target == PrepareTarget(pkg[t].requests[i]) IN
  IF target.to = "local" THEN target.donor
  ELSE IF /\ target.to = "external" /\ target.donor \in DOMAIN externalMemo
          /\ externalMemo[target.donor] = "found"
  THEN NumTopics + Canonical[target.donor]
  ELSE Nobody

\* The requests of the source that could give t a field: duplicates count,
\* what the topic suppresses anywhere does not.
Givers(t, field) ==
  {i \in DOMAIN pkg[t].requests :
     /\ DonorOf(t, i) # Nobody
     /\ field \in pkg[t].requests[i].fields \ Suppressed(pkg[t].requests)}

\* Each field of a resolved topic is its own, or that of the first donor that
\* has the field once it is resolved itself, or nothing; a topic on a cycle
\* inherits nothing.
ProseComesFromFirstDonor ==
  \A t \in DOMAIN memo : \A f \in Fields :
    LET givers == {i \in Givers(t, f) : Content(DonorOf(t, i)).prose[f] # Nobody} IN
    memo[t].prose[f] =
      IF f \in pkg[t].own THEN t
      ELSE IF OnCycle(t) \/ givers = {} THEN Nobody
      ELSE Content(DonorOf(t, Min(givers))).prose[f]

\* A section of the donor that request i asks for by title, or all of them; of
\* those with one title the first.
Gives(t, i, s) ==
  LET r == pkg[t].requests[i]
      sections == Content(DonorOf(t, i)).sections
      same == {n \in DOMAIN sections : sections[n].key = s.key} IN
  /\ i \in Givers(t, "sections") /\ s = sections[Min(same)]
  /\ r.kind = "section" => s.key = r.title /\ IsOne(same)

\* A resolved topic has one section of each title: its own first one, or the
\* one of the first request for all sections, or of the first request by title.
SectionsComeFromFirstDonor ==
  \A t \in DOMAIN memo :
    LET secs == memo[t].sections
        own == Keys(OwnSections(t))
        requests == IF OnCycle(t) THEN {} ELSE DOMAIN pkg[t].requests
        offers(i) == {s \in ToSet(Content(DonorOf(t, i)).sections) : Gives(t, i, s)}
        rank(i) == IF pkg[t].requests[i].kind = "section" THEN Len(pkg[t].requests) + i ELSE i
        given == UNION {{[at |-> rank(i), sec |-> s] : s \in offers(i)} :
                          i \in requests \cap Givers(t, "sections")} IN
    /\ \A i, j \in DOMAIN secs : secs[i].key = secs[j].key => i = j
    /\ Keys(secs) = own \cup {g.sec.key : g \in given}
    /\ \A s \in ToSet(secs) :
         IF s.key \in own THEN s.writer = t
         ELSE \E g \in given : g.sec = s /\ \A h \in given : h.sec.key = s.key => g.at <= h.at

\* Resolving the requests of the source as they stand, duplicates included,
\* would document the same parameters.
RepeatsAddNothing ==
  \A t \in DOMAIN memo :
    ~OnCycle(t) /\ "params" \notin Suppressed(pkg[t].requests) =>
      LET r == pkg[t].requests
          asks == [i \in Givers(t, "params") |->
                     [donor |-> DonorOf(t, i), params |-> Content(DonorOf(t, i)).params,
                      filtered |-> r[i].filtered, selectors |-> r[i].selectors]]
      IN memo[t].params = MergeParams(pkg[t].formals, LocalOnly(t).params, Len(r), asks).groups

\* Through any chain of donors a description stays with the parameters it was
\* written for: never fewer of them, never others, up to leading dots.
GroupsStayWhole ==
  \A t \in DOMAIN memo : \A g \in ToSet(memo[t].params) :
    LET written == IF g.writer \in Topics THEN LocalOnly(g.writer).params
                   ELSE ExternalDocs[g.writer - NumTopics].params IN
    \E w \in ToSet(written) : Bases(g.names) = Bases(w.names)

\* Each formal of a topic is documented by one group or reported as missing,
\* and what is inherited is for formals only.
FormalsOnce ==
  \A t \in DOMAIN memo :
    LET groups == memo[t].params
        formals == ToSet(pkg[t].formals) IN
    /\ \A i, j \in DOMAIN groups :
         groups[i].names \cap groups[j].names # {} => i = j
    /\ \A g \in ToSet(groups) : g.writer # t => g.names \subseteq formals
    /\ ~OnCycle(t) => \A i \in DOMAIN pkg[t].formals :
         pkg[t].formals[i] \in Documented(groups) <=> Report("MissingParam", t, i) \notin diagnostics

\* Inherited parameters: every formal has one description or a report, every
\* description its parameters, and a request made twice changes nothing.
ParametersAreWhole == GroupsStayWhole /\ FormalsOnce /\ RepeatsAddNothing

CycleReports(C) == {d \in diagnostics : d.code = "Cycle" /\ d.topic \in C}

\* Every cycle is reported once, at a request that is part of it, and nothing
\* else is reported as a cycle.
CyclesAreReported ==
  pc \in {"resolve", "done"} => \A C \in Classes(edges) :
    LET reports == CycleReports(C) IN
    /\ IsCyclic(edges, C) <=> reports # {}
    /\ \A d, e \in reports : d = e
    /\ \A d \in reports : DonorOf(d.topic, d.at) \in C

\* The order and the memo agree: a local donor is resolved when it is needed.
DonorsAreResolved == \A d \in diagnostics : d.code # "Unresolved"

\* A request that could give something.
Needed(t, i) ==
  /\ pkg[t].requests[i].to # "suppress"
  /\ pkg[t].requests[i].fields \ Suppressed(pkg[t].requests) # {}

Complaints(t, i) ==
  {d \in diagnostics : /\ d.topic = t /\ d.at = i
                       /\ d.code \in {"Duplicate", "Invalid", "Disabled", "External"}}

\* Off the cycles, a request that could give something is served or is
\* reported, once, and only one not served is.
RequestsAreHeard ==
  \A t \in DOMAIN memo : ~OnCycle(t) =>
    \A i \in DOMAIN pkg[t].requests :
      LET reports == Complaints(t, i) IN
      /\ Needed(t, i) /\ DonorOf(t, i) = Nobody => \E d \in reports : reports = {d}
      /\ ~Needed(t, i) => \A d \in reports : d.code = "Duplicate"
      /\ DonorOf(t, i) # Nobody => \A d \in reports : d.code = "Duplicate"

\* Nothing is lost in silence: every request is served or reported, by itself or
\* with the cycle that its topic is on.
NothingIsLostInSilence == RequestsAreHeard /\ CyclesAreReported

\* The provider is asked each name at most once, and never when external
\* inheritance is off: every topic sees one answer.
ExternalsAskedOnce == \A e \in Externals : asked[e] <= IF policy = "Off" THEN 0 ELSE 1

\* Both memos serve whoever asks: topics in the order that fills the one, and
\* other packages with the same answer from the other.
MemosServe == DonorsAreResolved /\ ExternalsAskedOnce

\* The resolver returns and every topic of the package is in its result.
EveryTopicIsResolved == <>(pc = "done" /\ DOMAIN memo = Topics)

-----------------------------------------------------------------------------
(* What makes them inductive *)

SceneInv == \E s \in Scenes : pkg = s[1] /\ policy = s[2]

\* Each stage finds what the one before it left.
StageInv ==
  /\ pc \in {"prepare", "graph", "cycles", "resolve", "done"}
  /\ pc = "prepare" => diagnostics = {}
  /\ pc # "prepare" => normalized = [t \in Topics |-> Normalize(t)]
  /\ pc \in {"prepare", "graph"} => waiting = {} /\ memo = <<>>
  /\ pc \in {"cycles", "resolve", "done"} => edges = [t \in Topics |-> LocalDonors(t)]
  /\ current \in Topics \cup {Nobody}
  /\ current # Nobody => pc = "resolve"

\* A topic is resolved once the loop that it is for has passed its component,
\* and the donors of a topic off the cycles are resolved before it.
OrderInv ==
  pc \in {"cycles", "resolve", "done"} =>
    /\ waiting \subseteq Classes(edges)
    /\ pc = "cycles" => \A C \in waiting : IsCyclic(edges, C)
    /\ DOMAIN memo \subseteq Topics
    /\ \A t \in Topics : t \in DOMAIN memo <=>
         IF OnCycle(t) THEN pc = "cycles" => Class(edges, t) \notin waiting
         ELSE pc # "cycles" /\ t # current /\ Class(edges, t) \notin waiting
    /\ \A t \in DOMAIN memo \cup ({current} \ {Nobody}) :
         ~OnCycle(t) => DonorsOf(edges, t) \subseteq DOMAIN memo
    /\ current # Nobody => ~OnCycle(current) /\ Class(edges, current) \notin waiting

\* The provider has been asked the names that are remembered, once each.
ExternalInv ==
  /\ DOMAIN externalMemo \subseteq IF policy = "Off" THEN {} ELSE Externals
  /\ asked = [e \in Externals |-> IF e \in DOMAIN externalMemo THEN 1 ELSE 0]

\* No later answer of the provider changes what the request leads to.
Answered(t, i) ==
  LET target == PrepareTarget(pkg[t].requests[i]) IN
  target.to = "external" /\ policy # "Off" => target.donor \in DOMAIN externalMemo

\* The donors found are those the requests of the source lead to, for good.
FetchInv ==
  /\ current = Nobody => donors = <<>>
  /\ current # Nobody =>
       /\ DOMAIN donors \subseteq DOMAIN normalized[current]
       /\ \A i \in DOMAIN donors : donors[i] = DonorOf(current, i) /\ Answered(current, i)
  /\ \A t \in DOMAIN memo : ~OnCycle(t) =>
       \A i \in DOMAIN pkg[t].requests : Needed(t, i) => Answered(t, i)

\* The requests of t that have been looked up.
Handled(t) ==
  IF t = current THEN DOMAIN donors
  ELSE IF t \in DOMAIN memo /\ ~OnCycle(t) THEN DOMAIN normalized[t] ELSE {}

Fault(t, i) ==
  IF PrepareTarget(pkg[t].requests[i]).to # "external" THEN "Invalid"
  ELSE IF policy = "Off" THEN "Disabled" ELSE "External"

\* A repetition is reported at once, a request that leads nowhere when it is
\* looked up, and nothing else is.
ComplaintInv ==
  pc # "prepare" =>
    \A t \in Topics : \A i \in DOMAIN pkg[t].requests :
      Complaints(t, i) =
        IF IsDuplicate(t, i) THEN {Report("Duplicate", t, i)}
        ELSE IF i \in Handled(t) /\ pkg[t].requests[i].to # "suppress" /\ DonorOf(t, i) = Nobody
        THEN {Report(Fault(t, i), t, i)} ELSE {}

\* A component has its cycle reported when the first loop has passed it.
CycleInv ==
  /\ pc \in {"prepare", "graph"} => \A d \in diagnostics : d.code # "Cycle"
  /\ pc \in {"cycles", "resolve", "done"} => \A C \in Classes(edges) :
       CycleReports(C) =
         IF IsCyclic(edges, C) /\ (pc = "cycles" => C \notin waiting)
         THEN {Report("Cycle", r[1], r[2]) : r \in FirstCycleRequest(C)} ELSE {}

\* A formal is missing when its topic has been resolved without it.
MissingInv ==
  \A t \in Topics : \A i \in DOMAIN pkg[t].formals :
    Report("MissingParam", t, i) \in diagnostics <=>
      t \in DOMAIN memo /\ ~OnCycle(t) /\ pkg[t].formals[i] \notin Documented(memo[t].params)

ListInv == \A t \in DOMAIN memo : IsList(memo[t].sections) /\ IsList(memo[t].params)

ResolverInv ==
  /\ SceneInv /\ StageInv /\ OrderInv /\ ExternalInv /\ FetchInv
  /\ ComplaintInv /\ CycleInv /\ DonorsAreResolved /\ ProseComesFromFirstDonor

\* Sections and parameters are lists of the first donors of their titles and names.
ListsInv ==
  /\ ListInv /\ SectionsComeFromFirstDonor
  /\ MissingInv /\ GroupsStayWhole /\ FormalsOnce /\ RepeatsAddNothing

=============================================================================
