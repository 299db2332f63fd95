---------------------------- MODULE InheritParams ----------------------------
(***************************************************************************)
(* Which parameter descriptions a topic takes over from its donors:        *)
(* evaluate_selection reads the selectors of one @inheritParams request,   *)
(* and merge_params hands the documented groups of the donors to the       *)
(* topic's undocumented formals.                                           *)
(*                                                                         *)
(* A parameter name is what follows its leading dots, and their number: x  *)
(* is <<"x", 0>>, .x is <<"x", 1>> and "..." is <<"", 3>>.  A group is the *)
(* set of names one description is about, with the topic it was written    *)
(* in.                                                                     *)
(***************************************************************************)
EXTENDS Integers, FiniteSets, SequencesExt

Dots == <<"", 3>>
\* A leading dot is taken away if there is one, and set if there is none.
Toggle(n) == IF n[2] > 0 THEN <<n[1], n[2] - 1>> ELSE <<n[1], 1>>
Bases(names) == {n[1] : n \in names}
Documented(groups) == UNION {g.names : g \in ToSet(groups)}

-----------------------------------------------------------------------------
(* evaluate_selection *)

\* What the selectors may name: the documented names but for "...".
Domain(groups) == Documented(groups) \ {Dots}

Fails(domain, selectors) == \E s \in ToSet(selectors) : s.name \notin domain

\* The last selector of a name decides; a name no selector mentions is in
\* when the first selector excludes.
Selected(domain, selectors) ==
  {n \in domain :
     LET hits == {i \in DOMAIN selectors : selectors[i].name = n} IN
     IF hits = {} THEN selectors = <<>> \/ selectors[1].excluded
                  ELSE ~selectors[Max(hits)].excluded}

-----------------------------------------------------------------------------
(* merge_params *)

\* An ask is a request for parameters whose donor was found.
Valid(ask) == ~ask.filtered \/ ~Fails(Domain(ask.params), ask.selectors)
Wanted(ask) == IF ask.filtered THEN Selected(Domain(ask.params), ask.selectors)
                               ELSE Domain(ask.params)

\* Asks are kept by the positions of their requests.  The first valid one of a
\* donor is where its groups are taken; the others are aggregated with it.
IsFirstAsk(asks, k) ==
  /\ k \in DOMAIN asks /\ Valid(asks[k])
  /\ \A j \in DOMAIN asks : j < k /\ Valid(asks[j]) => asks[j].donor # asks[k].donor

\* A donor's group is offered over all the valid asks of that donor together:
\* one of them is unfiltered, or each name of the group is wanted by some.
Offered(asks, donor, g) ==
  LET mine == {k \in DOMAIN asks : Valid(asks[k]) /\ asks[k].donor = donor} IN
  \/ \E k \in mine : ~asks[k].filtered
  \/ g.names \subseteq UNION {Wanted(asks[k]) : k \in mine}

MatchingNames(n, missing) == {n, Toggle(n)} \cap missing

\* Mutant: what a group has left to give is taken.
TakeGroup_Part(acc, g) ==
  LET covered == UNION {MatchingNames(n, acc.missing) : n \in g.names} IN
  IF covered = {} THEN acc
  ELSE [missing |-> acc.missing \ covered,
        groups  |-> Append(acc.groups, [names |-> covered, writer |-> g.writer])]

\* Mutant: what a group documents stays missing for the next donor.
TakeGroup_StillMissing(acc, g) ==
  LET covered == UNION {MatchingNames(n, acc.missing) : n \in g.names} IN
  IF \E n \in g.names : MatchingNames(n, acc.missing) = {} THEN acc
  ELSE [acc EXCEPT !.groups = Append(@, [names |-> covered, writer |-> g.writer])]

\* A group is taken whole or not at all, each of its names for the missing
\* formal of that name, the one with a dot less or more, or both.
TakeGroup(acc, g) ==
  LET covered == UNION {MatchingNames(n, acc.missing) : n \in g.names} IN
  IF \E n \in g.names : MatchingNames(n, acc.missing) = {} THEN acc
  ELSE [missing |-> acc.missing \ covered,
        groups  |-> Append(acc.groups, [names |-> covered, writer |-> g.writer])]

\* The groups of a donor, one after the other.
TakeGroups(acc, asks, k) ==
  LET groups == asks[k].params
      taken[n \in 0 .. Len(groups)] ==
        IF n = 0 THEN acc
        ELSE IF Offered(asks, asks[k].donor, groups[n]) THEN TakeGroup(taken[n - 1], groups[n])
        ELSE taken[n - 1]
  IN taken[Len(groups)]

\* Groups in the order of the formals they are about, the others last; groups
\* about one formal keep their order.
Arranged(formals, groups) ==
  LET rank(g) == Min({i \in DOMAIN formals : formals[i] \in g.names} \cup {Len(formals) + 1})
      before(i, j) == \/ rank(groups[i]) < rank(groups[j])
                      \/ rank(groups[i]) = rank(groups[j]) /\ i < j
      place(i) == Cardinality({j \in DOMAIN groups : before(j, i)}) + 1
  IN [k \in DOMAIN groups |-> groups[CHOOSE i \in DOMAIN groups : place(i) = k]]

Missing(formals, groups) == ToSet(formals) \ Documented(groups)

\* The donors in the order in which each is first asked, by requests up to last.
MergeParams(formals, own, last, asks) ==
  LET merged[k \in 0 .. last] ==
        IF k = 0 THEN [missing |-> Missing(formals, own), groups |-> own]
        ELSE IF IsFirstAsk(asks, k) THEN TakeGroups(merged[k - 1], asks, k)
        ELSE merged[k - 1]
  IN [merged[last] EXCEPT !.groups = Arranged(formals, @)]
=============================================================================
