---------------------------- MODULE BindingFacts ----------------------------
(***************************************************************************)
(* What the top-level assignments of a package say about its names, before *)
(* anything is evaluated: the walks along simple aliases of                *)
(* model/merge/bindings.rs, and, apart from them, what an alias means.     *)
(*                                                                         *)
(* A name is the sequence of its parts between dots.  Assignments are      *)
(* numbered in source order, and files in the order of their names.        *)
(***************************************************************************)
EXTENDS Naturals, Sequences, FiniteSets

CONSTANT NumFiles
ASSUME NumFilesAssumption == NumFiles \in Nat

Files == 1 .. NumFiles
Names == Seq(STRING)
\* "environment": base::new.env(), whose function-ness is not asked.
Values == {"function", "generic", "alias", "nonfunction", "s7", "refused", "environment", "unknown"}
Fact == [name : Names, file : Files, value : Values, target : Names]
\* The code of a package: whether DESCRIPTION has Collate, the files whose
\* names are not text, and the generics that installed packages provide.
Code == [facts : Seq(Fact), collate : BOOLEAN, opaque : SUBSET Files, installed : SUBSET Names]

\* bindings.rs sorts assignments by file before it goes through them.
IsInFileOrder(c) == \A i, j \in DOMAIN c.facts : i < j => c.facts[i].file <= c.facts[j].file

FactsOf(c, n) == {i \in DOMAIN c.facts : c.facts[i].name = n}

\* Mutant: the files are taken to be loaded in the order of their names.
Precedes_Filename(c, t, a) == t < a

\* binding_precedes_alias, target_precedes_alias.
Precedes(c, t, a) ==
  LET from == c.facts[t].file
      to == c.facts[a].file IN
  IF from = to THEN t < a
  ELSE ~c.collate /\ from \notin c.opaque /\ to \notin c.opaque /\ from < to

\* The assignment that alias a stands for.
StandsFor(c, a, t) ==
  /\ c.facts[a].value = "alias"
  /\ FactsOf(c, c.facts[a].target) = {t}
  /\ Precedes(c, t, a)

-----------------------------------------------------------------------------
(* The walks of bindings.rs.  Each carries the names it has been through. *)

None == 0
NameSets(c) == SUBSET {c.facts[k].name : k \in DOMAIN c.facts}

\* binding_function_formals: the assignment whose formals i has.
Formals(c, i) ==
  LET walk[seen \in NameSets(c)] == [a \in DOMAIN c.facts |->
        IF c.facts[a].value \in {"function", "generic"} THEN a
        ELSE IF c.facts[a].name \notin seen /\ \E t \in DOMAIN c.facts : StandsFor(c, a, t)
        THEN walk[seen \cup {c.facts[a].name}][CHOOSE t \in DOMAIN c.facts : StandsFor(c, a, t)]
        ELSE None]
  IN walk[{}][i]

\* binding_formal_names: whose formals, or why there are none.
FormalNames(c, i) ==
  LET walk[seen \in NameSets(c)] == [a \in DOMAIN c.facts |->
        IF c.facts[a].value \in {"function", "generic"} THEN <<"known", a>>
        ELSE IF c.facts[a].value # "alias" THEN <<"not a function", None>>
        ELSE IF c.facts[a].name \notin seen /\ \E t \in DOMAIN c.facts : StandsFor(c, a, t)
        THEN walk[seen \cup {c.facts[a].name}][CHOOSE t \in DOMAIN c.facts : StandsFor(c, a, t)]
        ELSE <<"unknown", None>>]
  IN walk[{}][i]

\* binding_is_proven_non_function.
IsProvenNonFunction(c, i) ==
  LET walk[seen \in NameSets(c)] == [a \in DOMAIN c.facts |->
        \/ c.facts[a].value = "nonfunction"
        \/ /\ c.facts[a].name \notin seen
           /\ \E t \in DOMAIN c.facts :
                StandsFor(c, a, t) /\ walk[seen \cup {c.facts[a].name}][t]]
  IN walk[{}][i]

\* binding_is_function, which does not look at the order.
IsFunction(c, i) ==
  LET walk[seen \in NameSets(c)] == [a \in DOMAIN c.facts |->
        \/ c.facts[a].value \in {"function", "generic"}
        \/ /\ c.facts[a].value = "alias" /\ c.facts[a].name \notin seen
           /\ \E t \in DOMAIN c.facts :
                /\ FactsOf(c, c.facts[a].target) = {t}
                /\ walk[seen \cup {c.facts[a].name}][t]]
  IN walk[{}][i]

-----------------------------------------------------------------------------
(* What a name means, whatever the order in which its files are loaded *)

\* Without Collate the files whose names are text are loaded in their order;
\* where a file with another name goes is not known.
LoadOrders(c) ==
  {o \in [Files -> 0 .. NumFiles + 1] :
     /\ \A f, g \in Files : o[f] = o[g] => f = g
     /\ ~c.collate => \A f, g \in Files \ c.opaque : f < g => o[f] < o[g]}

EvaluatedFirst(c, orders, t, a) ==
  LET from == c.facts[t].file
      to == c.facts[a].file IN
  \A o \in orders : o[from] < o[to] \/ (from = to /\ t < a)

\* The pairs of an alias and the one assignment it is certain to copy.
Copies(c) ==
  LET orders == LoadOrders(c) IN
  {e \in (DOMAIN c.facts) \X (DOMAIN c.facts) :
     /\ c.facts[e[1]].value = "alias"
     /\ FactsOf(c, c.facts[e[1]].target) = {e[2]}
     /\ EvaluatedFirst(c, orders, e[2], e[1])}

\* b is a, or what a copies, directly or not.
ComesFrom(c, copies, a, b) ==
  \A S \in SUBSET (DOMAIN c.facts) :
    a \in S /\ (\A e \in copies : e[1] \in S => e[2] \in S) => b \in S

OwnMeaning(c, i) ==
  IF c.facts[i].value \in {"function", "generic", "nonfunction"} THEN c.facts[i].value
  ELSE "unknown"

\* r is what is certain of name n.
Means(c, n, r) ==
  LET copies == Copies(c) IN
  IF \E i \in DOMAIN c.facts : FactsOf(c, n) = {i}
  THEN \E i, t \in DOMAIN c.facts :
         /\ FactsOf(c, n) = {i}
         /\ ComesFrom(c, copies, i, t)
         /\ \A e \in copies : e[1] # t
         /\ r = OwnMeaning(c, t)
  ELSE r = "unknown"

-----------------------------------------------------------------------------
(* S7 classes *)

\* The last assignment of name n before i in its file.
LatestBefore(c, n, i) ==
  {j \in FactsOf(c, n) :
     /\ j < i /\ c.facts[j].file = c.facts[i].file
     /\ \A k \in FactsOf(c, n) : k < i => k <= j}

\* The class constructor that assignment i makes or copies.
ClassOf(c, i) ==
  LET latest == {e \in (DOMAIN c.facts) \X (DOMAIN c.facts) :
                   c.facts[e[1]].value = "alias"
                     /\ e[2] \in LatestBefore(c, c.facts[e[1]].target, e[1])}
      made == {t \in DOMAIN c.facts :
                 ComesFrom(c, latest, i, t) /\ c.facts[t].value \in {"s7", "refused"}}
  IN IF made = {} THEN None ELSE CHOOSE t \in made : TRUE
=============================================================================
