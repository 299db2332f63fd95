----------------------------- MODULE DonorGraph -----------------------------
(***************************************************************************)
(* What the inheritance graph of a package is, and what an analysis of it  *)
(* has to find, said without an algorithm.  edges[n] lists the topics that *)
(* topic n inherits from (its donors) in request order; a donor may be     *)
(* listed twice, and a topic may name itself.                              *)
(***************************************************************************)
EXTENDS Naturals, Sequences, FiniteSets

DonorsOf(edges, n) == {edges[n][k] : k \in DOMAIN edges[n]}

\* S holds the donors of its members.
Closed(edges, S) == \A n \in S : DonorsOf(edges, n) \subseteq S

\* a inherits from b, directly or not, or is b: no closed set separates them.
Reaches(edges, a, b) ==
  \A S \in SUBSET DOMAIN edges : a \in S /\ Closed(edges, S) => b \in S

\* The topics that inherit from one another: the strongly connected
\* component of n.
Class(edges, n) ==
  {m \in DOMAIN edges : Reaches(edges, n, m) /\ Reaches(edges, m, n)}
Classes(edges) == {Class(edges, n) : n \in DOMAIN edges}

\* A component with an inheritance cycle: two members, or one that names itself.
IsCyclic(edges, C) ==
  \/ \E m, n \in C : m # n
  \/ \E n \in C : n \in DonorsOf(edges, n)

\* The other components of a partition that C inherits from directly.
DonorParts(edges, parts, C) ==
  {D \in parts \ {C} : \E n \in C : DonorsOf(edges, n) \cap D # {}}

\* The components are in the order of their smallest topics.
Before(C, D) == \E m \in C : \A n \in D : m < n
IsFirst(C, S) == C \in S /\ \A D \in S \ {C} : Before(C, D)

\* path is a simple cycle of requests: it starts and ends at the same topic.
IsSimpleCycle(edges, path) ==
  /\ Len(path) > 1 /\ path[1] = path[Len(path)]
  /\ \A i \in 1 .. Len(path) - 1 : path[i + 1] \in DonorsOf(edges, path[i])
  /\ \A i, j \in 1 .. Len(path) - 1 : path[i] = path[j] => i = j
=============================================================================
