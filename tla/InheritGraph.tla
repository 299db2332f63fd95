---------------------------- MODULE InheritGraph ----------------------------
(***************************************************************************)
(* analyze_inheritance_graph: Tarjan's algorithm over the local inherit-   *)
(* ance requests, one canonical cycle for each cyclic component, and the   *)
(* order in which the components are resolved, donors before recipients.   *)
(*                                                                         *)
(* The recursive functions are modelled with their call stacks: calls and  *)
(* cursor for visit, path and tried for find_cycle_path.  The topics are   *)
(* numbered in key order, so "the smallest topic" is the least number.     *)
(***************************************************************************)
EXTENDS DonorGraph, Integers, FiniteSetsExt, SequencesExt

CONSTANTS NumNodes,   \* how many topics the package has
          EdgeLists   \* the request lists to analyse

Nodes == 1 .. NumNodes

ASSUME NumNodesAssumption == NumNodes \in Nat
ASSUME EdgeListsAssumption == EdgeLists \subseteq [Nodes -> Seq(Nodes)]

VARIABLES
  pc,           \* visit, cycle, order, done, or panic
  edges,        \* the request lists, constant through a run
  \* Tarjan
  nextIndex, indices, lowlinks, stack, onStack, components,
  calls,        \* the visits under way, outermost first
  cursor,       \* the edge each visit is at
  \* canonical_cycle
  unsearched,   \* cyclic components without a report
  path,         \* the path under search; its nodes are the visited set
  tried,        \* for each node of path, the edge its frame is at
  cycles,       \* the reported paths
  \* dependency_order, over components
  indegree, ready, order

tarjan == <<nextIndex, indices, lowlinks, stack, onStack, components, calls, cursor>>
search == <<unsearched, path, tried, cycles>>
kahn == <<indegree, ready, order>>
vars == <<pc, edges, nextIndex, indices, lowlinks, stack, onStack, components,
          calls, cursor, unsearched, path, tried, cycles, indegree, ready, order>>

NoIndex == -1
Lesser(a, b) == IF a < b THEN a ELSE b

Init ==
  /\ pc = "visit"
  /\ edges \in EdgeLists
  /\ nextIndex = 0
  /\ indices = [n \in Nodes |-> NoIndex]
  /\ lowlinks = [n \in Nodes |-> 0]
  /\ stack = <<>> /\ onStack = {} /\ components = {}
  /\ calls = <<>>
  /\ cursor = [n \in Nodes |-> 1]
  /\ unsearched = {} /\ path = <<>> /\ tried = <<>> /\ cycles = {}
  /\ indegree = <<>> /\ ready = {} /\ order = <<>>

-----------------------------------------------------------------------------
(* Tarjan::visit *)

Seen(n) == indices[n] # NoIndex
Visiting(n) == pc = "visit" /\ calls # <<>> /\ n = calls[Len(calls)]
MoreEdges(n) == cursor[n] <= Len(edges[n])
Target(n) == edges[n][cursor[n]]

\* A call of visit begins.
Enter(n) ==
  /\ nextIndex' = nextIndex + 1
  /\ indices' = [indices EXCEPT ![n] = nextIndex]
  /\ lowlinks' = [lowlinks EXCEPT ![n] = nextIndex]
  /\ stack' = Append(stack, n)
  /\ onStack' = onStack \cup {n}
  /\ calls' = Append(calls, n)
  /\ UNCHANGED <<pc, edges, components, cursor, search, kahn>>

\* The driver loop: visit the first node that has no index.
VisitRoot(n) ==
  /\ pc = "visit" /\ calls = <<>>
  /\ ~Seen(n) /\ \A m \in Nodes : m < n => Seen(m)
  /\ Enter(n)

Descend(n) ==
  /\ Visiting(n) /\ MoreEdges(n)
  /\ ~Seen(Target(n))
  /\ Enter(Target(n))

\* Mutant: cross edges to finished components count.
SkimEdge_AnySeen(n) ==
  /\ Visiting(n) /\ MoreEdges(n)
  /\ Seen(Target(n))
  /\ lowlinks' = [lowlinks EXCEPT ![n] = Lesser(@, indices[Target(n)])]
  /\ cursor' = [cursor EXCEPT ![n] = @ + 1]
  /\ UNCHANGED <<pc, edges, nextIndex, indices, stack, onStack, components, calls,
                 search, kahn>>

\* The target has an index; it counts only while it is on the stack.
SkimEdge(n) ==
  /\ Visiting(n) /\ MoreEdges(n)
  /\ Seen(Target(n))
  /\ lowlinks' = [lowlinks EXCEPT ![n] = IF Target(n) \in onStack
                                         THEN Lesser(@, indices[Target(n)]) ELSE @]
  /\ cursor' = [cursor EXCEPT ![n] = @ + 1]
  /\ UNCHANGED <<pc, edges, nextIndex, indices, stack, onStack, components, calls,
                 search, kahn>>

\* The visit returns; its caller, if there is one, takes over the lowlink
\* and goes on to its next edge.
Return(n) ==
  /\ calls' = Front(calls)
  /\ IF Len(calls) = 1
     THEN UNCHANGED <<lowlinks, cursor>>
     ELSE LET caller == calls[Len(calls) - 1] IN
          /\ lowlinks' = [lowlinks EXCEPT ![caller] = Lesser(@, lowlinks[n])]
          /\ cursor' = [cursor EXCEPT ![caller] = @ + 1]
  /\ UNCHANGED <<pc, edges, nextIndex, indices, search, kahn>>

LeaveInner(n) ==
  /\ Visiting(n) /\ ~MoreEdges(n)
  /\ lowlinks[n] # indices[n]
  /\ Return(n)
  /\ UNCHANGED <<stack, onStack, components>>

\* n is the root of a component: pop the stack down to n.
LeaveRoot(n) ==
  /\ Visiting(n) /\ ~MoreEdges(n)
  /\ lowlinks[n] = indices[n]
  /\ \E i \in DOMAIN stack :
       /\ stack[i] = n
       /\ LET members == {stack[j] : j \in i .. Len(stack)} IN
          /\ stack' = SubSeq(stack, 1, i - 1)
          /\ onStack' = onStack \ members
          /\ components' = components \cup {members}
  /\ Return(n)

\* Mutant: a topic that inherits from itself is not a cycle.
EndVisits_NoSelf ==
  /\ pc = "visit" /\ calls = <<>> /\ \A n \in Nodes : Seen(n)
  /\ pc' = "cycle"
  /\ unsearched' = {C \in components : \E m, n \in C : m # n}
  /\ UNCHANGED <<edges, tarjan, path, tried, cycles, kahn>>

\* All nodes are visited; the cyclic components are to be reported.
EndVisits ==
  /\ pc = "visit" /\ calls = <<>> /\ \A n \in Nodes : Seen(n)
  /\ pc' = "cycle"
  /\ unsearched' = {C \in components : IsCyclic(edges, C)}
  /\ UNCHANGED <<edges, tarjan, path, tried, cycles, kahn>>

-----------------------------------------------------------------------------
(* canonical_cycle and find_cycle_path *)

IsLeast(n, C) == n \in C /\ \A m \in C : n <= m

BeginSearch(C) ==
  /\ pc = "cycle" /\ path = <<>>
  /\ IsFirst(C, unsearched)
  /\ \E start \in Nodes : IsLeast(start, C) /\ path' = <<start>>
  /\ tried' = <<1>>
  /\ UNCHANGED <<pc, edges, tarjan, unsearched, cycles, kahn>>

Searching(C) == pc = "cycle" /\ path # <<>> /\ C \in unsearched /\ path[1] \in C
HasNext == tried[Len(tried)] <= Len(edges[path[Len(path)]])
NextHop == edges[path[Len(path)]][tried[Len(tried)]]
TryNext(frames) == [frames EXCEPT ![Len(frames)] = @ + 1]

\* Not a member, or on the path already.
SkipHop(C) ==
  /\ Searching(C) /\ HasNext
  /\ NextHop # path[1]
  /\ NextHop \notin C \/ NextHop \in Range(path)
  /\ tried' = TryNext(tried)
  /\ UNCHANGED <<pc, edges, tarjan, unsearched, path, cycles, kahn>>

TakeHop(C) ==
  /\ Searching(C) /\ HasNext
  /\ NextHop # path[1]
  /\ NextHop \in C /\ NextHop \notin Range(path)
  /\ path' = Append(path, NextHop)
  /\ tried' = Append(tried, 1)
  /\ UNCHANGED <<pc, edges, tarjan, unsearched, cycles, kahn>>

\* Back at the start: the path is the report.
CloseCycle(C) ==
  /\ Searching(C) /\ HasNext
  /\ NextHop = path[1]
  /\ cycles' = cycles \cup {Append(path, NextHop)}
  /\ unsearched' = unsearched \ {C}
  /\ path' = <<>> /\ tried' = <<>>
  /\ UNCHANGED <<pc, edges, tarjan, kahn>>

\* Mutant: the search does not go on after a dead end.
Backtrack_GiveUp(C) ==
  /\ Searching(C) /\ ~HasNext
  /\ pc' = "panic"
  /\ UNCHANGED <<edges, tarjan, search, kahn>>

\* A dead end: the node leaves the path and its caller tries its next edge.
\* At the start it is unreachable!, a panic.
Backtrack(C) ==
  /\ Searching(C) /\ ~HasNext
  /\ IF Len(path) = 1
     THEN pc' = "panic" /\ UNCHANGED <<path, tried>>
     ELSE path' = Front(path) /\ tried' = TryNext(Front(tried)) /\ UNCHANGED pc
  /\ UNCHANGED <<edges, tarjan, unsearched, cycles, kahn>>

-----------------------------------------------------------------------------
(* dependency_order *)

DonorComponents(C) == DonorParts(edges, components, C)

\* A component waits for as many others as it inherits from.
BeginOrder ==
  /\ pc = "cycle" /\ path = <<>> /\ unsearched = {}
  /\ pc' = "order"
  /\ indegree' = [C \in components |-> Cardinality(DonorComponents(C))]
  /\ ready' = {C \in components : DonorComponents(C) = {}}
  /\ UNCHANGED <<edges, tarjan, search, order>>

\* Mutant: a component is ready as soon as one donor is ordered.
OrderNext_Eager(C) ==
  /\ pc = "order"
  /\ IsFirst(C, ready)
  /\ order' = Append(order, C)
  /\ LET waiting == {D \in components : C \in DonorComponents(D)} IN
     /\ indegree' = [D \in components |-> IF D \in waiting THEN indegree[D] - 1
                                                            ELSE indegree[D]]
     /\ ready' = (ready \ {C}) \cup (waiting \ Range(order))
  /\ UNCHANGED <<pc, edges, tarjan, search>>

\* Mutant: the components that are ready wait in a queue.
OrderNext_Any(C) ==
  /\ pc = "order"
  /\ C \in ready
  /\ order' = Append(order, C)
  /\ LET waiting == {D \in components : C \in DonorComponents(D)} IN
     /\ indegree' = [D \in components |-> IF D \in waiting THEN indegree[D] - 1
                                                            ELSE indegree[D]]
     /\ ready' = (ready \ {C}) \cup {D \in waiting : indegree[D] = 1}
  /\ UNCHANGED <<pc, edges, tarjan, search>>

\* The first ready component is ordered; those it was the last donor of
\* become ready.
OrderNext(C) ==
  /\ pc = "order"
  /\ IsFirst(C, ready)
  /\ order' = Append(order, C)
  /\ LET waiting == {D \in components : C \in DonorComponents(D)} IN
     /\ indegree' = [D \in components |-> IF D \in waiting THEN indegree[D] - 1
                                                            ELSE indegree[D]]
     /\ ready' = (ready \ {C}) \cup {D \in waiting : indegree[D] = 1}
  /\ UNCHANGED <<pc, edges, tarjan, search>>

\* The assertion that the condensation is acyclic.
EndOrder ==
  /\ pc = "order" /\ ready = {}
  /\ pc' = IF Len(order) = Cardinality(components) THEN "done" ELSE "panic"
  /\ UNCHANGED <<edges, tarjan, search, kahn>>

-----------------------------------------------------------------------------
Visit == \E n \in Nodes : VisitRoot(n) \/ Descend(n) \/ SkimEdge(n)
                          \/ LeaveInner(n) \/ LeaveRoot(n)
Search == \E C \in components : BeginSearch(C) \/ SkipHop(C) \/ TakeHop(C)
                                \/ CloseCycle(C) \/ Backtrack(C)
Sort == BeginOrder \/ (\E C \in components : OrderNext(C)) \/ EndOrder

Next == Visit \/ EndVisits \/ Search \/ Sort

Spec == Init /\ [][Next]_vars
\* The analysis is one call: it runs until it returns.
FairSpec == Spec /\ WF_vars(Next)

-----------------------------------------------------------------------------
(* Properties *)

TarjanTypeOK ==
  /\ nextIndex \in Nat
  /\ indices \in [Nodes -> Nat \cup {NoIndex}]
  /\ lowlinks \in [Nodes -> Nat]
  /\ stack \in Seq(Nodes) /\ onStack \subseteq Nodes
  /\ components \subseteq SUBSET Nodes
  /\ calls \in Seq(Nodes)
  /\ cursor \in [Nodes -> Nat \ {0}]

SearchTypeOK ==
  /\ unsearched \subseteq components
  /\ path \in Seq(Nodes) /\ tried \in Seq(Nat \ {0}) /\ Len(tried) = Len(path)
  /\ \A p \in cycles : p \in Seq(Nodes)

OrderTypeOK ==
  /\ pc \in {"order", "done"} => indegree \in [components -> Nat]
  /\ ready \subseteq components /\ order \in Seq(components)

\* Every variable holds a value the analysis can hold.
TypeOK ==
  /\ pc \in {"visit", "cycle", "order", "done", "panic"}
  /\ edges \in [Nodes -> Seq(Nodes)]
  /\ TarjanTypeOK /\ SearchTypeOK /\ OrderTypeOK

\* The components are exactly the classes of topics that inherit from one
\* another, whatever the order of requests, duplicates and self-requests.
ComponentsAreClasses == pc # "visit" => components = Classes(edges)

\* Every component comes after the components it inherits from, so that the
\* resolver, which goes through the topics in this order, finds each donor
\* resolved.
DonorsComeFirst ==
  \A i \in DOMAIN order : DonorComponents(order[i]) \subseteq {order[j] : j \in 1 .. i - 1}

\* The order depends on the graph alone: of the components whose donors are
\* placed, the one with the smallest topic is next.
OrderIsLeast ==
  \A i \in DOMAIN order : \A C \in components \ {order[j] : j \in 1 .. i} :
    DonorComponents(C) \subseteq {order[j] : j \in 1 .. i - 1} => Before(order[i], C)

\* Each cyclic component is reported once, by a simple cycle of requests
\* inside it from its smallest topic.
CyclesAreCanonical ==
  pc \in {"order", "done"} =>
    \A C \in components :
      LET reports == {p \in cycles : p[1] \in C} IN
      IF IsCyclic(edges, C)
      THEN \E p \in reports : /\ reports = {p} /\ IsLeast(p[1], C)
                              /\ Range(p) \subseteq C /\ IsSimpleCycle(edges, p)
      ELSE reports = {}

\* The analysis returns, with every component ordered and every cycle reported
\* by the path that stands for it: neither unreachable!
\* nor the assertion on the condensation can fire, and neither search loops.
AnalysisReturns == <>(pc = "done" /\ Range(order) = components /\ CyclesAreCanonical)

-----------------------------------------------------------------------------
(* What makes ComponentsAreClasses inductive *)

Emitted == UNION components
Calling == {calls[i] : i \in DOMAIN calls}

\* The stack is sorted by index and holds what is indexed and not emitted.
StackInv ==
  /\ \A i, j \in DOMAIN stack : i < j => indices[stack[i]] < indices[stack[j]]
  /\ onStack = {stack[i] : i \in DOMAIN stack}
  /\ \A n \in Nodes : Seen(n) <=> n \in onStack \cup Emitted
  /\ onStack \cap Emitted = {}
  /\ \A n \in Nodes : indices[n] < nextIndex

\* The visits under way are on the stack in the same order, each at the edge
\* to the next one; a node that is not being visited is untouched or finished.
CallInv ==
  /\ \A i, j \in DOMAIN calls : i < j => indices[calls[i]] < indices[calls[j]]
  /\ Calling \subseteq onStack
  /\ \A i \in DOMAIN calls : i < Len(calls) =>
       MoreEdges(calls[i]) /\ Target(calls[i]) = calls[i + 1]
  /\ \A n \in Nodes : cursor[n] <= Len(edges[n]) + 1
  /\ \A n \in Nodes : ~Seen(n) => cursor[n] = 1
  /\ \A n \in Nodes : Seen(n) /\ n \notin Calling => ~MoreEdges(n)
  /\ \A n \in Nodes : \A k \in 1 .. cursor[n] - 1 : Seen(edges[n][k])

\* A visit under way reaches everything above it on the stack, and everything
\* on the stack reaches a visit under way at or below it.
ReachInv ==
  /\ \A y \in Calling, x \in onStack : indices[y] <= indices[x] => Reaches(edges, y, x)
  /\ \A x \in onStack : \E y \in Calling :
       indices[y] <= indices[x] /\ Reaches(edges, x, y)

\* g is the innermost visit that x belongs to.
Under(g, x) ==
  /\ indices[g] <= indices[x]
  /\ \A h \in Calling : indices[h] <= indices[x] => indices[h] <= indices[g]

\* A lowlink is the index of a node on the stack that is reached, and no
\* followed edge of a visit's nodes leads below its lowlink.
LowInv ==
  /\ \A v \in onStack : \E w \in onStack :
       indices[w] = lowlinks[v] /\ lowlinks[v] <= indices[v] /\ Reaches(edges, v, w)
  /\ \A g \in Calling, x \in onStack : Under(g, x) =>
       \A k \in 1 .. cursor[x] - 1 :
         edges[x][k] \in onStack => lowlinks[g] <= indices[edges[x][k]]

\* What is emitted is whole classes, and inherits from nothing else.
ClassInv ==
  /\ Closed(edges, Emitted)
  /\ \A C \in components : \E n \in Nodes : C = Class(edges, n)

TarjanInv == StackInv /\ CallInv /\ ReachInv /\ LowInv /\ ClassInv

\* Between two components, an indegree counts the donors not yet ordered.
OrderInv ==
  /\ pc \in {"visit", "cycle"} => order = <<>>
  /\ pc \in {"order", "done"} =>
       /\ \A i, j \in DOMAIN order : order[i] = order[j] => i = j
       /\ \A C \in components : indegree[C] = Cardinality(DonorComponents(C) \ Range(order))
       /\ ready = {C \in components \ Range(order) : DonorComponents(C) \subseteq Range(order)}
=============================================================================
