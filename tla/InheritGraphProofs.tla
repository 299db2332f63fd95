------------------------- MODULE InheritGraphProofs -------------------------
(* Proofs about InheritGraph: for every package and every request lists,    *)
(* the components are the classes and the order puts donors first.          *)
EXTENDS InheritGraph, FiniteSetTheorems, SequenceTheorems, TLAPS

-----------------------------------------------------------------------------
(* Reachability *)

\* Every topic reaches itself.
LEMMA ReachSelf == \A e, a : Reaches(e, a, a)
  BY DEF Reaches

\* Reachability is transitive.
LEMMA ReachTrans ==
  \A e, a, b, c : Reaches(e, a, b) /\ Reaches(e, b, c) => Reaches(e, a, c)
  BY DEF Reaches

\* A request is a step.
LEMMA ReachEdge ==
  ASSUME NEW e \in [Nodes -> Seq(Nodes)], NEW n \in Nodes, NEW k \in 1 .. Len(e[n])
  PROVE  Reaches(e, n, e[n][k])
<1>1. DOMAIN e[n] = 1 .. Len(e[n])
  BY LenProperties
<1>2. e[n][k] \in DonorsOf(e, n)
  BY <1>1 DEF DonorsOf
<1> QED
  BY <1>2, Zenon DEF Reaches, Closed

\* Nothing outside a closed set is reached from it.
LEMMA ReachClosed ==
  ASSUME NEW e \in [Nodes -> Seq(Nodes)], NEW S \in SUBSET Nodes, Closed(e, S),
         NEW a \in S, NEW b, Reaches(e, a, b)
  PROVE  b \in S
  BY DEF Reaches

\* Nodes that reach one another and that, together with a closed set apart
\* from them, inherit from nothing else are a class.
LEMMA WholeClass ==
  ASSUME NEW e \in [Nodes -> Seq(Nodes)], NEW C \in SUBSET Nodes, NEW V \in SUBSET Nodes,
         Closed(e, V), Closed(e, V \cup C), C \cap V = {}, NEW n \in C,
         \A m \in C : Reaches(e, n, m) /\ Reaches(e, m, n)
  PROVE  C = Class(e, n)
<1>1. DOMAIN e = Nodes
  OBVIOUS
<1>2. C \subseteq Class(e, n)
  BY <1>1 DEF Class
<1>3. ASSUME NEW m \in Class(e, n) PROVE m \in C
  <2>1. Reaches(e, n, m) /\ Reaches(e, m, n)
    BY DEF Class
  <2>2. m \in V \cup C
    BY <2>1, ReachClosed
  <2>3. m \notin V
    BY <2>1, ReachClosed
  <2> QED
    BY <2>2, <2>3
<1> QED
  BY <1>2, <1>3

\* The class of a member is the class.
LEMMA SameClass ==
  ASSUME NEW e, NEW n, NEW m \in Class(e, n), n \in DOMAIN e
  PROVE  Class(e, m) = Class(e, n)
<1>1. Reaches(e, n, m) /\ Reaches(e, m, n)
  BY DEF Class
<1> QED
  BY <1>1, ReachTrans DEF Class
-----------------------------------------------------------------------------
(* Types *)

\* The positions of a sequence of length k, and of the same without its last.
LEMMA Positions ==
  \A k \in Nat \ {0} :
    /\ k \in 1 .. k /\ k - 1 \in Nat
    /\ \A i \in 1 .. k : i < k => i \in 1 .. k - 1
    /\ \A i \in 1 .. k : i <= k /\ (i = k \/ i < k)
    /\ \A i \in 1 .. k - 1 : i \in 1 .. k /\ i < k /\ i # k
    /\ k # 1 => k - 1 \in 1 .. k /\ k - 1 < k /\ k - 1 \in 1 .. k - 1
  OBVIOUS

\* The last element of a sequence that is not empty, and the rest.
LEMMA LastAndFront ==
  ASSUME NEW S, NEW s \in Seq(S), s # <<>>
  PROVE  /\ Len(s) \in Nat \ {0} /\ s[Len(s)] \in S
         /\ Front(s) \in Seq(S) /\ Len(Front(s)) = Len(s) - 1
         /\ \A i \in 1 .. Len(s) - 1 : Front(s)[i] = s[i]
<1>1. Len(s) \in Nat \ {0} /\ DOMAIN s = 1 .. Len(s)
  BY EmptySeq, LenProperties
<1>2. \A i \in 1 .. Len(s) - 1 : s[i] \in S
  BY <1>1, ElementOfSeq
<1> QED
  BY <1>1, <1>2, SubSeqProperties, ElementOfSeq DEF Front

\* The request a visit is at names a topic.
LEMMA TargetType ==
  ASSUME TypeOK, NEW n \in Nodes, MoreEdges(n)
  PROVE  Target(n) \in Nodes
<1>1. edges[n] \in Seq(Nodes) /\ cursor[n] \in Nat \ {0}
  BY DEF TypeOK, TarjanTypeOK
<1>2. cursor[n] \in 1 .. Len(edges[n])
  BY <1>1, LenProperties DEF MoreEdges
<1> QED
  BY <1>1, <1>2, ElementOfSeq DEF Target

\* Variables hold what they should in the initial states.
LEMMA InitType == Init => TypeOK
<1> SUFFICES ASSUME Init PROVE TypeOK
  OBVIOUS
<1>1. \A S : <<>> \in Seq(S)
  BY EmptySeq
<1>2. TarjanTypeOK
  BY <1>1 DEF Init, TarjanTypeOK, NoIndex
<1>3. SearchTypeOK
  BY <1>1 DEF Init, SearchTypeOK
<1>4. OrderTypeOK
  BY <1>1 DEF Init, OrderTypeOK
<1> QED
  BY <1>2, <1>3, <1>4, EdgeListsAssumption DEF Init, TypeOK

\* The variables of the later phases are idle during the traversal.
LEMMA LaterTypes ==
  ASSUME TypeOK, pc = "visit", pc' = pc, edges' = edges, UNCHANGED search, UNCHANGED kahn,
         components \subseteq components', TarjanTypeOK'
  PROVE  TypeOK'
<1>1. order \in Seq(components')
  BY SeqMonotonic DEF TypeOK, OrderTypeOK
<1>2. SearchTypeOK'
  BY DEF TypeOK, SearchTypeOK, search
<1>3. OrderTypeOK'
  BY <1>1 DEF TypeOK, OrderTypeOK, kahn
<1> QED
  BY <1>2, <1>3 DEF TypeOK

\* What a returning visit leaves.
LEMMA ReturnType ==
  ASSUME TypeOK, NEW n \in Nodes, Return(n), calls # <<>>
  PROVE  /\ lowlinks' \in [Nodes -> Nat] /\ cursor' \in [Nodes -> Nat \ {0}]
         /\ calls' \in Seq(Nodes)
<1>0. /\ calls \in Seq(Nodes) /\ lowlinks \in [Nodes -> Nat]
      /\ cursor \in [Nodes -> Nat \ {0}]
  BY DEF TypeOK, TarjanTypeOK
<1>1. calls' \in Seq(Nodes)
  BY <1>0, LastAndFront DEF Return
<1>2. CASE Len(calls) = 1
  BY <1>0, <1>1, <1>2 DEF Return
<1>3. CASE Len(calls) # 1
  <2> DEFINE caller == calls[Len(calls) - 1]
  <2>1. Len(calls) \in Nat \ {0}
    BY <1>0, LastAndFront
  <2>2. caller \in Nodes
    <3>1. Len(calls) - 1 \in 1 .. Len(calls)
      BY <1>3, <2>1, Positions
    <3>2. \A i \in 1 .. Len(calls) : calls[i] \in Nodes
      BY <1>0, ElementOfSeq
    <3> QED
      BY <3>1, <3>2
  <2>3. lowlinks' = [lowlinks EXCEPT ![caller] = Lesser(lowlinks[caller], lowlinks[n])]
    BY <1>3 DEF Return
  <2>4. cursor' = [cursor EXCEPT ![caller] = cursor[caller] + 1]
    BY <1>3 DEF Return
  <2> HIDE DEF caller
  <2>5. Lesser(lowlinks[caller], lowlinks[n]) \in Nat
    BY <1>0, <2>2 DEF Lesser
  <2> QED
    BY <1>0, <1>1, <2>2, <2>3, <2>4, <2>5
<1> QED
  BY <1>2, <1>3

\* A step of the traversal keeps the types.
LEMMA VisitType ==
  ASSUME TypeOK, Visit
  PROVE  TypeOK'
<1>1. ASSUME NEW n \in Nodes, Enter(n), pc = "visit" PROVE TypeOK'
  <2>1. stack' \in Seq(Nodes) /\ calls' \in Seq(Nodes)
    BY <1>1, AppendProperties DEF Enter, TypeOK, TarjanTypeOK
  <2>2. TarjanTypeOK'
    BY <1>1, <2>1 DEF Enter, TypeOK, TarjanTypeOK
  <2> QED
    BY <1>1, <2>2, LaterTypes DEF Enter
<1>2. ASSUME NEW n \in Nodes, SkimEdge(n) PROVE TypeOK'
  <2>1. Target(n) \in Nodes /\ indices[Target(n)] \in Nat
    BY <1>2, TargetType DEF SkimEdge, Seen, TypeOK, TarjanTypeOK
  <2>2. TarjanTypeOK'
    BY <1>2, <2>1 DEF SkimEdge, TypeOK, TarjanTypeOK, Lesser
  <2> QED
    BY <1>2, <2>2, LaterTypes DEF SkimEdge, Visiting
<1>3. ASSUME NEW n \in Nodes, LeaveInner(n) PROVE TypeOK'
  <2>1. TarjanTypeOK'
    BY <1>3, ReturnType DEF LeaveInner, Visiting, Return, TypeOK, TarjanTypeOK
  <2> QED
    BY <1>3, <2>1, LaterTypes DEF LeaveInner, Return, Visiting
<1>4. ASSUME NEW n \in Nodes, LeaveRoot(n) PROVE TypeOK'
  <2>1. PICK i \in DOMAIN stack :
          /\ stack' = SubSeq(stack, 1, i - 1)
          /\ onStack' = onStack \ {stack[j] : j \in i .. Len(stack)}
          /\ components' = components \cup {{stack[j] : j \in i .. Len(stack)}}
    BY <1>4 DEF LeaveRoot
  <2>2. i \in 1 .. Len(stack) /\ Len(stack) \in Nat
    BY LenProperties DEF TypeOK, TarjanTypeOK
  <2>3. \A j \in 1 .. Len(stack) : stack[j] \in Nodes
    BY ElementOfSeq DEF TypeOK, TarjanTypeOK
  <2>4. {stack[j] : j \in i .. Len(stack)} \subseteq Nodes
    BY <2>2, <2>3
  <2>5. stack' \in Seq(Nodes)
    BY <2>1, <2>2, <2>3, SubSeqProperties
  <2>6. TarjanTypeOK'
    BY <1>4, <2>1, <2>4, <2>5, ReturnType
    DEF LeaveRoot, Visiting, Return, TypeOK, TarjanTypeOK
  <2> QED
    BY <1>4, <2>1, <2>6, LaterTypes DEF LeaveRoot, Return, Visiting
<1>5. ASSUME NEW n \in Nodes, Descend(n) PROVE TypeOK'
  BY <1>1, <1>5, TargetType DEF Descend, Visiting
<1> QED
  BY <1>1, <1>2, <1>3, <1>4, <1>5 DEF Visit, VisitRoot
\* The cursor at the end of a list of cursors can be moved.
LEMMA TryNextType ==
  ASSUME NEW s \in Seq(Nat \ {0}), s # <<>>
  PROVE  TryNext(s) \in Seq(Nat \ {0}) /\ Len(TryNext(s)) = Len(s)
<1>1. Len(s) \in 1 .. Len(s) /\ s[Len(s)] \in Nat \ {0}
  BY LastAndFront, Positions
<1>2. s[Len(s)] + 1 \in Nat \ {0}
  BY <1>1
<1> QED
  BY <1>1, <1>2, ExceptSeq DEF TryNext

\* A step of the search for a cycle keeps the types.
LEMMA SearchType ==
  ASSUME TypeOK, Search
  PROVE  TypeOK'
<1>0. /\ TarjanTypeOK /\ SearchTypeOK /\ OrderTypeOK /\ edges \in [Nodes -> Seq(Nodes)]
      /\ pc \in {"visit", "cycle", "order", "done", "panic"}
  BY DEF TypeOK
<1>1. PICK C \in components :
        BeginSearch(C) \/ SkipHop(C) \/ TakeHop(C) \/ CloseCycle(C) \/ Backtrack(C)
  BY DEF Search
<1>2. UNCHANGED <<edges, tarjan, kahn>> /\ pc = "cycle" /\ pc' \in {"cycle", "panic"}
  BY <1>1 DEF BeginSearch, SkipHop, TakeHop, CloseCycle, Backtrack, Searching
<1>3. TarjanTypeOK' /\ OrderTypeOK'
  BY <1>0, <1>2 DEF TarjanTypeOK, OrderTypeOK, tarjan, kahn
<1>4. path # <<>> => tried # <<>>
  BY <1>0, EmptySeq DEF SearchTypeOK
<1>5. ASSUME path # <<>>, HasNext PROVE NextHop \in Nodes
  <2>1. path[Len(path)] \in Nodes /\ tried[Len(tried)] \in Nat \ {0}
    BY <1>0, <1>4, <1>5, LastAndFront DEF SearchTypeOK
  <2>2. edges[path[Len(path)]] \in Seq(Nodes)
    BY <1>0, <2>1
  <2>3. tried[Len(tried)] \in 1 .. Len(edges[path[Len(path)]])
    BY <1>5, <2>1, <2>2, LenProperties DEF HasNext
  <2> QED
    BY <2>2, <2>3, ElementOfSeq DEF NextHop
<1>6. ASSUME SearchTypeOK' PROVE TypeOK'
  BY <1>0, <1>2, <1>3, <1>6 DEF TypeOK
<1>7. CASE BeginSearch(C)
  <2>1. PICK start \in Nodes : path' = <<start>>
    BY <1>7 DEF BeginSearch
  <2>2. path' \in Seq(Nodes) /\ Len(path') = 1
    BY <2>1
  <2>3. tried' \in Seq(Nat \ {0}) /\ Len(tried') = 1
    BY <1>7 DEF BeginSearch
  <2>4. SearchTypeOK'
    BY <1>0, <1>2, <1>7, <2>2, <2>3 DEF BeginSearch, SearchTypeOK, tarjan
  <2> QED
    BY <1>6, <2>4
<1>8. CASE SkipHop(C)
  <2>1. tried' \in Seq(Nat \ {0}) /\ Len(tried') = Len(tried)
    BY <1>0, <1>4, <1>8, TryNextType DEF SkipHop, Searching, SearchTypeOK
  <2>2. SearchTypeOK'
    BY <1>0, <1>2, <1>8, <2>1 DEF SkipHop, SearchTypeOK, tarjan
  <2> QED
    BY <1>6, <2>2
<1>9. CASE TakeHop(C)
  <2>1. NextHop \in Nodes
    BY <1>5, <1>9 DEF TakeHop, Searching
  <2>2. 1 \in Nat \ {0}
    OBVIOUS
  <2>3. /\ path' \in Seq(Nodes) /\ Len(path') = Len(path) + 1
        /\ tried' \in Seq(Nat \ {0}) /\ Len(tried') = Len(tried) + 1
    BY <1>0, <1>9, <2>1, <2>2, AppendProperties DEF TakeHop, SearchTypeOK
  <2>4. SearchTypeOK'
    BY <1>0, <1>2, <1>9, <2>3 DEF TakeHop, SearchTypeOK, tarjan
  <2> QED
    BY <1>6, <2>4
<1>10. CASE CloseCycle(C)
  <2>1. Append(path, NextHop) \in Seq(Nodes)
    BY <1>0, <1>5, <1>10, AppendProperties DEF CloseCycle, Searching, SearchTypeOK
  <2>2. \A S : <<>> \in Seq(S)
    BY EmptySeq
  <2>3. SearchTypeOK'
    BY <1>0, <1>2, <1>10, <2>1, <2>2 DEF CloseCycle, SearchTypeOK, tarjan
  <2> QED
    BY <1>6, <2>3
<1>11. CASE Backtrack(C)
  <2>1. CASE Len(path) = 1
    BY <1>0, <1>2, <1>6, <1>11, <2>1 DEF Backtrack, SearchTypeOK, tarjan
  <2>2. CASE Len(path) # 1
    <3>1. path # <<>> /\ path' = Front(path) /\ tried' = TryNext(Front(tried))
      BY <1>11, <2>2 DEF Backtrack, Searching
    <3>2. /\ path' \in Seq(Nodes) /\ Len(path') = Len(path) - 1
          /\ Front(tried) \in Seq(Nat \ {0}) /\ Len(Front(tried)) = Len(tried) - 1
      BY <1>0, <1>4, <3>1, LastAndFront DEF SearchTypeOK
    <3>3. Len(path) \in Nat \ {0} /\ Len(tried) = Len(path)
      BY <1>0, <3>1, EmptySeq DEF SearchTypeOK
    <3>4. \A k \in Nat \ {0} : k # 1 => k - 1 # 0
      OBVIOUS
    <3>5. Front(tried) # <<>>
      BY <2>2, <3>2, <3>3, <3>4, EmptySeq
    <3>6. tried' \in Seq(Nat \ {0}) /\ Len(tried') = Len(path')
      BY <3>1, <3>2, <3>3, <3>5, TryNextType
    <3>7. SearchTypeOK'
      BY <1>0, <1>2, <1>11, <3>2, <3>6 DEF Backtrack, SearchTypeOK, tarjan
    <3> QED
      BY <1>6, <3>7
  <2> QED
    BY <2>1, <2>2
<1> QED
  BY <1>1, <1>7, <1>8, <1>9, <1>10, <1>11
-----------------------------------------------------------------------------
(* The order *)

\* What OrderNext needs of the order built so far.
OrderedInv == OrderInv /\ DonorsComeFirst /\ OrderIsLeast

\* There are finitely many topics, hence components and donors.
LEMMA FiniteDonors ==
  ASSUME TypeOK, NEW C, NEW R
  PROVE  IsFiniteSet(DonorComponents(C) \ R)
<1>1. IsFiniteSet(Nodes)
  BY NumNodesAssumption, FS_Interval DEF Nodes
<1>2. IsFiniteSet(components)
  BY <1>1, FS_SUBSET, FS_Subset DEF TypeOK, TarjanTypeOK
<1>3. DonorComponents(C) \ R \subseteq components
  BY DEF DonorComponents, DonorParts
<1> QED
  BY <1>2, <1>3, FS_Subset

\* A component that inherits from another waits for at least one.
LEMMA Waiting ==
  ASSUME TypeOK, OrderInv, pc = "order", NEW C, C \notin Range(order),
         NEW D \in components, C \in DonorComponents(D)
  PROVE  indegree[D] \in Nat \ {0}
<1> DEFINE W == DonorComponents(D) \ Range(order)
<1>1. IsFiniteSet(W) /\ W # {} /\ indegree[D] = Cardinality(W)
  BY FiniteDonors DEF OrderInv
<1> QED
  BY <1>1, FS_EmptySet, FS_CardinalityType

\* The positions and elements of an order with one more component.
LEMMA OneMore ==
  ASSUME TypeOK, NEW C \in components, order' = Append(order, C)
  PROVE  /\ order' \in Seq(components)
         /\ Len(order) \in Nat
         /\ DOMAIN order = 1 .. Len(order) /\ DOMAIN order' = 1 .. Len(order) + 1
         /\ \A i \in 1 .. Len(order) : order'[i] = order[i]
         /\ order'[Len(order) + 1] = C
         /\ Range(order') = Range(order) \cup {C}
         /\ Range(order) = {order[i] : i \in 1 .. Len(order)}
         /\ \A i \in 1 .. Len(order) :
              {order'[j] : j \in 1 .. i} = {order[j] : j \in 1 .. i}
<1>1. order \in Seq(components)
  BY DEF TypeOK, OrderTypeOK
<1>2. /\ order' \in Seq(components) /\ Len(order) \in Nat /\ DOMAIN order = 1 .. Len(order)
      /\ \A i \in 1 .. Len(order) : order'[i] = order[i]
      /\ order'[Len(order) + 1] = C
      /\ Len(order') = Len(order) + 1
  BY <1>1, AppendProperties, LenProperties
<1>3. DOMAIN order' = 1 .. Len(order) + 1
  BY <1>2, LenProperties
<1>4. \A k \in Nat : \A i \in 1 .. k + 1 : i \in 1 .. k \/ i = k + 1
  OBVIOUS
<1>5. \A k \in Nat : k + 1 \in 1 .. k + 1 /\ \A i \in 1 .. k : i \in 1 .. k + 1
  OBVIOUS
<1>6. Range(order') = Range(order) \cup {C}
  BY <1>2, <1>3, <1>4, <1>5, Zenon DEF Range
<1>7. Range(order) = {order[i] : i \in 1 .. Len(order)}
  BY <1>2 DEF Range
<1>8. \A k \in Nat : \A i \in 1 .. k : \A j \in 1 .. i : j \in 1 .. k
  OBVIOUS
<1> QED
  BY <1>2, <1>3, <1>6, <1>7, <1>8
\* Ordering the first ready component keeps the types.
LEMMA OrderNextType ==
  ASSUME TypeOK, OrderInv, NEW C \in components, OrderNext(C)
  PROVE  TypeOK'
<1>1. C \notin Range(order)
  BY DEF OrderNext, IsFirst, OrderInv
<1>2. \A D \in components : indegree[D] \in Nat
  BY DEF OrderNext, TypeOK, OrderTypeOK
<1>3. \A D \in components : C \in DonorComponents(D) => indegree[D] \in Nat \ {0}
  BY <1>1, Waiting DEF OrderNext
<1>4. indegree' = [D \in components |-> IF D \in {E \in components : C \in DonorComponents(E)}
                                        THEN indegree[D] - 1 ELSE indegree[D]]
  BY DEF OrderNext
<1>5. indegree' \in [components -> Nat]
  BY <1>2, <1>3, <1>4
<1>6. order' \in Seq(components)
  BY OneMore DEF OrderNext
<1>7. ready' \subseteq components /\ components' = components /\ pc' = pc
  BY DEF OrderNext, TypeOK, OrderTypeOK, tarjan
<1>8. OrderTypeOK'
  BY <1>5, <1>6, <1>7 DEF OrderTypeOK
<1>9. TarjanTypeOK' /\ SearchTypeOK'
  BY DEF OrderNext, TypeOK, TarjanTypeOK, SearchTypeOK, tarjan, search
<1> QED
  BY <1>7, <1>8, <1>9 DEF OrderNext, TypeOK

\* What the three parts of OrderedInv say while components are ordered.
LEMMA OrderNextInv ==
  ASSUME TypeOK, OrderedInv, NEW C \in components, OrderNext(C)
  PROVE  OrderedInv'
<1> DEFINE R == Range(order)
<1>1. /\ pc = "order" /\ pc' = pc /\ components' = components /\ edges' = edges
      /\ IsFirst(C, ready)
  BY DEF OrderNext, tarjan
<1>2. \A D : (DonorComponents(D))' = DonorComponents(D)
  BY <1>1 DEF DonorComponents
<1>3. ready = {D \in components \ R : DonorComponents(D) \subseteq R}
  BY <1>1 DEF OrderedInv, OrderInv
<1>4. C \in components \ R /\ DonorComponents(C) \subseteq R
  BY <1>1, <1>3 DEF IsFirst
<1>5. /\ Len(order) \in Nat
      /\ DOMAIN order = 1 .. Len(order) /\ DOMAIN order' = 1 .. Len(order) + 1
      /\ \A i \in 1 .. Len(order) : order'[i] = order[i]
      /\ order'[Len(order) + 1] = C
      /\ Range(order') = R \cup {C}
      /\ R = {order[i] : i \in 1 .. Len(order)}
      /\ \A i \in 1 .. Len(order) : {order'[j] : j \in 1 .. i} = {order[j] : j \in 1 .. i}
  BY OneMore DEF OrderNext
<1>6. \A k \in Nat : \A i \in 1 .. k + 1 : i \in 1 .. k \/ i = k + 1
  OBVIOUS
<1>7. \A D \in R : DonorComponents(D) \subseteq R
  <2>1. \A k \in Nat : \A i \in 1 .. k : \A j \in 1 .. i - 1 : j \in 1 .. k
    OBVIOUS
  <2>2. ASSUME NEW i \in 1 .. Len(order) PROVE DonorComponents(order[i]) \subseteq R
    <3>1. DonorComponents(order[i]) \subseteq {order[j] : j \in 1 .. i - 1}
      BY <1>5 DEF OrderedInv, DonorsComeFirst
    <3>2. \A j \in 1 .. i - 1 : j \in 1 .. Len(order)
      BY <1>5, <2>1
    <3> QED
      BY <1>5, <3>1, <3>2
  <2> QED
    BY <1>5, <2>2
<1>8. ASSUME NEW i \in DOMAIN order', NEW j \in DOMAIN order', order'[i] = order'[j]
      PROVE  i = j
  <2>1. \A k \in DOMAIN order : order[k] # C
    BY <1>4, <1>5
  <2>2. \A k, l \in DOMAIN order : order[k] = order[l] => k = l
    BY <1>1 DEF OrderedInv, OrderInv
  <2> QED
    BY <1>5, <1>6, <1>8, <2>1, <2>2
<1>9. ASSUME NEW D \in components
      PROVE  indegree'[D] = Cardinality(DonorComponents(D) \ Range(order'))
  <2> DEFINE W == DonorComponents(D) \ R
  <2>1. indegree[D] = Cardinality(W) /\ IsFiniteSet(W)
    BY <1>1, FiniteDonors DEF OrderedInv, OrderInv
  <2>2. indegree'[D] = IF C \in DonorComponents(D) THEN indegree[D] - 1 ELSE indegree[D]
    BY DEF OrderNext
  <2>3. DonorComponents(D) \ Range(order') = W \ {C}
    BY <1>5
  <2>4. C \in DonorComponents(D) <=> C \in W
    BY <1>4
  <2> HIDE DEF W
  <2> QED
    BY <2>1, <2>2, <2>3, <2>4, FS_RemoveElement, ZenonT(30)
<1>10. ready' = {D \in components \ Range(order') : DonorComponents(D) \subseteq Range(order')}
  <2>1. \A D : C \in DonorComponents(D) => D # C /\ D \notin R
    BY <1>4, <1>7 DEF DonorComponents, DonorParts
  <2>2. ASSUME NEW D \in components, C \in DonorComponents(D)
        PROVE  indegree[D] = 1 <=> DonorComponents(D) \subseteq R \cup {C}
    <3> DEFINE W == DonorComponents(D) \ R
    <3>1. indegree[D] = Cardinality(W) /\ IsFiniteSet(W)
      BY <1>1, FiniteDonors DEF OrderedInv, OrderInv
    <3>2. C \in W
      BY <1>4, <2>2
    <3>3. W = {C} <=> DonorComponents(D) \subseteq R \cup {C}
      BY <3>2
    <3> HIDE DEF W
    <3>4. Cardinality(W) = 1 <=> W = {C}
      <4>1. Cardinality(W) = 1 <=> \E x : W = {x}
        BY <3>1, FS_Singleton, Zenon
      <4> QED
        BY <3>2, <4>1, Zenon
    <3>5. indegree[D] = 1 <=> W = {C}
      BY <3>1, <3>4
    <3> QED
      BY <3>3, <3>5
  <2>3. ready' = (ready \ {C}) \cup
                   {D \in components : C \in DonorComponents(D) /\ indegree[D] = 1}
    BY DEF OrderNext
  <2> QED
    BY <1>3, <1>5, <2>1, <2>2, <2>3
<1>11. OrderInv'
  BY <1>1, <1>2, <1>8, <1>9, <1>10 DEF OrderInv
<1>12. ASSUME NEW i \in DOMAIN order'
       PROVE  DonorComponents(order'[i]) \subseteq {order'[j] : j \in 1 .. i - 1}
  <2>1. CASE i \in 1 .. Len(order)
    <3>1. DonorComponents(order[i]) \subseteq {order[j] : j \in 1 .. i - 1}
      BY <1>5, <2>1 DEF OrderedInv, DonorsComeFirst
    <3>2. \A k \in Nat : \A l \in 1 .. k : \A j \in 1 .. l - 1 : j \in 1 .. k
      OBVIOUS
    <3>3. \A j \in 1 .. i - 1 : order'[j] = order[j]
      BY <1>5, <2>1, <3>2
    <3> QED
      BY <1>5, <2>1, <3>1, <3>3
  <2>2. CASE i = Len(order) + 1
    <3>1. \A k \in Nat : 1 .. (k + 1) - 1 = 1 .. k
      OBVIOUS
    <3>2. 1 .. i - 1 = 1 .. Len(order)
      BY <1>5, <2>2, <3>1
    <3>3. {order'[j] : j \in 1 .. i - 1} = {order[j] : j \in 1 .. Len(order)}
      BY <1>5, <3>2
    <3>4. order'[i] = C
      BY <1>5, <2>2
    <3> QED
      BY <1>4, <1>5, <3>3, <3>4
  <2> QED
    BY <1>5, <1>6, <2>1, <2>2
<1>13. DonorsComeFirst'
  BY <1>2, <1>12 DEF DonorsComeFirst
<1>14. ASSUME NEW i \in DOMAIN order', NEW D \in components \ {order'[j] : j \in 1 .. i},
              DonorComponents(D) \subseteq {order'[j] : j \in 1 .. i - 1}
       PROVE  Before(order'[i], D)
  <2>1. CASE i \in 1 .. Len(order)
    <3>1. \A k \in Nat : \A l \in 1 .. k : \A j \in 1 .. l - 1 : j \in 1 .. k
      OBVIOUS
    <3>2. \A j \in 1 .. i - 1 : order'[j] = order[j]
      BY <1>5, <2>1, <3>1
    <3>3. {order'[j] : j \in 1 .. i - 1} = {order[j] : j \in 1 .. i - 1}
      BY <3>2
    <3>4. D \in components \ {order[j] : j \in 1 .. i}
      BY <1>5, <2>1
    <3> QED
      BY <1>5, <1>14, <2>1, <3>3, <3>4 DEF OrderedInv, OrderIsLeast
  <2>2. CASE i = Len(order) + 1
    <3>1. \A k \in Nat : 1 .. (k + 1) - 1 = 1 .. k
      OBVIOUS
    <3>2. 1 .. i - 1 = 1 .. Len(order)
      BY <1>5, <2>2, <3>1
    <3>3. \A k \in Nat : k + 1 \in 1 .. k + 1 /\ \A j \in 1 .. k : j \in 1 .. k + 1
      OBVIOUS
    <3>4. D # C /\ D \notin R
      BY <1>5, <2>2, <3>3, Zenon
    <3>5. DonorComponents(D) \subseteq R
      BY <1>5, <1>14, <3>2, ZenonT(30)
    <3>6. D \in ready \ {C}
      BY <1>3, <3>4, <3>5
    <3> QED
      BY <1>1, <1>5, <2>2, <3>6 DEF IsFirst
  <2> QED
    BY <1>5, <1>6, <2>1, <2>2
<1>15. OrderIsLeast'
  BY <1>1, <1>2, <1>14 DEF OrderIsLeast
<1> QED
  BY <1>11, <1>13, <1>15 DEF OrderedInv
-----------------------------------------------------------------------------
(* The traversal *)

\* The stack as a set: its order is that of the indices.
LEMMA OnStack ==
  ASSUME TypeOK, StackInv
  PROVE  /\ onStack \subseteq Nodes /\ Emitted \subseteq Nodes
         /\ \A m \in Nodes : Seen(m) <=> m \in onStack \cup Emitted
         /\ onStack \cap Emitted = {}
         /\ \A m \in Nodes : indices[m] \in Int /\ indices[m] < nextIndex
         /\ \A m \in Nodes : Seen(m) => indices[m] \in Nat
         /\ \A x, y \in onStack : indices[x] = indices[y] => x = y
<1>1. \A m \in Nodes : indices[m] \in Nat \cup {NoIndex}
  BY DEF TypeOK, TarjanTypeOK
<1>2. onStack \subseteq Nodes /\ Emitted \subseteq Nodes
  BY DEF TypeOK, TarjanTypeOK, Emitted
<1>3. ASSUME NEW x \in onStack, NEW y \in onStack, indices[x] = indices[y] PROVE x = y
  <2>1. PICK i \in DOMAIN stack : x = stack[i]
    BY DEF StackInv
  <2>2. PICK j \in DOMAIN stack : y = stack[j]
    BY DEF StackInv
  <2>3. DOMAIN stack = 1 .. Len(stack) /\ Len(stack) \in Nat
    BY LenProperties DEF TypeOK, TarjanTypeOK
  <2>4. i \in Int /\ j \in Int /\ indices[x] \in Int /\ indices[y] \in Int
    BY <1>1, <1>2, <2>3 DEF NoIndex
  <2>5. ~(i < j) /\ ~(j < i)
    BY <1>3, <2>1, <2>2, <2>4 DEF StackInv
  <2> QED
    BY <2>1, <2>2, <2>4, <2>5
<1>4. \A m \in Nodes : indices[m] \in Int /\ (Seen(m) => indices[m] \in Nat)
  BY <1>1 DEF Seen, NoIndex
<1> QED
  BY <1>2, <1>3, <1>4 DEF StackInv

\* The innermost visit has the greatest index.
LEMMA Innermost ==
  ASSUME TypeOK, StackInv, CallInv, NEW n, Visiting(n)
  PROVE  /\ n \in Calling /\ n \in onStack /\ n \in Nodes
         /\ \A y \in Calling : y = n \/ indices[y] < indices[n]
         /\ \A y \in Calling : indices[y] <= indices[n]
         /\ Len(calls) \in Nat \ {0} /\ DOMAIN calls = 1 .. Len(calls)
<1>1. Len(calls) \in Nat \ {0} /\ DOMAIN calls = 1 .. Len(calls)
  BY EmptySeq, LenProperties DEF TypeOK, TarjanTypeOK, Visiting
<1>2. n \in Calling /\ n = calls[Len(calls)] /\ Len(calls) \in DOMAIN calls
  BY <1>1, Positions DEF Visiting, Calling
<1>3. n \in onStack /\ n \in Nodes
  BY <1>2, OnStack DEF CallInv
<1>4. ASSUME NEW y \in Calling PROVE y = n \/ indices[y] < indices[n]
  <2>1. PICK i \in DOMAIN calls : y = calls[i]
    BY DEF Calling
  <2>2. i = Len(calls) \/ i < Len(calls)
    BY <1>1, <2>1, Positions
  <2> QED
    BY <1>2, <2>1, <2>2 DEF CallInv
<1>5. \A y \in Calling : y \in onStack
  BY DEF CallInv
<1>6. \A y \in Calling : indices[y] <= indices[n]
  BY <1>3, <1>4, <1>5, OnStack
<1> QED
  BY <1>1, <1>2, <1>3, <1>4, <1>6

\* What is left of the visits when the innermost one returns.
LEMMA AfterReturn ==
  ASSUME TypeOK, StackInv, CallInv, NEW n, Visiting(n), Return(n)
  PROVE  /\ Calling' = Calling \ {n}
         /\ Len(calls) = 1 => Calling = {n} /\ lowlinks' = lowlinks /\ cursor' = cursor
         /\ Len(calls) # 1 => \E p \in Calling \ {n} :
              /\ p = calls[Len(calls) - 1]
              /\ \A y \in Calling \ {n} : y = p \/ indices[y] < indices[p]
              /\ MoreEdges(p) /\ Target(p) = n
              /\ lowlinks' = [lowlinks EXCEPT ![p] = Lesser(lowlinks[p], lowlinks[n])]
              /\ cursor' = [cursor EXCEPT ![p] = cursor[p] + 1]
<1> DEFINE k == Len(calls)
<1>1. k \in Nat \ {0} /\ DOMAIN calls = 1 .. k
  BY Innermost
<1>2. /\ n = calls[k]
      /\ DOMAIN calls' = 1 .. k - 1 /\ \A i \in 1 .. k - 1 : calls'[i] = calls[i]
  <2>1. calls \in Seq(Nodes) /\ calls # <<>> /\ calls' = Front(calls) /\ n = calls[k]
    BY DEF TypeOK, TarjanTypeOK, Visiting, Return
  <2>2. calls' \in Seq(Nodes) /\ Len(calls') = k - 1 /\ \A i \in 1 .. k - 1 : calls'[i] = calls[i]
    BY <2>1, LastAndFront
  <2> QED
    BY <2>1, <2>2, LenProperties
<1> HIDE DEF k
<1>3. \A i, j \in 1 .. k : i < j => indices[calls[i]] < indices[calls[j]]
  BY <1>1 DEF CallInv
<1>4. \A i \in 1 .. k : calls[i] \in Calling /\ indices[calls[i]] \in Int
  BY <1>1, OnStack DEF Calling, CallInv
<1>5. \A i \in 1 .. k - 1 : calls[i] # n
  BY <1>1, <1>2, <1>3, <1>4, Positions
<1>6. Calling' = {calls[i] : i \in 1 .. k - 1}
  BY <1>2 DEF Calling
<1>7. Calling = {calls[i] : i \in 1 .. k}
  BY <1>1 DEF Calling
<1>8. \A y \in Calling : y = n \/ y \in Calling'
  BY <1>1, <1>2, <1>6, <1>7, Positions
<1>9. Calling' = Calling \ {n}
  BY <1>1, <1>5, <1>6, <1>7, <1>8, Positions, SMTT(30)
<1>10. CASE k = 1
  <2>1. Calling = {n}
    BY <1>2, <1>7, <1>10
  <2> QED
    BY <1>9, <1>10, <2>1 DEF Return, k
<1>11. CASE k # 1
  <2> DEFINE p == calls[k - 1]
  <2>1. k - 1 \in 1 .. k - 1 /\ k - 1 \in 1 .. k /\ k - 1 < k
    BY <1>1, <1>11, Positions
  <2>2. p \in Calling \ {n}
    BY <1>5, <1>7, <2>1
  <2>3. ASSUME NEW y \in Calling \ {n} PROVE y = p \/ indices[y] < indices[p]
    <3>1. PICK i \in 1 .. k - 1 : y = calls[i]
      BY <1>6, <1>9
    <3>2. i \in 1 .. k /\ (i = k - 1 \/ i < k - 1)
      BY <1>1, <3>1
    <3> QED
      BY <1>3, <2>1, <3>1, <3>2
  <2>4. MoreEdges(p) /\ Target(p) = calls[(k - 1) + 1]
    BY <1>1, <2>1 DEF CallInv, k
  <2>5. (k - 1) + 1 = k
    BY <1>1
  <2>6. /\ lowlinks' = [lowlinks EXCEPT ![p] = Lesser(lowlinks[p], lowlinks[n])]
        /\ cursor' = [cursor EXCEPT ![p] = cursor[p] + 1]
    BY <1>11 DEF Return, k
  <2> QED
    BY <1>2, <1>9, <1>11, <2>2, <2>3, <2>4, <2>5, <2>6 DEF k
<1> QED
  BY <1>10, <1>11
\* A visit that begins keeps the invariant: at the top of the stack there is
\* a node that the innermost visit asked for, with no request followed yet.
LEMMA EnterInv ==
  ASSUME TypeOK, TarjanInv, NEW n \in Nodes, ~Seen(n), Enter(n),
         calls # <<>> => /\ Visiting(calls[Len(calls)]) /\ MoreEdges(calls[Len(calls)])
                         /\ Target(calls[Len(calls)]) = n
  PROVE  TarjanInv'
<1>0. StackInv /\ CallInv /\ ReachInv /\ LowInv /\ ClassInv
  BY DEF TarjanInv
<1>1. /\ edges \in [Nodes -> Seq(Nodes)] /\ nextIndex \in Nat
      /\ stack \in Seq(Nodes) /\ calls \in Seq(Nodes)
      /\ indices \in [Nodes -> Nat \cup {NoIndex}] /\ lowlinks \in [Nodes -> Nat]
      /\ cursor \in [Nodes -> Nat \ {0}]
  BY DEF TypeOK, TarjanTypeOK
<1>2. /\ edges' = edges /\ cursor' = cursor /\ components' = components
      /\ nextIndex' = nextIndex + 1 /\ onStack' = onStack \cup {n}
      /\ indices' = [indices EXCEPT ![n] = nextIndex]
      /\ lowlinks' = [lowlinks EXCEPT ![n] = nextIndex]
      /\ stack' = Append(stack, n) /\ calls' = Append(calls, n)
  BY DEF Enter
<1>3. /\ onStack \subseteq Nodes /\ Emitted \subseteq Nodes
      /\ \A m \in Nodes : Seen(m) <=> m \in onStack \cup Emitted
      /\ onStack \cap Emitted = {}
      /\ \A m \in Nodes : indices[m] \in Int /\ indices[m] < nextIndex
      /\ \A m \in Nodes : Seen(m) => indices[m] \in Nat
  BY <1>0, OnStack
<1>4. n \notin onStack /\ n \notin Emitted
  BY <1>3
<1>5. /\ indices'[n] = nextIndex /\ \A m \in Nodes \ {n} : indices'[m] = indices[m]
      /\ lowlinks'[n] = nextIndex /\ \A m \in Nodes \ {n} : lowlinks'[m] = lowlinks[m]
      /\ \A m \in Nodes : indices'[m] \in Int /\ indices[m] < nextIndex
  BY <1>1, <1>2, <1>3
<1>6. /\ Emitted' = Emitted
      /\ Seen(n)' /\ \A m \in Nodes \ {n} : Seen(m)' <=> Seen(m)
  BY <1>1, <1>2, <1>5 DEF Emitted, Seen, NoIndex
<1>7. /\ Len(stack) \in Nat /\ DOMAIN stack = 1 .. Len(stack)
      /\ DOMAIN stack' = 1 .. Len(stack) + 1 /\ stack'[Len(stack) + 1] = n
      /\ \A i \in 1 .. Len(stack) : stack'[i] = stack[i]
      /\ Len(calls) \in Nat /\ DOMAIN calls = 1 .. Len(calls)
      /\ DOMAIN calls' = 1 .. Len(calls) + 1 /\ calls'[Len(calls) + 1] = n
      /\ \A i \in 1 .. Len(calls) : calls'[i] = calls[i]
      /\ Len(calls') = Len(calls) + 1
  <2>1. /\ stack' \in Seq(Nodes) /\ Len(stack') = Len(stack) + 1
        /\ calls' \in Seq(Nodes) /\ Len(calls') = Len(calls) + 1
    BY <1>1, <1>2, AppendProperties
  <2> QED
    BY <1>1, <1>2, <2>1, AppendProperties, LenProperties
<1>8. \A l \in Nat : \A i \in 1 .. l + 1 : i \in Int /\ (i \in 1 .. l \/ i = l + 1)
  OBVIOUS
<1>9. \A l \in Nat : l + 1 \in 1 .. l + 1 /\ \A i \in 1 .. l : i \in 1 .. l + 1 /\ i < l + 1
  OBVIOUS
<1>10. Calling' = Calling \cup {n}
  BY <1>7, <1>8, <1>9 DEF Calling
<1>11. Calling \subseteq onStack
  BY <1>0 DEF CallInv
<1>12. StackInv'
  <2>1. ASSUME NEW i \in DOMAIN stack', NEW j \in DOMAIN stack', i < j
        PROVE  indices'[stack'[i]] < indices'[stack'[j]]
    <3>1. i \in 1 .. Len(stack) /\ stack'[i] = stack[i] /\ stack[i] \in onStack
      BY <1>0, <1>7, <1>8, <2>1 DEF StackInv
    <3>2. CASE j \in 1 .. Len(stack)
      <4>1. stack'[j] = stack[j] /\ stack[j] \in onStack
        BY <1>0, <1>7, <3>2 DEF StackInv
      <4> QED
        BY <1>0, <1>3, <1>4, <1>5, <1>7, <2>1, <3>1, <3>2, <4>1 DEF StackInv
    <3>3. CASE j = Len(stack) + 1
      BY <1>3, <1>4, <1>5, <1>7, <3>1, <3>3
    <3> QED
      BY <1>7, <1>8, <3>2, <3>3
  <2>2. onStack' = {stack'[i] : i \in DOMAIN stack'}
    <3>1. onStack = {stack[i] : i \in 1 .. Len(stack)}
      BY <1>0, <1>7 DEF StackInv
    <3> QED
      BY <1>2, <1>7, <1>8, <1>9, <3>1, SMTT(30)
  <2>3. \A m \in Nodes : indices'[m] < nextIndex'
    BY <1>1, <1>2, <1>3, <1>5, SMTT(30)
  <2> QED
    BY <1>2, <1>3, <1>4, <1>6, <2>1, <2>2, <2>3 DEF StackInv
<1>13. \A m \in Nodes : (MoreEdges(m))' = MoreEdges(m) /\ (Target(m))' = Target(m)
  BY <1>2 DEF MoreEdges, Target
<1>14. CallInv'
  <2>0. \A i, j \in DOMAIN calls : i < j => indices[calls[i]] < indices[calls[j]]
    BY <1>0 DEF CallInv
  <2>1. ASSUME NEW i \in DOMAIN calls', NEW j \in DOMAIN calls', i < j
        PROVE  indices'[calls'[i]] < indices'[calls'[j]]
    <3>1. i \in 1 .. Len(calls) /\ calls'[i] = calls[i] /\ calls[i] \in onStack
      BY <1>7, <1>8, <1>11, <2>1 DEF Calling
    <3>2. CASE j \in 1 .. Len(calls)
      <4>1. calls'[j] = calls[j] /\ calls[j] \in onStack
        BY <1>7, <1>11, <3>2 DEF Calling
      <4> QED
        BY <1>3, <1>4, <1>5, <1>7, <2>0, <2>1, <3>1, <3>2, <4>1
    <3>3. CASE j = Len(calls) + 1
      BY <1>3, <1>4, <1>5, <1>7, <3>1, <3>3
    <3> QED
      BY <1>7, <1>8, <3>2, <3>3
  <2>2. Calling' \subseteq onStack'
    BY <1>2, <1>10, <1>11
  <2>3. ASSUME NEW i \in DOMAIN calls', i < Len(calls')
        PROVE  (MoreEdges(calls[i]) /\ Target(calls[i]) = calls[i + 1])'
    <3>1. i \in 1 .. Len(calls) /\ calls'[i] = calls[i] /\ calls[i] \in Nodes
      BY <1>3, <1>7, <1>8, <1>11, <2>3 DEF Calling
    <3>2. CASE i < Len(calls)
      <4>1. i + 1 \in 1 .. Len(calls)
        BY <1>7, <3>1, <3>2
      <4>2. calls'[i + 1] = calls[i + 1]
        BY <1>7, <4>1
      <4>3. MoreEdges(calls[i]) /\ Target(calls[i]) = calls[i + 1]
        BY <1>0, <1>7, <3>1, <3>2 DEF CallInv
      <4> QED
        BY <1>2, <3>1, <4>2, <4>3 DEF MoreEdges, Target
    <3>3. CASE i = Len(calls)
      <4>1. calls # <<>>
        BY <1>1, <1>7, <3>1, <3>3, EmptySeq
      <4>2. MoreEdges(calls[i]) /\ Target(calls[i]) = n
        BY <3>3, <4>1
      <4> QED
        BY <1>2, <1>7, <3>1, <3>3, <4>2 DEF MoreEdges, Target
    <3> QED
      BY <1>7, <3>1, <3>2, <3>3
  <2>4. \A m \in Nodes : cursor'[m] <= Len(edges'[m]) + 1
    BY <1>0, <1>2 DEF CallInv
  <2>5. \A m \in Nodes : ~Seen(m)' => cursor'[m] = 1
    BY <1>0, <1>2, <1>6 DEF CallInv
  <2>6. \A m \in Nodes : Seen(m)' /\ m \notin Calling' => ~(MoreEdges(m))'
    BY <1>0, <1>6, <1>10, <1>13 DEF CallInv
  <2>7. \A m \in Nodes : \A k \in 1 .. cursor'[m] - 1 : Seen(edges[m][k])'
    <3>1. ASSUME NEW m \in Nodes, NEW k \in 1 .. cursor[m] - 1 PROVE Seen(edges[m][k])'
      <4>1. Seen(edges[m][k])
        BY <1>0 DEF CallInv
      <4>2. edges[m] \in Seq(Nodes) /\ k \in 1 .. Len(edges[m])
        <5>1. /\ edges[m] \in Seq(Nodes) /\ cursor[m] \in Nat /\ cursor[m] <= Len(edges[m]) + 1
              /\ Len(edges[m]) \in Nat
          BY <1>0, <1>1, LenProperties DEF CallInv
        <5>2. \A c, l \in Nat : c <= l + 1 => \A i \in 1 .. c - 1 : i \in 1 .. l
          OBVIOUS
        <5> QED
          BY <5>1, <5>2
      <4>3. edges[m][k] \in Nodes
        BY <4>2, ElementOfSeq
      <4> QED
        BY <1>1, <1>2, <1>5, <4>1, <4>3 DEF Seen, NoIndex
    <3> QED
      BY <1>2, <3>1
  <2> QED
    BY <2>1, <2>2, <2>3, <2>4, <2>5, <2>6, <2>7 DEF CallInv
<1>15. ReachInv'
  <2>1. ASSUME NEW y \in Calling', NEW x \in onStack', indices'[y] <= indices'[x]
        PROVE  Reaches(edges', y, x)
    <3>1. CASE x = n /\ y = n
      BY <3>1, ReachSelf
    <3>2. CASE x = n /\ y # n
      <4> DEFINE top == calls[Len(calls)]
      <4>1. y \in Calling /\ calls # <<>>
        BY <1>7, <1>10, <3>2 DEF Calling
      <4>2. Visiting(top) /\ MoreEdges(top) /\ Target(top) = n
        BY <4>1
      <4>3. top \in Calling /\ top \in onStack /\ top \in Nodes /\ indices[y] <= indices[top]
        BY <1>0, <4>1, <4>2, Innermost
      <4>4. Reaches(edges, y, top)
        BY <1>0, <4>1, <4>3 DEF ReachInv
      <4>5. cursor[top] \in 1 .. Len(edges[top])
        <5>1. cursor[top] \in Nat \ {0} /\ Len(edges[top]) \in Nat
          BY <1>1, <4>3, LenProperties
        <5> QED
          BY <4>2, <5>1 DEF MoreEdges
      <4>6. Reaches(edges, top, n)
        BY <1>1, <4>2, <4>3, <4>5, ReachEdge DEF Target
      <4> QED
        BY <1>2, <3>2, <4>4, <4>6, ReachTrans
    <3>3. CASE x # n
      <4>1. x \in onStack /\ indices'[x] = indices[x] /\ indices[x] < nextIndex
        BY <1>2, <1>3, <1>5, <3>3
      <4>2. y # n
        BY <1>1, <1>3, <1>5, <2>1, <4>1
      <4>3. y \in Calling /\ indices'[y] = indices[y]
        BY <1>3, <1>5, <1>10, <1>11, <4>2
      <4> QED
        BY <1>0, <1>2, <2>1, <4>1, <4>3 DEF ReachInv
    <3> QED
      BY <3>1, <3>2, <3>3
  <2>2. ASSUME NEW x \in onStack'
        PROVE  \E y \in Calling' : indices'[y] <= indices'[x] /\ Reaches(edges', x, y)
    <3>1. CASE x = n
      <4>1. n \in Calling' /\ indices'[n] <= indices'[n] /\ Reaches(edges', n, n)
        BY <1>1, <1>5, <1>10, ReachSelf
      <4> QED
        BY <3>1, <4>1
    <3>2. CASE x # n
      <4>1. x \in onStack
        BY <1>2, <3>2
      <4>2. PICK y \in Calling : indices[y] <= indices[x] /\ Reaches(edges, x, y)
        BY <1>0, <4>1 DEF ReachInv
      <4>3. y \in onStack /\ indices'[y] = indices[y] /\ indices'[x] = indices[x]
        BY <1>3, <1>4, <1>5, <1>11, <4>1
      <4> QED
        BY <1>2, <1>10, <4>2, <4>3
    <3> QED
      BY <3>1, <3>2
  <2> QED
    BY <2>1, <2>2 DEF ReachInv
<1>16. LowInv'
  <2>1. ASSUME NEW v \in onStack'
        PROVE  \E w \in onStack' : /\ indices'[w] = lowlinks'[v] /\ lowlinks'[v] <= indices'[v]
                                   /\ Reaches(edges', v, w)
    <3>1. CASE v = n
      BY <1>1, <1>2, <1>5, <3>1, ReachSelf
    <3>2. CASE v # n
      <4>1. v \in onStack
        BY <1>2, <3>2
      <4>2. PICK w \in onStack : /\ indices[w] = lowlinks[v] /\ lowlinks[v] <= indices[v]
                                 /\ Reaches(edges, v, w)
        BY <1>0, <4>1 DEF LowInv
      <4>3. /\ indices'[w] = indices[w] /\ indices'[v] = indices[v]
            /\ lowlinks'[v] = lowlinks[v]
        BY <1>3, <1>4, <1>5, <4>1
      <4> QED
        BY <1>2, <4>2, <4>3
    <3> QED
      BY <3>1, <3>2
  <2>2. ASSUME NEW g \in Calling', NEW x \in onStack', Under(g, x)', NEW k \in 1 .. cursor'[x] - 1,
               edges'[x][k] \in onStack'
        PROVE  lowlinks'[g] <= indices'[edges'[x][k]]
    <3>1. x # n
      BY <1>0, <1>2, <2>2 DEF CallInv
    <3>2. x \in onStack /\ indices'[x] = indices[x] /\ x \in Nodes
      BY <1>2, <1>3, <1>5, <3>1
    <3>3. g # n
      BY <1>1, <1>3, <1>5, <2>2, <3>2 DEF Under
    <3>4. g \in Calling /\ g \in onStack /\ indices'[g] = indices[g] /\ lowlinks'[g] = lowlinks[g]
      BY <1>3, <1>5, <1>10, <1>11, <3>3
    <3>5. \A h \in Calling : h \in Calling' /\ indices'[h] = indices[h]
      BY <1>3, <1>4, <1>5, <1>10, <1>11
    <3>6. Under(g, x)
      BY <2>2, <3>2, <3>4, <3>5 DEF Under
    <3>7. Seen(edges[x][k])
      BY <1>0, <1>2, <2>2, <3>2 DEF CallInv
    <3>8. edges[x][k] \in onStack /\ indices'[edges[x][k]] = indices[edges[x][k]]
      BY <1>2, <1>3, <1>5, <2>2, <3>7
    <3> QED
      BY <1>0, <1>2, <2>2, <3>2, <3>4, <3>6, <3>8 DEF LowInv
  <2> QED
    BY <2>1, <2>2 DEF LowInv
<1>17. ClassInv'
  BY <1>0, <1>2, <1>6 DEF ClassInv
<1> QED
  BY <1>12, <1>14, <1>15, <1>16, <1>17 DEF TarjanInv
\* Following a request to a node that has an index keeps the invariant.
LEMMA SkimInv ==
  ASSUME TypeOK, TarjanInv, NEW n \in Nodes, SkimEdge(n)
  PROVE  TarjanInv'
<1>0. StackInv /\ CallInv /\ ReachInv /\ LowInv /\ ClassInv
  BY DEF TarjanInv
<1>1. /\ edges \in [Nodes -> Seq(Nodes)]
      /\ indices \in [Nodes -> Nat \cup {NoIndex}] /\ lowlinks \in [Nodes -> Nat]
      /\ cursor \in [Nodes -> Nat \ {0}]
  BY DEF TypeOK, TarjanTypeOK
<1> DEFINE t == Target(n)
<1>2. /\ edges' = edges /\ indices' = indices /\ nextIndex' = nextIndex
      /\ stack' = stack /\ onStack' = onStack /\ components' = components /\ calls' = calls
      /\ cursor' = [cursor EXCEPT ![n] = cursor[n] + 1]
      /\ lowlinks' = [lowlinks EXCEPT ![n] = IF t \in onStack
                                             THEN Lesser(lowlinks[n], indices[t]) ELSE lowlinks[n]]
      /\ Visiting(n) /\ MoreEdges(n) /\ Seen(t)
  BY DEF SkimEdge
<1>3. /\ onStack \subseteq Nodes
      /\ \A m \in Nodes : indices[m] \in Int /\ (Seen(m) => indices[m] \in Nat)
      /\ \A x, y \in onStack : indices[x] = indices[y] => x = y
  BY <1>0, OnStack
<1>4. /\ n \in Calling /\ n \in onStack /\ Calling \subseteq onStack
      /\ \A y \in Calling : y = n \/ indices[y] < indices[n]
  BY <1>0, <1>2, Innermost DEF CallInv
<1>5. /\ t \in Nodes /\ t = edges[n][cursor[n]] /\ indices[t] \in Nat
      /\ cursor[n] \in 1 .. Len(edges[n]) /\ Len(edges[n]) \in Nat
  <2>1. t \in Nodes /\ t = edges[n][cursor[n]]
    BY <1>2, TargetType DEF Target
  <2>2. cursor[n] \in Nat \ {0} /\ Len(edges[n]) \in Nat
    BY <1>1, LenProperties
  <2> QED
    BY <1>2, <1>3, <2>1, <2>2 DEF MoreEdges
<1>6. Reaches(edges, n, t)
  BY <1>1, <1>5, ReachEdge
<1> HIDE DEF t
<1>7. /\ cursor'[n] = cursor[n] + 1 /\ \A m \in Nodes \ {n} : cursor'[m] = cursor[m]
      /\ \A m \in Nodes \ {n} : lowlinks'[m] = lowlinks[m]
      /\ lowlinks'[n] = IF t \in onStack /\ indices[t] < lowlinks[n]
                        THEN indices[t] ELSE lowlinks[n]
      /\ lowlinks'[n] \in Nat
  <2>1. lowlinks'[n] = IF t \in onStack THEN Lesser(lowlinks[n], indices[t]) ELSE lowlinks[n]
    BY <1>1, <1>2
  <2>2. cursor'[n] = cursor[n] + 1 /\ \A m \in Nodes \ {n} : cursor'[m] = cursor[m] /\ lowlinks'[m] = lowlinks[m]
    BY <1>1, <1>2
  <2> QED
    BY <1>1, <1>5, <2>1, <2>2, SMTT(30) DEF Lesser
<1>8. /\ Calling' = Calling /\ Emitted' = Emitted /\ \A m : Seen(m)' <=> Seen(m)
      /\ \A g, x : Under(g, x)' <=> Under(g, x)
  BY <1>2 DEF Calling, Emitted, Seen, Under
<1>9. StackInv' /\ ReachInv' /\ ClassInv'
  BY <1>0, <1>2, <1>8 DEF StackInv, ReachInv, ClassInv
\* The requests followed so far, and the one just followed.
<1>10. \A m \in Nodes : \A k \in 1 .. cursor'[m] - 1 :
         k \in 1 .. cursor[m] - 1 \/ (m = n /\ edges[m][k] = t)
  <2>1. \A c \in Nat \ {0} : \A k \in 1 .. (c + 1) - 1 : k \in 1 .. c - 1 \/ k = c
    OBVIOUS
  <2>2. cursor[n] \in Nat \ {0}
    BY <1>1
  <2> QED
    BY <1>5, <1>7, <2>1, <2>2
<1>11. CallInv'
  <2>0. Len(calls) \in Nat \ {0} /\ DOMAIN calls = 1 .. Len(calls)
    BY <1>0, <1>2, Innermost
  <2>1. \A i, j \in DOMAIN calls : i < j => indices[calls[i]] < indices[calls[j]]
    BY <1>0 DEF CallInv
  <2>2. ASSUME NEW i \in DOMAIN calls, i < Len(calls)
        PROVE  (MoreEdges(calls[i]) /\ Target(calls[i]) = calls[i + 1])'
    <3>1. MoreEdges(calls[i]) /\ Target(calls[i]) = calls[i + 1]
      BY <1>0, <2>2 DEF CallInv
    <3>2. calls[i] \in Nodes /\ n = calls[Len(calls)] /\ Len(calls) \in DOMAIN calls
      BY <1>2, <1>3, <1>4, <2>0, Positions DEF Calling, Visiting
    <3>3. calls[i] # n
      BY <1>3, <2>1, <2>2, <3>2
    <3> QED
      BY <1>2, <1>7, <3>1, <3>2, <3>3 DEF MoreEdges, Target
  <2>3. \A m \in Nodes : cursor'[m] <= Len(edges'[m]) + 1
    BY <1>0, <1>2, <1>5, <1>7 DEF CallInv
  <2>4. Seen(n)
    BY <1>0, <1>3, <1>4, OnStack
  <2>5. \A m \in Nodes : ~Seen(m)' => cursor'[m] = 1
    BY <1>0, <1>7, <1>8, <2>4 DEF CallInv
  <2>6. \A m \in Nodes : Seen(m)' /\ m \notin Calling' => ~(MoreEdges(m))'
    <3>1. \A m \in Nodes : m # n => ((MoreEdges(m))' <=> MoreEdges(m))
      BY <1>2, <1>7 DEF MoreEdges
    <3> QED
      BY <1>0, <1>4, <1>8, <3>1 DEF CallInv
  <2>7. \A m \in Nodes : \A k \in 1 .. cursor'[m] - 1 : (Seen(edges[m][k]))'
    <3>1. \A m \in Nodes : \A k \in 1 .. cursor'[m] - 1 : Seen(edges[m][k])
      BY <1>0, <1>2, <1>10 DEF CallInv
    <3> QED
      BY <1>2, <3>1 DEF Seen
  <2>8. Calling' \subseteq onStack'
    BY <1>2, <1>4, <1>8
  <2> QED
    BY <1>2, <2>1, <2>2, <2>3, <2>5, <2>6, <2>7, <2>8 DEF CallInv
<1>12. LowInv'
  <2>1. ASSUME NEW v \in onStack
        PROVE  \E w \in onStack : /\ indices[w] = lowlinks'[v] /\ lowlinks'[v] <= indices[v]
                                  /\ Reaches(edges, v, w)
    <3>1. PICK w \in onStack : /\ indices[w] = lowlinks[v] /\ lowlinks[v] <= indices[v]
                               /\ Reaches(edges, v, w)
      BY <1>0 DEF LowInv
    <3>2. CASE v = n /\ t \in onStack /\ indices[t] < lowlinks[n]
      <4>1. lowlinks'[v] = indices[t] /\ t \in onStack /\ Reaches(edges, v, t)
        BY <1>6, <1>7, <3>2
      <4>2. lowlinks[n] \in Nat /\ indices[n] \in Int
        BY <1>1, <1>3, <1>4
      <4>3. indices[t] <= indices[v]
        BY <1>5, <3>1, <3>2, <4>2
      <4> QED
        BY <4>1, <4>3
    <3>3. CASE ~(v = n /\ t \in onStack /\ indices[t] < lowlinks[n])
      <4>1. lowlinks'[v] = lowlinks[v]
        BY <1>3, <1>7, <3>3
      <4> QED
        BY <3>1, <4>1
    <3> QED
      BY <3>2, <3>3
  <2>2. ASSUME NEW g \in Calling, NEW x \in onStack, Under(g, x), NEW k \in 1 .. cursor'[x] - 1,
               edges[x][k] \in onStack
        PROVE  lowlinks'[g] <= indices[edges[x][k]]
    <3>1. lowlinks'[g] \in Nat /\ lowlinks[g] \in Nat /\ lowlinks'[g] <= lowlinks[g] /\ g \in Nodes
      <4>1. g \in Nodes /\ lowlinks[g] \in Nat
        BY <1>1, <1>3, <1>4
      <4>2. CASE g = n
        BY <1>5, <1>7, <4>1, <4>2
      <4>3. CASE g # n
        BY <1>7, <4>1, <4>3
      <4> QED
        BY <4>2, <4>3
    <3>2. indices[edges[x][k]] \in Int
      BY <1>3, <2>2
    <3>3. CASE k \in 1 .. cursor[x] - 1
      <4>1. lowlinks[g] <= indices[edges[x][k]]
        BY <1>0, <2>2, <3>3 DEF LowInv
      <4> QED
        BY <3>1, <3>2, <4>1
    <3>4. CASE x = n /\ edges[x][k] = t
      <4>1. indices[g] <= indices[n] /\ indices[n] <= indices[g]
        BY <1>3, <1>4, <2>2, <3>4 DEF Under
      <4>2. g = n
        BY <1>3, <1>4, <3>1, <4>1
      <4>3. lowlinks'[n] <= indices[t]
        <5>1. t \in onStack
          BY <2>2, <3>4
        <5> QED
          BY <1>5, <1>7, <3>1, <4>2, <5>1
      <4> QED
        BY <3>4, <4>2, <4>3
    <3> QED
      BY <1>3, <1>10, <3>3, <3>4
  <2> QED
    BY <1>2, <1>8, <2>1, <2>2 DEF LowInv
<1> QED
  BY <1>9, <1>11, <1>12 DEF TarjanInv
\* What any return leaves of the visits: a chain, with the caller one
\* request further.
LEMMA ReturnCalls ==
  ASSUME TypeOK, TarjanInv, NEW n \in Nodes, Visiting(n), ~MoreEdges(n), Return(n),
         Calling \ {n} \subseteq onStack', onStack' \subseteq onStack,
         \A m \in Nodes : m \in onStack' \cup Emitted' <=> m \in onStack \cup Emitted
  PROVE  CallInv'
<1>0. StackInv /\ CallInv
  BY DEF TarjanInv
<1>1. /\ edges \in [Nodes -> Seq(Nodes)] /\ cursor \in [Nodes -> Nat \ {0}]
      /\ calls \in Seq(Nodes) /\ edges' = edges /\ indices' = indices /\ calls' = Front(calls)
  BY DEF TypeOK, TarjanTypeOK, Return
<1>2. /\ n \in Calling /\ Len(calls) \in Nat \ {0} /\ DOMAIN calls = 1 .. Len(calls)
      /\ calls # <<>> /\ n = calls[Len(calls)] /\ Calling \subseteq onStack
      /\ onStack \subseteq Nodes
  BY <1>0, Innermost, OnStack DEF Visiting, CallInv
<1>3. /\ Len(calls') = Len(calls) - 1 /\ DOMAIN calls' = 1 .. Len(calls) - 1
      /\ \A i \in 1 .. Len(calls) - 1 : calls'[i] = calls[i]
  <2>1. calls' \in Seq(Nodes) /\ Len(calls') = Len(calls) - 1
        /\ \A i \in 1 .. Len(calls) - 1 : calls'[i] = calls[i]
    BY <1>1, <1>2, LastAndFront
  <2> QED
    BY <2>1, LenProperties
<1>4. Calling' = Calling \ {n}
  BY <1>0, AfterReturn
<1>5. \A m \in Nodes : Seen(m)' <=> Seen(m)
  BY <1>1 DEF Seen
<1>6. \A i \in 1 .. Len(calls) - 1 : i \in 1 .. Len(calls) /\ i \in Nat
  BY <1>2, Positions
<1>7. \A i, j \in DOMAIN calls' : i < j => indices'[calls'[i]] < indices'[calls'[j]]
  <2>1. \A i, j \in 1 .. Len(calls) : i < j => indices[calls[i]] < indices[calls[j]]
    BY <1>0, <1>2 DEF CallInv
  <2> QED
    BY <1>1, <1>3, <1>6, <2>1, ZenonT(30)
<1>8. CASE Len(calls) = 1
  <2>1. cursor' = cursor /\ Calling = {n}
    BY <1>0, <1>8, AfterReturn
  <2>2. \A i \in DOMAIN calls' : FALSE
    BY <1>3, <1>8
  <2>3. \A m \in Nodes : (MoreEdges(m))' <=> MoreEdges(m)
    BY <1>1, <2>1 DEF MoreEdges
  <2>4. \A m \in Nodes : \A k \in 1 .. cursor'[m] - 1 : (Seen(edges[m][k]))'
    BY <1>0, <1>1, <2>1 DEF CallInv, Seen
  <2>5. \A m \in Nodes : Seen(m)' /\ m \notin Calling' => ~(MoreEdges(m))'
    BY <1>0, <1>4, <1>5, <2>3 DEF CallInv
  <2>6. \A m \in Nodes : cursor'[m] <= Len(edges'[m]) + 1 /\ (~Seen(m)' => cursor'[m] = 1)
    BY <1>0, <1>1, <1>5, <2>1 DEF CallInv
  <2> QED
    BY <1>4, <1>7, <2>2, <2>4, <2>5, <2>6 DEF CallInv
<1>9. CASE Len(calls) # 1
  <2>1. PICK p \in Calling \ {n} :
          /\ p = calls[Len(calls) - 1] /\ MoreEdges(p) /\ Target(p) = n
          /\ cursor' = [cursor EXCEPT ![p] = cursor[p] + 1]
    BY <1>0, <1>9, AfterReturn
  <2>2. /\ p \in Nodes /\ cursor'[p] = cursor[p] + 1
        /\ \A m \in Nodes \ {p} : cursor'[m] = cursor[m]
        /\ cursor[p] \in Nat \ {0} /\ Len(edges[p]) \in Nat
    BY <1>1, <1>2, <2>1, LenProperties
  <2>3. \A m \in Nodes : m # p => ((MoreEdges(m))' <=> MoreEdges(m))
    BY <1>1, <2>2 DEF MoreEdges
  <2>4. ASSUME NEW i \in DOMAIN calls', i < Len(calls')
        PROVE  (MoreEdges(calls[i]) /\ Target(calls[i]) = calls[i + 1])'
    <3>1. \A l \in Nat \ {0} : \A j \in 1 .. l - 1 : j < l - 1 =>
            /\ j < l /\ l - 1 \in 1 .. l - 1 /\ j + 1 \in 1 .. l - 1
      OBVIOUS
    <3>2. /\ i < Len(calls) /\ i \in 1 .. Len(calls) - 1 /\ i < Len(calls) - 1
          /\ i + 1 \in 1 .. Len(calls) - 1 /\ Len(calls) - 1 \in 1 .. Len(calls) - 1
      BY <1>2, <1>3, <2>4, <3>1
    <3>3. MoreEdges(calls[i]) /\ Target(calls[i]) = calls[i + 1]
      BY <1>0, <1>2, <1>6, <3>2 DEF CallInv
    <3>4. indices[calls[i]] < indices[p] /\ calls[i] \in Calling
      BY <1>0, <1>2, <1>6, <2>1, <3>2 DEF CallInv, Calling
    <3>5. calls[i] # p /\ calls[i] \in Nodes
      BY <1>0, <1>2, <2>2, <3>4, OnStack
    <3> QED
      BY <1>1, <1>3, <2>2, <3>2, <3>3, <3>5, ZenonT(30) DEF MoreEdges, Target
  <2>5. \A m \in Nodes : cursor'[m] <= Len(edges'[m]) + 1
    <3>1. \A m \in Nodes : cursor[m] <= Len(edges[m]) + 1
      BY <1>0 DEF CallInv
    <3>2. cursor[p] <= Len(edges[p])
      BY <2>1 DEF MoreEdges
    <3>3. \A c \in Nat, l \in Nat : c <= l => c + 1 <= l + 1
      OBVIOUS
    <3>4. cursor'[p] <= Len(edges[p]) + 1
      BY <2>2, <3>2, <3>3
    <3> QED
      BY <1>1, <2>2, <3>1, <3>4
  <2>6. Seen(p) /\ Seen(n)
    BY <1>0, <1>2, <2>1, OnStack
  <2>7. \A m \in Nodes : ~Seen(m)' => cursor'[m] = 1
    BY <1>0, <1>5, <2>2, <2>6 DEF CallInv
  <2>8. \A m \in Nodes : Seen(m)' /\ m \notin Calling' => ~(MoreEdges(m))'
    BY <1>0, <1>4, <1>5, <2>1, <2>3 DEF CallInv
  <2>9. \A m \in Nodes : \A k \in 1 .. cursor'[m] - 1 : (Seen(edges[m][k]))'
    <3>1. \A c \in Nat \ {0} : \A k \in 1 .. (c + 1) - 1 : k \in 1 .. c - 1 \/ k = c
      OBVIOUS
    <3>2. \A k \in 1 .. cursor'[p] - 1 : k \in 1 .. cursor[p] - 1 \/ edges[p][k] = n
      BY <2>1, <2>2, <3>1 DEF Target
    <3>3. \A m \in Nodes : \A k \in 1 .. cursor'[m] - 1 : Seen(edges[m][k])
      BY <1>0, <2>2, <2>6, <3>2 DEF CallInv
    <3> QED
      BY <1>1, <3>3 DEF Seen
  <2> QED
    BY <1>4, <1>7, <2>4, <2>5, <2>7, <2>8, <2>9 DEF CallInv
<1> QED
  BY <1>8, <1>9
\* A visit that is not the root of a component leaves its nodes to its caller.
LEMMA LeaveInnerInv ==
  ASSUME TypeOK, TarjanInv, NEW n \in Nodes, LeaveInner(n)
  PROVE  TarjanInv'
<1>0. StackInv /\ CallInv /\ ReachInv /\ LowInv /\ ClassInv
  BY DEF TarjanInv
<1>1. /\ edges \in [Nodes -> Seq(Nodes)]
      /\ indices \in [Nodes -> Nat \cup {NoIndex}] /\ lowlinks \in [Nodes -> Nat]
      /\ cursor \in [Nodes -> Nat \ {0}]
  BY DEF TypeOK, TarjanTypeOK
<1>2. /\ edges' = edges /\ indices' = indices /\ nextIndex' = nextIndex
      /\ stack' = stack /\ onStack' = onStack /\ components' = components
      /\ Visiting(n) /\ ~MoreEdges(n) /\ lowlinks[n] # indices[n] /\ Return(n)
  BY DEF LeaveInner, Return
<1>3. /\ onStack \subseteq Nodes
      /\ \A m \in Nodes : indices[m] \in Int
      /\ \A x, y \in onStack : indices[x] = indices[y] => x = y
  BY <1>0, OnStack
<1>4. /\ n \in Calling /\ n \in onStack /\ Calling \subseteq onStack
      /\ \A y \in Calling : y = n \/ indices[y] < indices[n]
      /\ Calling' = Calling \ {n}
  BY <1>0, <1>2, Innermost, AfterReturn DEF CallInv
<1>5. /\ Emitted' = Emitted /\ \A m : Seen(m)' <=> Seen(m)
  BY <1>2 DEF Emitted, Seen
<1>6. StackInv' /\ ClassInv'
  BY <1>0, <1>2, <1>5 DEF StackInv, ClassInv
<1>7. CallInv'
  BY <1>2, <1>4, <1>5, ReturnCalls
\* n reaches a visit below itself.
<1>8. PICK w \in onStack : /\ indices[w] = lowlinks[n] /\ lowlinks[n] <= indices[n]
                           /\ Reaches(edges, n, w)
  BY <1>0, <1>4 DEF LowInv
<1>9. PICK z \in Calling : indices[z] <= indices[w] /\ Reaches(edges, w, z)
  BY <1>0 DEF ReachInv
<1>10. /\ z \in Calling' /\ indices[z] < indices[n] /\ Reaches(edges, n, z)
  <2>1. indices[w] < indices[n] /\ indices[z] \in Int /\ indices[w] \in Int
    BY <1>2, <1>3, <1>4, <1>8
  <2>2. indices[z] < indices[n] /\ z # n
    BY <1>3, <1>4, <1>9, <2>1
  <2> QED
    BY <1>4, <1>8, <1>9, <2>2, ReachTrans
<1>11. PICK p \in Calling \ {n} :
         /\ \A y \in Calling \ {n} : y = p \/ indices[y] < indices[p]
         /\ MoreEdges(p) /\ Target(p) = n
         /\ lowlinks' = [lowlinks EXCEPT ![p] = Lesser(lowlinks[p], lowlinks[n])]
         /\ cursor' = [cursor EXCEPT ![p] = cursor[p] + 1]
  <2>1. Len(calls) # 1
    BY <1>0, <1>2, <1>4, <1>10, AfterReturn
  <2> QED
    BY <1>0, <1>2, <2>1, AfterReturn
<1>12. /\ p \in Nodes /\ p \in onStack /\ indices[p] < indices[n]
       /\ lowlinks[p] \in Nat /\ lowlinks[n] \in Nat
  BY <1>1, <1>3, <1>4, <1>11
<1>13. /\ \A m \in Nodes \ {p} : cursor'[m] = cursor[m] /\ lowlinks'[m] = lowlinks[m]
       /\ cursor'[p] = cursor[p] + 1
       /\ lowlinks'[p] = Lesser(lowlinks[p], lowlinks[n])
  BY <1>1, <1>11, <1>12
<1>14. /\ lowlinks'[p] \in Nat /\ lowlinks'[p] <= lowlinks[p] /\ lowlinks'[p] <= lowlinks[n]
       /\ lowlinks'[p] = lowlinks[p] \/ lowlinks'[p] = lowlinks[n]
  BY <1>12, <1>13 DEF Lesser
<1>15. cursor[p] \in 1 .. Len(edges[p]) /\ edges[p][cursor[p]] = n /\ Reaches(edges, p, n)
  <2>1. cursor[p] \in Nat \ {0} /\ Len(edges[p]) \in Nat
    BY <1>1, <1>12, LenProperties
  <2>2. cursor[p] \in 1 .. Len(edges[p])
    BY <1>11, <2>1 DEF MoreEdges
  <2> QED
    BY <1>1, <1>11, <1>12, <2>2, ReachEdge DEF Target
<1>16. ReachInv'
  <2>1. ASSUME NEW x \in onStack
        PROVE  \E y \in Calling \ {n} : indices[y] <= indices[x] /\ Reaches(edges, x, y)
    <3>1. PICK y \in Calling : indices[y] <= indices[x] /\ Reaches(edges, x, y)
      BY <1>0 DEF ReachInv
    <3>2. CASE y # n
      BY <3>1, <3>2
    <3>3. CASE y = n
      <4>1. indices[z] \in Int /\ indices[n] \in Int /\ indices[x] \in Int
        BY <1>3, <1>4, <1>9
      <4>2. indices[z] <= indices[x] /\ Reaches(edges, x, z)
        BY <1>10, <3>1, <3>3, <4>1, ReachTrans
      <4> QED
        BY <1>4, <1>10, <4>2
    <3> QED
      BY <3>2, <3>3
  <2> QED
    BY <1>0, <1>2, <1>4, <2>1 DEF ReachInv
<1>17. LowInv'
  <2>1. ASSUME NEW v \in onStack
        PROVE  \E u \in onStack : /\ indices[u] = lowlinks'[v] /\ lowlinks'[v] <= indices[v]
                                  /\ Reaches(edges, v, u)
    <3>1. PICK u \in onStack : /\ indices[u] = lowlinks[v] /\ lowlinks[v] <= indices[v]
                               /\ Reaches(edges, v, u)
      BY <1>0 DEF LowInv
    <3>2. CASE lowlinks'[v] = lowlinks[v]
      BY <3>1, <3>2
    <3>3. CASE lowlinks'[v] # lowlinks[v]
      <4>1. v = p /\ lowlinks'[v] = lowlinks[n]
        BY <1>3, <1>13, <1>14, <3>3
      <4>2. Reaches(edges, v, w)
        BY <1>8, <1>15, <4>1, ReachTrans
      <4>3. lowlinks'[v] <= indices[v]
        <5>1. lowlinks[p] <= indices[p] /\ indices[p] \in Int
          BY <1>3, <1>12, <3>1, <4>1
        <5> QED
          BY <1>12, <1>14, <4>1, <5>1
      <4> QED
        BY <1>8, <4>1, <4>2, <4>3
    <3> QED
      BY <3>2, <3>3
  <2>2. ASSUME NEW g \in Calling \ {n}, NEW x \in onStack, Under(g, x)',
               NEW k \in 1 .. cursor'[x] - 1, edges[x][k] \in onStack
        PROVE  lowlinks'[g] <= indices[edges[x][k]]
    <3> DEFINE t == edges[x][k]
    <3>1. /\ indices[g] <= indices[x]
          /\ \A h \in Calling \ {n} : indices[h] <= indices[x] => indices[h] <= indices[g]
      BY <1>2, <1>4, <2>2 DEF Under
    <3>2. /\ g \in Nodes /\ lowlinks[g] \in Nat /\ lowlinks'[g] \in Nat /\ lowlinks'[g] <= lowlinks[g]
          /\ indices[g] \in Int /\ indices[x] \in Int /\ indices[t] \in Int /\ indices[n] \in Int
          /\ indices[p] \in Int /\ x \in Nodes
      <4>1. g \in Nodes /\ lowlinks[g] \in Nat /\ x \in Nodes
        BY <1>1, <1>3, <1>4
      <4>2. lowlinks'[g] \in Nat /\ lowlinks'[g] <= lowlinks[g]
        BY <1>13, <1>14, <4>1
      <4> QED
        BY <1>3, <1>4, <1>12, <2>2, <4>1, <4>2
    <3>3. k \in 1 .. cursor[x] - 1 \/ (x = p /\ t = n)
      <4>1. \A c \in Nat \ {0} : \A l \in 1 .. (c + 1) - 1 : l \in 1 .. c - 1 \/ l = c
        OBVIOUS
      <4>2. cursor[p] \in Nat \ {0}
        BY <1>1, <1>12
      <4> QED
        BY <1>13, <1>15, <2>2, <3>2, <4>1, <4>2
    <3> HIDE DEF t
    <3>4. CASE x = p /\ t = n
      <4>1. indices[p] <= indices[g]
        BY <1>11, <3>1, <3>2, <3>4
      <4>2. g = p
        BY <1>3, <1>4, <1>11, <1>12, <3>1, <3>2, <3>4, <4>1
      <4>3. lowlinks[n] <= indices[n]
        BY <1>8
      <4> QED
        BY <1>12, <1>14, <3>2, <3>4, <4>2, <4>3 DEF t
    <3>5. CASE k \in 1 .. cursor[x] - 1 /\ Under(g, x)
      <4>1. lowlinks[g] <= indices[t]
        BY <1>0, <2>2, <3>5 DEF LowInv, t
      <4> QED
        BY <3>2, <4>1 DEF t
    <3>6. CASE k \in 1 .. cursor[x] - 1 /\ ~Under(g, x)
      <4>1. indices[n] <= indices[x] /\ ~(indices[n] <= indices[g])
        BY <1>4, <3>1, <3>6 DEF Under
      <4>2. indices[p] <= indices[x]
        BY <1>12, <3>2, <4>1
      <4>3. indices[p] <= indices[g] /\ (g = p \/ indices[g] < indices[p])
        BY <1>11, <3>1, <4>2
      <4>4. g = p
        BY <3>2, <4>3
      <4>5. Under(n, x)
        <5>1. \A h \in Calling : indices[h] <= indices[n]
          BY <1>3, <1>4, <3>2
        <5> QED
          BY <4>1, <5>1 DEF Under
      <4>6. lowlinks[n] <= indices[t]
        BY <1>0, <1>4, <2>2, <3>6, <4>5 DEF LowInv, t
      <4> QED
        BY <1>12, <1>14, <3>2, <4>4, <4>6 DEF t
    <3> QED
      BY <3>3, <3>4, <3>5, <3>6
  <2> QED
    BY <1>2, <1>4, <2>1, <2>2 DEF LowInv
<1> QED
  BY <1>6, <1>7, <1>16, <1>17 DEF TarjanInv
\* The root of a component pops exactly the class of its node.
LEMMA LeaveRootInv ==
  ASSUME TypeOK, TarjanInv, NEW n \in Nodes, LeaveRoot(n)
  PROVE  TarjanInv'
<1>0. StackInv /\ CallInv /\ ReachInv /\ LowInv /\ ClassInv
  BY DEF TarjanInv
<1>1. /\ edges \in [Nodes -> Seq(Nodes)] /\ stack \in Seq(Nodes)
      /\ indices \in [Nodes -> Nat \cup {NoIndex}] /\ lowlinks \in [Nodes -> Nat]
      /\ cursor \in [Nodes -> Nat \ {0}]
  BY DEF TypeOK, TarjanTypeOK
<1> DEFINE members == {x \in onStack : indices[n] <= indices[x]}
<1>2. /\ edges' = edges /\ indices' = indices /\ nextIndex' = nextIndex
      /\ Visiting(n) /\ ~MoreEdges(n) /\ lowlinks[n] = indices[n] /\ Return(n)
  BY DEF LeaveRoot, Return
<1>3. /\ onStack \subseteq Nodes /\ Emitted \subseteq Nodes /\ onStack \cap Emitted = {}
      /\ \A m \in Nodes : indices[m] \in Int /\ indices[m] < nextIndex
      /\ \A m \in Nodes : Seen(m) <=> m \in onStack \cup Emitted
      /\ \A x, y \in onStack : indices[x] = indices[y] => x = y
  BY <1>0, OnStack
<1>4. /\ n \in Calling /\ n \in onStack /\ Calling \subseteq onStack
      /\ \A y \in Calling : y = n \/ indices[y] < indices[n]
      /\ Calling' = Calling \ {n}
  BY <1>0, <1>2, Innermost, AfterReturn DEF CallInv
\* What the loop pops.
<1>5. PICK i \in DOMAIN stack :
        /\ stack[i] = n
        /\ stack' = SubSeq(stack, 1, i - 1)
        /\ onStack' = onStack \ {stack[j] : j \in i .. Len(stack)}
        /\ components' = components \cup {{stack[j] : j \in i .. Len(stack)}}
  BY DEF LeaveRoot
<1>6. /\ i \in 1 .. Len(stack) /\ Len(stack) \in Nat /\ DOMAIN stack = 1 .. Len(stack)
      /\ \A j \in 1 .. Len(stack) : stack[j] \in onStack
      /\ \A j, k \in 1 .. Len(stack) : j < k => indices[stack[j]] < indices[stack[k]]
      /\ onStack = {stack[j] : j \in 1 .. Len(stack)}
  <2>1. DOMAIN stack = 1 .. Len(stack) /\ Len(stack) \in Nat
    BY <1>1, LenProperties
  <2> QED
    BY <1>0, <2>1 DEF StackInv
<1>7. \A l \in Nat : \A k \in 1 .. l : /\ (\A j \in 1 .. l : j \in k .. l \/ j \in 1 .. k - 1)
                                       /\ \A j \in k .. l : j \in 1 .. l /\ (j = k \/ k < j)
                                       /\ \A j \in 1 .. k - 1 : j \in 1 .. l /\ j < k
  OBVIOUS
<1>8. {stack[j] : j \in i .. Len(stack)} = members
  <2>1. ASSUME NEW j \in i .. Len(stack) PROVE stack[j] \in members
    <3>1. j \in 1 .. Len(stack) /\ (j = i \/ i < j)
      BY <1>6, <1>7
    <3>2. indices[n] \in Int /\ indices[stack[j]] \in Int
      BY <1>3, <1>4, <1>6, <3>1
    <3>3. stack[j] \in onStack
      BY <1>6, <3>1
    <3>4. stack[j] = n \/ indices[n] < indices[stack[j]]
      BY <1>5, <1>6, <3>1
    <3>5. indices[n] <= indices[stack[j]]
      BY <3>2, <3>4
    <3> QED
      BY <3>3, <3>5
  <2>2. ASSUME NEW x \in members PROVE x \in {stack[j] : j \in i .. Len(stack)}
    <3>1. PICK j \in 1 .. Len(stack) : x = stack[j]
      BY <1>6
    <3>2. CASE j \in i .. Len(stack)
      BY <3>1, <3>2
    <3>3. CASE j \in 1 .. i - 1
      <4>1. j < i
        BY <1>6, <1>7, <3>3
      <4>2. indices[x] < indices[n] /\ indices[x] \in Int /\ indices[n] \in Int
        BY <1>3, <1>4, <1>5, <1>6, <3>1, <4>1
      <4> QED
        BY <4>2
    <3> QED
      BY <1>6, <1>7, <3>2, <3>3
  <2> QED
    BY <2>1, <2>2
<1>9. /\ onStack' = onStack \ members /\ components' = components \cup {members}
      /\ Emitted' = Emitted \cup members
      /\ \A x \in onStack' : x \in onStack /\ indices[x] < indices[n]
      /\ \A x \in onStack : indices[x] < indices[n] => x \in onStack'
      /\ members \subseteq Nodes /\ members \subseteq onStack /\ n \in members
  <2>1. onStack' = onStack \ members /\ components' = components \cup {members}
    BY <1>5, <1>8
  <2>2. members \subseteq onStack /\ members \subseteq Nodes
    BY <1>3
  <2>3. n \in members
    BY <1>3, <1>4
  <2>4. \A x \in onStack : x \in members <=> ~(indices[x] < indices[n])
    BY <1>3, <1>4
  <2> HIDE DEF members
  <2>5. Emitted' = Emitted \cup members
    BY <2>1 DEF Emitted
  <2> QED
    BY <2>1, <2>2, <2>3, <2>4, <2>5
<1>10. Calling \ {n} \subseteq onStack'
  BY <1>4, <1>9
\* The members inherit from each other and from what is emitted only.
<1>11. Closed(edges, Emitted \cup members)
  <2>1. ASSUME NEW x \in members, NEW k \in DOMAIN edges[x]
        PROVE  edges[x][k] \in Emitted \cup members
    <3>1. x \in Nodes /\ Seen(x) /\ edges[x] \in Seq(Nodes)
      BY <1>1, <1>3, <1>9
    <3>2. x = n \/ x \notin Calling
      BY <1>3, <1>4, <1>9
    <3>3. ~MoreEdges(x)
      BY <1>0, <1>2, <3>1, <3>2 DEF CallInv
    <3>4. k \in 1 .. cursor[x] - 1
      <4>1. k \in 1 .. Len(edges[x]) /\ Len(edges[x]) \in Nat /\ cursor[x] \in Nat
        BY <1>1, <3>1, LenProperties
      <4>2. \A c, l \in Nat : ~(c <= l) => \A j \in 1 .. l : j \in 1 .. c - 1
        OBVIOUS
      <4> QED
        BY <3>3, <4>1, <4>2 DEF MoreEdges
    <3>5. edges[x][k] \in Nodes /\ Seen(edges[x][k])
      <4>1. k \in 1 .. Len(edges[x])
        BY <3>1, LenProperties
      <4> QED
        BY <1>0, <3>1, <3>4, <4>1, ElementOfSeq DEF CallInv
    <3>6. CASE edges[x][k] \in Emitted
      BY <3>6
    <3>7. CASE edges[x][k] \in onStack
      <4>1. Under(n, x)
        <5>1. \A h \in Calling : indices[h] <= indices[n]
          BY <1>3, <1>4
        <5> QED
          BY <5>1 DEF Under
      <4>2. lowlinks[n] <= indices[edges[x][k]]
        BY <1>0, <1>4, <1>9, <3>4, <3>7, <4>1 DEF LowInv
      <4> QED
        BY <1>2, <3>7, <4>2
    <3> QED
      BY <1>3, <3>5, <3>6, <3>7
  <2>2. \A x \in members : DonorsOf(edges, x) \subseteq Emitted \cup members
    BY <2>1 DEF DonorsOf
  <2>3. \A x \in Emitted : DonorsOf(edges, x) \subseteq Emitted
    BY <1>0 DEF ClassInv, Closed
  <2> QED
    BY <2>2, <2>3 DEF Closed
<1>12. members = Class(edges, n)
  <2>1. \A x \in members : Reaches(edges, n, x)
    BY <1>0, <1>4 DEF ReachInv
  <2>2. ASSUME NEW x \in members PROVE Reaches(edges, x, n)
    <3>1. PICK y \in Calling : indices[y] <= indices[x] /\ Reaches(edges, x, y)
      BY <1>0, <1>9 DEF ReachInv
    <3>2. y \in Emitted \cup members
      BY <1>1, <1>3, <1>9, <1>11, <3>1, ReachClosed
    <3>3. y \notin Emitted
      BY <1>3, <1>4
    <3>4. y = n
      BY <1>3, <1>4, <3>2, <3>3
    <3> QED
      BY <3>1, <3>4
  <2>3. Closed(edges, Emitted) /\ members \cap Emitted = {}
    BY <1>0, <1>3 DEF ClassInv
  <2> HIDE DEF members
  <2> QED
    BY <1>1, <1>3, <1>9, <1>11, <2>1, <2>2, <2>3, WholeClass
<1> HIDE DEF members
<1>13. ClassInv'
  BY <1>0, <1>2, <1>9, <1>11, <1>12 DEF ClassInv
<1>14. \A m \in Nodes : Seen(m)' <=> Seen(m)
  BY <1>2 DEF Seen
<1>15. StackInv'
  <2>1. /\ DOMAIN stack' = 1 .. i - 1 /\ \A j \in 1 .. i - 1 : stack'[j] = stack[j]
    <3>1. i \in Nat \ {0} /\ i - 1 \in Nat
      BY <1>6
    <3>2. \A j \in 1 .. i - 1 : stack[j] \in Nodes
      BY <1>3, <1>6, <1>7
    <3>3. \A k \in Nat \ {0} : /\ (IF 1 <= k - 1 THEN k - 1 - 1 + 1 ELSE 0) = k - 1
                               /\ 1 .. k - 1 - 1 + 1 = 1 .. k - 1
                               /\ \A j \in 1 .. k - 1 : 1 + j - 1 = j
      OBVIOUS
    <3>4. /\ stack' \in Seq(Nodes)
          /\ Len(stack') = IF 1 <= i - 1 THEN i - 1 - 1 + 1 ELSE 0
          /\ \A j \in 1 .. i - 1 - 1 + 1 : stack'[j] = stack[1 + j - 1]
      BY <1>5, <3>1, <3>2, SubSeqProperties
    <3>5. Len(stack') = i - 1 /\ \A j \in 1 .. i - 1 : stack'[j] = stack[j]
      BY <3>1, <3>3, <3>4
    <3> QED
      BY <3>4, <3>5, LenProperties
  <2>2. \A j, k \in DOMAIN stack' : j < k => indices'[stack'[j]] < indices'[stack'[k]]
    BY <1>2, <1>6, <1>7, <2>1
  <2>3. onStack' = {stack'[j] : j \in DOMAIN stack'}
    <3>1. ASSUME NEW j \in 1 .. i - 1 PROVE stack[j] \in onStack'
      <4>1. j \in 1 .. Len(stack) /\ j < i
        BY <1>6, <1>7
      <4> QED
        BY <1>5, <1>6, <1>9, <4>1
    <3>2. ASSUME NEW x \in onStack' PROVE x \in {stack[j] : j \in 1 .. i - 1}
      <4>1. PICK j \in 1 .. Len(stack) : x = stack[j]
        BY <1>6, <1>9
      <4>2. j \notin i .. Len(stack)
        BY <1>8, <1>9, <4>1
      <4> QED
        BY <1>6, <1>7, <4>1, <4>2
    <3> QED
      BY <2>1, <3>1, <3>2
  <2> QED
    BY <1>2, <1>3, <1>9, <1>14, <2>2, <2>3 DEF StackInv
<1>16. CallInv'
  BY <1>2, <1>9, <1>10, ReturnCalls
<1>17. ReachInv'
  <2>1. ASSUME NEW x \in onStack'
        PROVE  \E y \in Calling \ {n} : indices[y] <= indices[x] /\ Reaches(edges, x, y)
    <3>1. PICK y \in Calling : indices[y] <= indices[x] /\ Reaches(edges, x, y)
      BY <1>0, <1>9 DEF ReachInv
    <3>2. y # n
      BY <1>3, <1>4, <1>9, <3>1
    <3> QED
      BY <3>1, <3>2
  <2> QED
    BY <1>0, <1>2, <1>4, <1>9, <2>1 DEF ReachInv
\* The caller's lowlink is below the root already.
<1>18. lowlinks' = lowlinks /\ \A m \in Nodes : \A k \in 1 .. cursor'[m] - 1 :
         k \in 1 .. cursor[m] - 1 \/ edges[m][k] = n
  <2>1. CASE Len(calls) = 1
    BY <1>0, <1>2, <2>1, AfterReturn
  <2>2. CASE Len(calls) # 1
    <3>1. PICK p \in Calling \ {n} :
            /\ Target(p) = n
            /\ lowlinks' = [lowlinks EXCEPT ![p] = Lesser(lowlinks[p], lowlinks[n])]
            /\ cursor' = [cursor EXCEPT ![p] = cursor[p] + 1]
      BY <1>0, <1>2, <2>2, AfterReturn
    <3>2. /\ p \in Nodes /\ indices[p] < indices[n] /\ indices[p] \in Int /\ indices[n] \in Int
          /\ lowlinks[p] \in Nat /\ cursor[p] \in Nat \ {0}
      BY <1>1, <1>3, <1>4, <3>1
    <3>3. lowlinks[p] <= indices[p]
      BY <1>0, <1>4, <3>1 DEF LowInv
    <3>4. Lesser(lowlinks[p], lowlinks[n]) = lowlinks[p]
      BY <1>2, <3>2, <3>3 DEF Lesser
    <3>5. lowlinks' = lowlinks
      BY <1>1, <3>1, <3>4
    <3>6. \A c \in Nat \ {0} : \A k \in 1 .. (c + 1) - 1 : k \in 1 .. c - 1 \/ k = c
      OBVIOUS
    <3>7. cursor'[p] = cursor[p] + 1 /\ \A m \in Nodes \ {p} : cursor'[m] = cursor[m]
      BY <1>1, <3>1, <3>2
    <3> QED
      BY <3>1, <3>2, <3>5, <3>6, <3>7 DEF Target
  <2> QED
    BY <2>1, <2>2
<1>19. LowInv'
  <2>1. ASSUME NEW v \in onStack'
        PROVE  \E u \in onStack' : /\ indices[u] = lowlinks[v] /\ lowlinks[v] <= indices[v]
                                   /\ Reaches(edges, v, u)
    <3>1. PICK u \in onStack : /\ indices[u] = lowlinks[v] /\ lowlinks[v] <= indices[v]
                               /\ Reaches(edges, v, u)
      BY <1>0, <1>9 DEF LowInv
    <3>2. u \in onStack'
      BY <1>3, <1>4, <1>9, <3>1
    <3> QED
      BY <3>1, <3>2
  <2>2. ASSUME NEW g \in Calling \ {n}, NEW x \in onStack', Under(g, x)',
               NEW k \in 1 .. cursor'[x] - 1, edges[x][k] \in onStack'
        PROVE  lowlinks[g] <= indices[edges[x][k]]
    <3>1. Under(g, x)
      <4>1. /\ indices[g] <= indices[x]
            /\ \A h \in Calling \ {n} : indices[h] <= indices[x] => indices[h] <= indices[g]
        BY <1>2, <1>4, <2>2 DEF Under
      <4>2. ~(indices[n] <= indices[x])
        BY <1>3, <1>4, <1>9
      <4> QED
        BY <4>1, <4>2 DEF Under
    <3>2. k \in 1 .. cursor[x] - 1
      BY <1>3, <1>9, <1>18, <2>2
    <3> QED
      BY <1>0, <1>9, <2>2, <3>1, <3>2 DEF LowInv
  <2> QED
    BY <1>2, <1>4, <1>18, <2>1, <2>2 DEF LowInv
<1> QED
  BY <1>13, <1>15, <1>16, <1>17, <1>19 DEF TarjanInv
-----------------------------------------------------------------------------
(* Theorems *)

\* The components are found once, before anything else uses them.
FoundInv == ComponentsAreClasses
AnalysisInv == TypeOK /\ TarjanInv /\ FoundInv /\ OrderedInv

\* The initial states satisfy the invariant.
LEMMA InitInv == Init => AnalysisInv
<1> SUFFICES ASSUME Init PROVE AnalysisInv
  OBVIOUS
<1>1. TypeOK
  BY InitType
<1>2. \A S : <<>> \in Seq(S)
  BY EmptySeq
<1>3. DOMAIN stack = {} /\ DOMAIN calls = {} /\ DOMAIN order = {} /\ Len(calls) = 0
  BY DEF Init
<1>4. onStack = {} /\ Emitted = {} /\ Calling = {} /\ components = {}
  BY <1>3 DEF Init, Emitted, Calling
<1>5. \A n \in Nodes : ~Seen(n) /\ indices[n] < nextIndex /\ cursor[n] = 1 /\ Len(edges[n]) \in Nat
  BY <1>1, LenProperties DEF Init, Seen, NoIndex, TypeOK
<1>6. StackInv
  BY <1>3, <1>4, <1>5 DEF StackInv
<1>7. \A n \in Nodes : cursor[n] <= Len(edges[n]) + 1 /\ \A k \in 1 .. cursor[n] - 1 : FALSE
  BY <1>5
<1>8. CallInv
  BY <1>3, <1>4, <1>5, <1>7 DEF CallInv
<1>9. ReachInv /\ LowInv
  BY <1>4 DEF ReachInv, LowInv
<1>10. ClassInv
  BY <1>4 DEF ClassInv, Closed
<1>11. FoundInv /\ OrderedInv
  BY <1>3 DEF Init, FoundInv, ComponentsAreClasses, OrderedInv, OrderInv, DonorsComeFirst, OrderIsLeast
<1> QED
  BY <1>1, <1>6, <1>8, <1>9, <1>10, <1>11 DEF AnalysisInv, TarjanInv

\* The traversal has found every class when no visit is left.
LEMMA AllFound ==
  ASSUME TypeOK, TarjanInv, calls = <<>>, \A n \in Nodes : Seen(n)
  PROVE  components = Classes(edges)
<1>0. StackInv /\ ReachInv /\ ClassInv /\ edges \in [Nodes -> Seq(Nodes)] /\ DOMAIN edges = Nodes
  BY DEF TarjanInv, TypeOK
<1>1. Calling = {} /\ onStack = {}
  BY <1>0 DEF Calling, ReachInv
<1>2. Emitted = Nodes
  BY <1>0, <1>1, OnStack
<1>3. components \subseteq Classes(edges)
  BY <1>0 DEF ClassInv, Classes
<1>4. ASSUME NEW n \in Nodes PROVE Class(edges, n) \in components
  <2>1. PICK C \in components : n \in C
    BY <1>2 DEF Emitted
  <2>2. PICK m \in Nodes : C = Class(edges, m)
    BY <1>0 DEF ClassInv
  <2>3. Class(edges, n) = C
    BY <1>0, <2>1, <2>2, SameClass
  <2> QED
    BY <2>1, <2>3
<1> QED
  BY <1>0, <1>3, <1>4 DEF Classes

\* Every step of the traversal keeps its invariant.
LEMMA VisitInv ==
  ASSUME TypeOK, TarjanInv, Visit
  PROVE  TarjanInv'
<1>1. ASSUME NEW n \in Nodes, VisitRoot(n) PROVE TarjanInv'
  BY <1>1, EnterInv DEF VisitRoot
<1>2. ASSUME NEW n \in Nodes, Descend(n) PROVE TarjanInv'
  <2>1. /\ Visiting(n) /\ MoreEdges(n) /\ ~Seen(Target(n)) /\ Enter(Target(n))
        /\ n = calls[Len(calls)]
    BY <1>2 DEF Descend, Visiting
  <2>2. Target(n) \in Nodes
    BY <2>1, TargetType
  <2> QED
    BY <2>1, <2>2, EnterInv
<1> QED
  BY <1>1, <1>2, SkimInv, LeaveInnerInv, LeaveRootInv DEF Visit

\* Nothing after the traversal touches what it found.
LEMMA TarjanStays == TarjanInv /\ UNCHANGED <<edges, tarjan>> => TarjanInv'
  BY SMTT(30) DEF TarjanInv, StackInv, CallInv, ReachInv, LowInv, ClassInv, Seen, MoreEdges, Target,
         Calling, Emitted, Under, tarjan

\* Steps that leave the order alone leave its invariant alone.
LEMMA OrderStays ==
  ASSUME OrderedInv, UNCHANGED order,
         pc' \in {"visit", "cycle", "panic"} /\ pc \in {"visit", "cycle"}
  PROVE  OrderedInv'
<1>1. order = <<>> /\ order' = <<>>
  BY DEF OrderedInv, OrderInv
<1> QED
  BY <1>1 DEF OrderedInv, OrderInv, DonorsComeFirst, OrderIsLeast

\* Every step keeps the invariant.
LEMMA StepInv == AnalysisInv /\ [Next]_vars => AnalysisInv'
<1> SUFFICES ASSUME AnalysisInv, [Next]_vars PROVE AnalysisInv'
  OBVIOUS
<1>0. TypeOK /\ TarjanInv /\ FoundInv /\ OrderedInv
  BY DEF AnalysisInv
<1>1. CASE Visit
  <2>1. pc = "visit" /\ pc' = "visit" /\ order' = order
    BY <1>1 DEF Visit, VisitRoot, Descend, SkimEdge, LeaveInner, LeaveRoot, Enter, Return,
                Visiting, kahn
  <2>2. TypeOK' /\ TarjanInv' /\ OrderedInv' /\ FoundInv'
    BY <1>0, <1>1, <2>1, VisitType, VisitInv, OrderStays DEF FoundInv, ComponentsAreClasses
  <2> QED
    BY <2>2 DEF AnalysisInv
<1>2. CASE EndVisits
  <2>1. /\ pc = "visit" /\ pc' = "cycle" /\ UNCHANGED <<edges, tarjan>> /\ UNCHANGED kahn
        /\ calls = <<>> /\ \A n \in Nodes : Seen(n)
        /\ unsearched' \subseteq components /\ UNCHANGED <<path, tried, cycles>>
    BY <1>2 DEF EndVisits
  <2>2. TarjanInv'
    BY <1>0, <2>1, TarjanStays
  <2>3. FoundInv'
    BY <1>0, <2>1, AllFound DEF FoundInv, ComponentsAreClasses, tarjan
  <2>4. TypeOK'
    BY <1>0, <2>1 DEF TypeOK, TarjanTypeOK, SearchTypeOK, OrderTypeOK, tarjan, kahn
  <2>5. OrderedInv'
    BY <1>0, <2>1, OrderStays DEF kahn
  <2> QED
    BY <2>2, <2>3, <2>4, <2>5 DEF AnalysisInv
<1>3. CASE Search
  <2>1. /\ pc = "cycle" /\ pc' \in {"cycle", "panic"}
        /\ UNCHANGED <<edges, tarjan>> /\ UNCHANGED kahn
    BY <1>3 DEF Search, BeginSearch, SkipHop, TakeHop, CloseCycle, Backtrack, Searching
  <2>2. TarjanInv'
    BY <1>0, <2>1, TarjanStays
  <2>3. FoundInv' /\ OrderedInv'
    BY <1>0, <2>1, OrderStays DEF FoundInv, ComponentsAreClasses, tarjan, kahn
  <2> QED
    BY <1>0, <1>3, <2>2, <2>3, SearchType DEF AnalysisInv
<1>4. CASE BeginOrder
  <2>1. /\ pc = "cycle" /\ pc' = "order" /\ UNCHANGED <<edges, tarjan, search, order>>
        /\ indegree' = [C \in components |-> Cardinality(DonorComponents(C))]
        /\ ready' = {C \in components : DonorComponents(C) = {}}
        /\ components' = components
    BY <1>4 DEF BeginOrder, tarjan
  <2>2. TarjanInv' /\ FoundInv'
    BY <1>0, <2>1, TarjanStays DEF FoundInv, ComponentsAreClasses
  <2>3. order = <<>> /\ DOMAIN order = {} /\ Range(order) = {}
    BY <1>0, <2>1 DEF OrderedInv, OrderInv, Range
  <2>4. \A C : (DonorComponents(C))' = DonorComponents(C) /\ DonorComponents(C) \ {} = DonorComponents(C)
    BY <2>1 DEF DonorComponents
  <2>5. \A C \in components : Cardinality(DonorComponents(C)) \in Nat
    BY <1>0, <2>4, FiniteDonors, FS_CardinalityType
  <2>6. OrderedInv'
    BY <2>1, <2>3, <2>4 DEF OrderedInv, OrderInv, DonorsComeFirst, OrderIsLeast
  <2>7. OrderTypeOK'
    BY <1>0, <2>1, <2>5 DEF TypeOK, OrderTypeOK
  <2>8. TypeOK'
    BY <1>0, <2>1, <2>7 DEF TypeOK, TarjanTypeOK, SearchTypeOK, tarjan, search
  <2> QED
    BY <2>2, <2>6, <2>8 DEF AnalysisInv
<1>5. ASSUME NEW C \in components, OrderNext(C) PROVE AnalysisInv'
  <2>1. UNCHANGED <<edges, tarjan>> /\ pc' = pc
    BY <1>5 DEF OrderNext
  <2>2. TarjanInv' /\ FoundInv'
    BY <1>0, <2>1, TarjanStays DEF FoundInv, ComponentsAreClasses, tarjan
  <2> QED
    BY <1>0, <1>5, <2>2, OrderNextType, OrderNextInv DEF AnalysisInv, OrderedInv
<1>6. CASE EndOrder
  <2>1. /\ UNCHANGED <<edges, tarjan>> /\ UNCHANGED search /\ UNCHANGED kahn
        /\ pc = "order" /\ pc' \in {"done", "panic"} /\ components' = components
        /\ edges' = edges
    BY <1>6 DEF EndOrder, tarjan
  <2>2. TarjanInv' /\ FoundInv'
    BY <1>0, <2>1, TarjanStays DEF FoundInv, ComponentsAreClasses
  <2>3. TypeOK'
    BY <1>0, <2>1 DEF TypeOK, TarjanTypeOK, SearchTypeOK, OrderTypeOK, tarjan, search, kahn
  <2>4. \A C : (DonorComponents(C))' = DonorComponents(C)
    BY <2>1 DEF DonorComponents
  <2>5. OrderedInv'
    BY <1>0, <2>1, <2>4 DEF OrderedInv, OrderInv, DonorsComeFirst, OrderIsLeast, kahn
  <2> QED
    BY <2>2, <2>3, <2>5 DEF AnalysisInv
<1>7. CASE UNCHANGED vars
  <2>1. UNCHANGED <<edges, tarjan>> /\ UNCHANGED search /\ UNCHANGED kahn /\ pc' = pc
    BY <1>7 DEF vars, tarjan, search, kahn
  <2>2. components' = components /\ edges' = edges
    BY <2>1 DEF tarjan
  <2>3. TarjanInv' /\ FoundInv'
    BY <1>0, <2>1, <2>2, TarjanStays DEF FoundInv, ComponentsAreClasses
  <2>4. TypeOK'
    BY <1>0, <2>1 DEF TypeOK, TarjanTypeOK, SearchTypeOK, OrderTypeOK, tarjan, search, kahn
  <2>5. \A C : (DonorComponents(C))' = DonorComponents(C)
    BY <2>2 DEF DonorComponents
  <2>6. OrderedInv'
    BY <1>0, <2>1, <2>2, <2>5 DEF OrderedInv, OrderInv, DonorsComeFirst, OrderIsLeast, kahn
  <2> QED
    BY <2>3, <2>4, <2>6 DEF AnalysisInv
<1> QED
  BY <1>1, <1>2, <1>3, <1>4, <1>5, <1>6, <1>7 DEF Next, Sort

\* The invariant of the whole analysis.
THEOREM Analysis == Spec => []AnalysisInv
<1>1. Init => AnalysisInv
  BY InitInv
<1>2. AnalysisInv /\ [Next]_vars => AnalysisInv'
  BY StepInv
<1> QED
  BY <1>1, <1>2, PTL DEF Spec

\* Every variable holds a value the analysis can hold.
THEOREM GraphTyping == Spec => []TypeOK
<1>1. AnalysisInv => TypeOK
  BY DEF AnalysisInv
<1> QED
  BY <1>1, Analysis, PTL

\* Tarjan's invariant: what the stack, the lowlinks and the emitted
\* components mean at every step of the traversal.
THEOREM TarjanSafe == Spec => []TarjanInv
<1>1. AnalysisInv => TarjanInv
  BY DEF AnalysisInv
<1> QED
  BY <1>1, Analysis, PTL

\* For every package and every request lists, the components are exactly the
\* classes of topics that inherit from one another.
THEOREM ClassesFound == Spec => []ComponentsAreClasses
<1>1. AnalysisInv => ComponentsAreClasses
  BY DEF AnalysisInv, FoundInv
<1> QED
  BY <1>1, Analysis, PTL

\* For every package, the resolver finds every donor resolved.
THEOREM DonorsFirst == Spec => []DonorsComeFirst
<1>1. AnalysisInv => DonorsComeFirst
  BY DEF AnalysisInv, OrderedInv
<1> QED
  BY <1>1, Analysis, PTL

\* For every package, the order depends on the graph alone.
THEOREM OrderLeast == Spec => []OrderIsLeast
<1>1. AnalysisInv => OrderIsLeast
  BY DEF AnalysisInv, OrderedInv
<1> QED
  BY <1>1, Analysis, PTL

\* An indegree is the number of donors that are still to be ordered.
THEOREM IndegreesCount == Spec => []OrderInv
<1>1. AnalysisInv => OrderInv
  BY DEF AnalysisInv, OrderedInv
<1> QED
  BY <1>1, Analysis, PTL
=============================================================================
