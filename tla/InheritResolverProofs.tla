----------------------- MODULE InheritResolverProofs -----------------------
(***************************************************************************)
(* Proofs about InheritResolver: for every package, every provider and     *)
(* every policy, both memos serve whoever asks, no request is lost in      *)
(* silence, and each field, section and parameter description comes from   *)
(* the first donor that has it.  Folds over lists are shown step by step   *)
(* over the set of steps that go well (UpToBound, FoldExists).             *)
(***************************************************************************)
EXTENDS InheritResolver, FoldFacts, FiniteSetTheorems, SequenceTheorems, TLAPS

-----------------------------------------------------------------------------
(* Requests *)

\* What Min gives of such a set.
LEMMA MinIsLeast ==
  ASSUME NEW K \in SUBSET Nat, K # {}
  PROVE  Min(K) \in K /\ \A j \in K : Min(K) <= j
  BY LeastExists DEF Min

\* The requests of a topic are a list, and each is one of the forms there are.
LEMMA RequestsAreRequests ==
  ASSUME SceneInv, NEW t \in Topics
  PROVE  \E n \in Nat : DOMAIN pkg[t].requests = 1 .. n
                        /\ \A i \in 1 .. n : IsRequest(pkg[t].requests[i])
<1>1. PICK s \in Scenes : pkg = s[1]
  BY DEF SceneInv
<1>2. pkg[t].requests \in Seq(Range(pkg[t].requests))
      /\ \A i \in DOMAIN pkg[t].requests : IsRequest(pkg[t].requests[i])
  BY <1>1, RequestAssumption
<1> QED
  BY <1>2, LenProperties

\* The positions of requests are naturals.
LEMMA PositionsAreNat ==
  ASSUME SceneInv, NEW t \in Topics, NEW i \in DOMAIN pkg[t].requests
  PROVE  /\ i \in Nat \ {0} /\ DOMAIN pkg[t].requests \subseteq Nat
         /\ 1 .. i \subseteq DOMAIN pkg[t].requests
         /\ IsRequest(pkg[t].requests[i])
  BY RequestsAreRequests

\* What a request leads to, once it is prepared.
LEMMA Targets ==
  ASSUME NEW r, IsRequest(r)
  PROVE  /\ PrepareTarget(r).to \in {"local", "external", "malformed", "suppress", "missing",
                                     "ambiguous"}
         /\ PrepareTarget(r).to = "local" => PrepareTarget(r).donor \in Topics
         /\ PrepareTarget(r).to = "external" => PrepareTarget(r).donor \in Externals
         /\ PrepareTarget(r).to = "suppress" <=> r.to = "suppress"
  BY Zenon DEF PrepareTarget, IsRequest

\* The prepared requests of a topic, after the first stage.
LEMMA NormalizedIs ==
  ASSUME SceneInv, StageInv, pc # "prepare", NEW t \in Topics
  PROVE  /\ DOMAIN normalized[t] =
              {i \in DOMAIN pkg[t].requests : ~IsDuplicate(t, i) /\
                 (Needed(t, i) \/ pkg[t].requests[i].to = "suppress")}
         /\ \A i \in DOMAIN normalized[t] :
              /\ normalized[t][i].request = pkg[t].requests[i]
              /\ normalized[t][i].target = PrepareTarget(pkg[t].requests[i])
              /\ normalized[t][i].effective
                   = pkg[t].requests[i].fields \ Suppressed(pkg[t].requests)
<1>1. normalized[t] = Normalize(t)
  BY DEF StageInv
<1>2. \A i \in DOMAIN pkg[t].requests : IsRequest(pkg[t].requests[i])
  BY RequestsAreRequests
<1>3. \A i \in DOMAIN pkg[t].requests :
        PrepareTarget(pkg[t].requests[i]).to = "suppress" <=> pkg[t].requests[i].to = "suppress"
  BY <1>2, Targets
<1>4. \A i \in DOMAIN pkg[t].requests :
        /\ PrepareRequest(t, i).request = pkg[t].requests[i]
        /\ PrepareRequest(t, i).target = PrepareTarget(pkg[t].requests[i])
        /\ PrepareRequest(t, i).effective
             = pkg[t].requests[i].fields \ Suppressed(pkg[t].requests)
  BY DEF PrepareRequest
<1> DEFINE kept == {i \in DOMAIN pkg[t].requests : ~IsDuplicate(t, i) /\
                       (Needed(t, i) \/ pkg[t].requests[i].to = "suppress")}
<1>5. \A i \in DOMAIN pkg[t].requests :
        PrepareRequest(t, i).effective # {} \/ PrepareRequest(t, i).target.to = "suppress"
        <=> Needed(t, i) \/ pkg[t].requests[i].to = "suppress"
  BY <1>3, <1>4 DEF Needed
<1>6. normalized[t] = [i \in kept |-> PrepareRequest(t, i)]
  BY <1>1, <1>5 DEF Normalize
<1> QED
  BY <1>4, <1>6

\* A request has an earlier one like it, or it is that one, that is kept.
LEMMA FirstAlike ==
  ASSUME SceneInv, NEW t \in Topics, NEW i \in DOMAIN pkg[t].requests,
         pkg[t].requests[i].to # "suppress"
  PROVE  \E j \in DOMAIN pkg[t].requests :
           /\ j <= i /\ ~IsDuplicate(t, j)
           /\ PrepareTarget(pkg[t].requests[j]) = PrepareTarget(pkg[t].requests[i])
           /\ pkg[t].requests[j].fields = pkg[t].requests[i].fields
           /\ pkg[t].requests[j].to # "suppress"
           /\ pkg[t].requests[j].kind = pkg[t].requests[i].kind
           /\ pkg[t].requests[j].title = pkg[t].requests[i].title
           /\ pkg[t].requests[j].filtered = pkg[t].requests[i].filtered
           /\ pkg[t].requests[j].selectors = pkg[t].requests[i].selectors
<1> DEFINE Id(j) == RequestIdentity(PrepareRequest(t, j))
           K == {j \in 1 .. i : Id(j) = Id(i)}
<1>1. i \in Nat \ {0} /\ 1 .. i \subseteq DOMAIN pkg[t].requests
  BY PositionsAreNat
<1>2. K \subseteq Nat /\ i \in K
  BY <1>1
<1> HIDE DEF Id
<1>3. PICK j \in K : \A k \in K : j <= k
  BY <1>2, LeastExists
<1>4. j \in DOMAIN pkg[t].requests /\ j <= i /\ j \in Nat /\ j \in 1 .. i /\ Id(j) = Id(i)
  BY <1>1, <1>3
<1>5. \A k \in 1 .. j - 1 : k \in 1 .. i /\ k < j
  BY <1>1, <1>4
<1>6. \A k \in 1 .. j - 1 : Id(k) # Id(j)
  BY <1>1, <1>3, <1>4, <1>5
<1>7. ~IsDuplicate(t, j)
  BY <1>6 DEF IsDuplicate, Id
<1>8. /\ PrepareTarget(pkg[t].requests[j]) = PrepareTarget(pkg[t].requests[i])
      /\ pkg[t].requests[j].fields = pkg[t].requests[i].fields
      /\ pkg[t].requests[j].kind = pkg[t].requests[i].kind
      /\ pkg[t].requests[j].title = pkg[t].requests[i].title
      /\ pkg[t].requests[j].filtered = pkg[t].requests[i].filtered
      /\ pkg[t].requests[j].selectors = pkg[t].requests[i].selectors
  BY <1>4, SMT DEF Id, RequestIdentity, PrepareRequest
<1>9. pkg[t].requests[j].to # "suppress"
  BY <1>4, <1>8, Targets, PositionsAreNat
<1> QED
  BY <1>4, <1>7, <1>8, <1>9

\* So a request that could give something has one like it among the prepared.
LEMMA KeptAlike ==
  ASSUME SceneInv, StageInv, pc # "prepare", NEW t \in Topics,
         NEW i \in DOMAIN pkg[t].requests, Needed(t, i)
  PROVE  \E j \in DOMAIN normalized[t] :
           /\ j <= i /\ j \in DOMAIN pkg[t].requests
           /\ PrepareTarget(pkg[t].requests[j]) = PrepareTarget(pkg[t].requests[i])
           /\ pkg[t].requests[j].fields = pkg[t].requests[i].fields
           /\ Needed(t, j)
  BY FirstAlike, NormalizedIs DEF Needed

-----------------------------------------------------------------------------
(* The graph *)

\* The graph has been made.
Analysed == SceneInv /\ StageInv /\ pc \in {"cycles", "resolve", "done"}

\* Where a request of the source leads.
Leads(t, i) == PrepareTarget(pkg[t].requests[i])

\* The donors of a topic in the graph are where its local requests lead, those
\* that could give something.
LEMMA DonorsAre ==
  ASSUME Analysed, NEW t \in Topics
  PROVE  /\ DOMAIN edges = Topics /\ DonorsOf(edges, t) \subseteq Topics
         /\ \A d \in DonorsOf(edges, t) : \E i \in DOMAIN normalized[t] :
              Leads(t, i).to = "local" /\ Leads(t, i).donor = d
         /\ \A i \in DOMAIN pkg[t].requests :
              Needed(t, i) /\ Leads(t, i).to = "local"
              => Leads(t, i).donor \in DonorsOf(edges, t)
<1> DEFINE local == {i \in DOMAIN normalized[t] : Leads(t, i).to = "local" /\ Needed(t, i)}
<1>1. \A i \in DOMAIN normalized[t] :
        /\ i \in DOMAIN pkg[t].requests
        /\ normalized[t][i].target = Leads(t, i)
        /\ normalized[t][i].effective # {} /\ Leads(t, i).to = "local" <=> i \in local
        /\ Leads(t, i).to = "local" => Leads(t, i).donor \in Topics
  <2> SUFFICES ASSUME NEW i \in DOMAIN normalized[t]
               PROVE  /\ i \in DOMAIN pkg[t].requests
                      /\ normalized[t][i].target = Leads(t, i)
                      /\ normalized[t][i].effective # {} /\ Leads(t, i).to = "local" <=> i \in local
                      /\ Leads(t, i).to = "local" => Leads(t, i).donor \in Topics
    OBVIOUS
  <2>1. i \in DOMAIN pkg[t].requests /\ normalized[t][i].target = Leads(t, i)
        /\ normalized[t][i].effective
             = pkg[t].requests[i].fields \ Suppressed(pkg[t].requests)
    BY NormalizedIs DEF Analysed, Leads
  <2>2. IsRequest(pkg[t].requests[i])
    BY <2>1, PositionsAreNat DEF Analysed
  <2>3. /\ Leads(t, i).to = "local" => Leads(t, i).donor \in Topics
        /\ Leads(t, i).to = "suppress" <=> pkg[t].requests[i].to = "suppress"
    BY <2>2, Targets DEF Leads
  <2> QED
    BY <2>1, <2>3 DEF Needed
<1>2. edges[t] = [i \in local |-> Leads(t, i).donor] /\ DOMAIN edges = Topics
  <2>1. edges = [u \in Topics |-> LocalDonors(u)]
    BY DEF Analysed, StageInv
  <2>2. LocalDonors(t) = [i \in local |-> Leads(t, i).donor]
    BY <1>1 DEF LocalDonors
  <2> QED
    BY <2>1, <2>2
<1>3. DonorsOf(edges, t) = {Leads(t, i).donor : i \in local}
  BY <1>2 DEF DonorsOf
<1>4. ASSUME NEW i \in DOMAIN pkg[t].requests, Needed(t, i), Leads(t, i).to = "local"
      PROVE  Leads(t, i).donor \in DonorsOf(edges, t)
  <2>1. PICK j \in DOMAIN normalized[t] : Leads(t, j) = Leads(t, i) /\ Needed(t, j)
    BY <1>4, KeptAlike DEF Analysed, Leads
  <2> QED
    BY <1>3, <1>4, <2>1
<1> QED
  BY <1>1, <1>2, <1>3, <1>4

\* A topic is in its class and in no other.
LEMMA ClassFacts ==
  ASSUME NEW e, DOMAIN e = Topics
  PROVE  /\ \A t \in Topics : t \in Class(e, t) /\ Class(e, t) \in Classes(e)
         /\ \A C \in Classes(e) : C \subseteq Topics /\ C # {}
              /\ \A t \in C : Class(e, t) = C
<1>1. \A t : Reaches(e, t, t)
  BY DEF Reaches
<1>2. \A a, b, c : Reaches(e, a, b) /\ Reaches(e, b, c) => Reaches(e, a, c)
  BY DEF Reaches
<1>3. \A t \in Topics : t \in Class(e, t) /\ Class(e, t) \in Classes(e)
  BY <1>1 DEF Class, Classes
<1>4. ASSUME NEW C \in Classes(e), NEW t \in C PROVE Class(e, t) = C
  <2>1. PICK n \in Topics : C = Class(e, n)
    BY DEF Classes
  <2>2. Reaches(e, n, t) /\ Reaches(e, t, n)
    BY <2>1 DEF Class
  <2> QED
    BY <1>2, <2>1, <2>2 DEF Class
<1>5. \A C \in Classes(e) : C \subseteq Topics /\ C # {}
  BY <1>3 DEF Classes, Class
<1> QED
  BY <1>3, <1>4, <1>5

\* In a cyclic component some topic has a donor of the component.
LEMMA CycleEdge ==
  ASSUME Analysed, NEW C \in Classes(edges), IsCyclic(edges, C)
  PROVE  \E m \in C : DonorsOf(edges, m) \cap C # {}
<1>0. /\ DOMAIN edges = Topics
      /\ C \subseteq Topics /\ \A t \in C : Class(edges, t) = C
      /\ \A t \in Topics : DonorsOf(edges, t) \subseteq Topics
  <2>1. \A t \in Topics : DOMAIN edges = Topics /\ DonorsOf(edges, t) \subseteq Topics
    BY DonorsAre
  <2>2. DOMAIN edges = Topics
    BY DEF Analysed, StageInv
  <2> QED
    BY <2>1, <2>2, ClassFacts
<1>1. CASE \E n \in C : n \in DonorsOf(edges, n)
  BY <1>1
<1>2. CASE \E m, n \in C : m # n
  <2>1. PICK m \in C, n \in C : m # n
    BY <1>2
  <2>2. SUFFICES ASSUME DonorsOf(edges, m) \cap C = {} PROVE FALSE
    BY <2>2
  <2> DEFINE S == {x \in Topics : Reaches(edges, m, x) /\ (x = m \/ x \notin C)}
  <2>3. \A x \in Topics : \A d \in DonorsOf(edges, x) : Reaches(edges, x, d)
    BY Zenon DEF Reaches, Closed
  <2>4. \A a, b, c : Reaches(edges, a, b) /\ Reaches(edges, b, c) => Reaches(edges, a, c)
    BY DEF Reaches
  <2>5. Reaches(edges, m, m) /\ m \in Topics
    BY <1>0 DEF Reaches
  <2>6. ASSUME NEW x \in S, NEW d \in DonorsOf(edges, x) PROVE d \in S
    <3>1. Reaches(edges, m, x) /\ Reaches(edges, x, d) /\ Reaches(edges, m, d) /\ d \in Topics
      BY <1>0, <2>3, <2>4
    <3>2. CASE x = m
      BY <2>2, <3>1, <3>2
    <3>3. CASE x \notin C
      <4>1. ASSUME d \in C PROVE FALSE
        <5>1. Reaches(edges, d, m)
          BY <1>0, <4>1 DEF Class
        <5>2. Reaches(edges, x, m)
          BY <2>4, <3>1, <5>1
        <5>3. x \in Class(edges, m)
          BY <1>0, <3>1, <5>2 DEF Class
        <5> QED
          BY <1>0, <3>3, <5>3
      <4> QED
        BY <3>1, <4>1
    <3> QED
      BY <3>2, <3>3
  <2>7. Closed(edges, S) /\ S \in SUBSET DOMAIN edges /\ m \in S
    BY <1>0, <2>5, <2>6 DEF Closed
  <2>8. Reaches(edges, m, n)
    BY <1>0 DEF Class
  <2>9. n \in S
    BY <2>7, <2>8 DEF Reaches
  <2> QED
    BY <2>1, <2>9
<1> QED
  BY <1>1, <1>2 DEF IsCyclic

\* A cyclic component has one first request between its members.
LEMMA OneFirstRequest ==
  ASSUME Analysed, NEW C \in Classes(edges), IsCyclic(edges, C)
  PROVE  \E t \in C : \E i \in DOMAIN normalized[t] :
           /\ FirstCycleRequest(C) = {<<t, i>>}
           /\ Leads(t, i).to = "local" /\ Leads(t, i).donor \in C
<1> DEFINE Q == CycleRequests(C)
<1>0. C \subseteq Topics /\ \A t \in C : t \in Nat
  BY ClassFacts, NumberAssumption DEF Analysed, StageInv, Topics
<1>1. ASSUME NEW t \in C, NEW i \in DOMAIN normalized[t]
      PROVE  i \in Nat /\ normalized[t][i].target = Leads(t, i)
  <2>1. i \in DOMAIN pkg[t].requests /\ normalized[t][i].target = Leads(t, i)
    BY <1>0, NormalizedIs DEF Analysed, Leads
  <2> QED
    BY <1>0, <2>1, PositionsAreNat DEF Analysed
<1>2. Q = {r \in UNION {{t} \X DOMAIN normalized[t] : t \in C} :
             Leads(r[1], r[2]).to = "local" /\ Leads(r[1], r[2]).donor \in C}
  BY <1>1 DEF CycleRequests
<1>3. ASSUME NEW r \in Q
      PROVE  /\ r = <<r[1], r[2]>> /\ r[1] \in C /\ r[2] \in DOMAIN normalized[r[1]]
             /\ Leads(r[1], r[2]).to = "local" /\ Leads(r[1], r[2]).donor \in C
             /\ r[1] \in Nat /\ r[2] \in Nat
  BY <1>0, <1>1, <1>2
<1>4. \A t \in C : \A i \in DOMAIN normalized[t] :
        Leads(t, i).to = "local" /\ Leads(t, i).donor \in C => <<t, i>> \in Q
  BY <1>2
<1>5. Q # {}
  <2>1. PICK m \in C, d \in C : d \in DonorsOf(edges, m)
    BY CycleEdge
  <2>2. PICK i \in DOMAIN normalized[m] : Leads(m, i).to = "local" /\ Leads(m, i).donor = d
    BY <1>0, <2>1, DonorsAre
  <2> QED
    BY <1>4, <2>1, <2>2
<1> HIDE DEF Q
<1> DEFINE T == {r[1] : r \in Q}
<1>6. T \subseteq Nat /\ T # {}
  BY <1>3, <1>5
<1>7. PICK t \in T : \A u \in T : t <= u
  BY <1>6, LeastExists
<1> DEFINE P == {i \in Nat : <<t, i>> \in Q}
<1>8. P \subseteq Nat /\ P # {}
  BY <1>3, <1>7
<1>9. PICK i \in P : \A j \in P : i <= j
  BY <1>8, LeastExists
<1>10. <<t, i>> \in Q /\ t \in Nat /\ i \in Nat
  BY <1>6, <1>7, <1>9
<1>11. \A q \in Q : q[1] \in Nat /\ q[2] \in Nat /\ (t < q[1] \/ (t = q[1] /\ i <= q[2]))
  <2> TAKE q \in Q
  <2>1. q = <<q[1], q[2]>> /\ q[1] \in T /\ q[1] \in Nat /\ q[2] \in Nat /\ t <= q[1]
    BY <1>3, <1>7
  <2>2. t = q[1] => q[2] \in P /\ i <= q[2]
    BY <1>9, <2>1
  <2> QED
    BY <1>10, <2>1, <2>2
<1>12. FirstCycleRequest(C) = {r \in Q : \A q \in Q : r[1] < q[1] \/ (r[1] = q[1] /\ r[2] <= q[2])}
  BY DEF FirstCycleRequest, Q
<1>13. <<t, i>> \in FirstCycleRequest(C)
  BY <1>10, <1>11, <1>12
<1>14. \A r \in FirstCycleRequest(C) : r = <<t, i>>
  <2> TAKE r \in FirstCycleRequest(C)
  <2>1. r \in Q /\ (r[1] < t \/ (r[1] = t /\ r[2] <= i))
    BY <1>10, <1>12
  <2>2. r = <<r[1], r[2]>> /\ r[1] \in Nat /\ r[2] \in Nat /\ (t < r[1] \/ (t = r[1] /\ i <= r[2]))
    BY <1>3, <1>11, <2>1
  <2>3. r[1] = t /\ r[2] = i
    BY <1>10, <2>1, <2>2
  <2> QED
    BY <2>2, <2>3
<1>15. FirstCycleRequest(C) = {<<t, i>>}
  BY <1>13, <1>14
<1>16. t \in C /\ i \in DOMAIN normalized[t] /\ Leads(t, i).to = "local" /\ Leads(t, i).donor \in C
  BY <1>3, <1>10
<1> QED
  BY <1>15, <1>16

-----------------------------------------------------------------------------
(* What does not change *)

\* Nothing that is said of the package alone changes while it stays.
LEMMA PackageStays ==
  ASSUME UNCHANGED pkg
  PROVE  /\ \A r : PrepareTarget(r)' = PrepareTarget(r)
         /\ \A t, i : Leads(t, i)' = Leads(t, i) /\ IsDuplicate(t, i)' = IsDuplicate(t, i)
                      /\ Needed(t, i)' = Needed(t, i)
         /\ \A t : Normalize(t)' = Normalize(t)
<1>1. \A n : LocalKeys(n)' = LocalKeys(n)
  BY DEF LocalKeys
<1>2. \A r : PrepareTarget(r)' = PrepareTarget(r)
  BY <1>1, Zenon DEF PrepareTarget
<1>3. \A t, i : PrepareRequest(t, i)' = PrepareRequest(t, i)
  BY <1>2 DEF PrepareRequest
<1>4. \A t, i : IsDuplicate(t, i)' = IsDuplicate(t, i)
  BY <1>3 DEF IsDuplicate
<1>5. \A t, i : Leads(t, i)' = Leads(t, i) /\ Needed(t, i)' = Needed(t, i)
  BY <1>2 DEF Leads, Needed
<1> QED
  BY <1>2, <1>3, <1>4, <1>5, Zenon DEF Normalize

\* Nor of the graph.
LEMMA GraphStays ==
  ASSUME UNCHANGED edges
  PROVE  /\ Classes(edges)' = Classes(edges)
         /\ \A t : OnCycle(t)' = OnCycle(t) /\ Class(edges, t)' = Class(edges, t)
                   /\ DonorsOf(edges, t)' = DonorsOf(edges, t)
  BY DEF OnCycle

\* The requests between members stay.
LEMMA RequestsStay ==
  ASSUME UNCHANGED normalized
  PROVE  \A C : FirstCycleRequest(C)' = FirstCycleRequest(C)
<1>1. \A C : CycleRequests(C)' = CycleRequests(C)
  BY DEF CycleRequests
<1> QED
  BY <1>1 DEF FirstCycleRequest

-----------------------------------------------------------------------------
(* The stages, and the provider *)

\* The request that is looked up next.
LEMMA NextRequest ==
  ASSUME SceneInv, StageInv, NEW i, Fetching(i)
  PROVE  /\ current \in Topics /\ current # Nobody /\ pc = "resolve" /\ Analysed
         /\ i \in DOMAIN normalized[current] /\ i \notin DOMAIN donors
         /\ i \in DOMAIN pkg[current].requests /\ ~IsDuplicate(current, i)
         /\ Needed(current, i) \/ pkg[current].requests[i].to = "suppress"
         /\ Target(i) = Leads(current, i)
         /\ Target(i).to = "local" => Target(i).donor \in Topics
         /\ Target(i).to = "external" => Target(i).donor \in Externals
         /\ Target(i).to = "suppress" <=> pkg[current].requests[i].to = "suppress"
         /\ Target(i).to \in {"local", "external", "malformed", "suppress", "missing", "ambiguous"}
<1>1. current \in Topics /\ current # Nobody /\ pc = "resolve"
  BY DEF Fetching, StageInv
<1>2. i \in DOMAIN normalized[current] /\ i \notin DOMAIN donors
  BY DEF Fetching
<1>3. /\ i \in DOMAIN pkg[current].requests /\ ~IsDuplicate(current, i)
      /\ Needed(current, i) \/ pkg[current].requests[i].to = "suppress"
      /\ normalized[current][i].target = PrepareTarget(pkg[current].requests[i])
  BY <1>1, <1>2, NormalizedIs
<1>4. IsRequest(pkg[current].requests[i])
  BY <1>1, <1>3, PositionsAreNat
<1>5. Target(i) = PrepareTarget(pkg[current].requests[i])
  BY <1>3 DEF Target
<1> QED
  BY <1>1, <1>2, <1>3, <1>4, <1>5, Targets DEF Leads, Analysed

\* What every lookup leaves alone.
LEMMA FetchLeaves ==
  ASSUME SceneInv, StageInv, Fetch
  PROVE  /\ UNCHANGED <<pc, pkg, policy, normalized, edges, waiting, memo, current>>
         /\ current # Nobody /\ current \in Topics /\ pc = "resolve" /\ Analysed
  BY Zenon DEF Fetch, FetchNothing, FetchLocal, FetchRemembered, AskProvider, StageInv, Analysed

\* No step changes the package or the policy.
LEMMA PackageKept == SceneInv /\ StageInv /\ [Next]_vars => UNCHANGED <<pkg, policy>>
<1> SUFFICES ASSUME SceneInv, StageInv, [Next]_vars PROVE UNCHANGED <<pkg, policy>>
  OBVIOUS
<1>1. CASE Fetch
  BY <1>1, FetchLeaves
<1>2. CASE Prepare \/ Analyse \/ EndCycles \/ Return
  BY <1>2 DEF Prepare, Analyse, EndCycles, Return
<1>3. CASE \E C \in waiting : RecoverCycle(C) \/ PassCycle(C)
  BY <1>3 DEF RecoverCycle, PassCycle
<1>4. CASE \E t \in Topics : StartTopic(t) \/ ResolveTopic(t)
  BY <1>4 DEF StartTopic, ResolveTopic
<1>5. CASE UNCHANGED vars
  BY <1>5 DEF vars
<1> QED
  BY <1>1, <1>2, <1>3, <1>4, <1>5 DEF Next

\* So the package stays one of those to resolve.
LEMMA SceneStays == SceneInv /\ StageInv /\ [Next]_vars => SceneInv'
  BY PackageKept DEF SceneInv

\* Each stage leaves the next one what it finds.
LEMMA StageStays == SceneInv /\ StageInv /\ [Next]_vars => StageInv'
<1> SUFFICES ASSUME SceneInv, StageInv, [Next]_vars PROVE StageInv'
  OBVIOUS
<1>0. UNCHANGED pkg /\ \A t : Normalize(t)' = Normalize(t)
  BY PackageKept, PackageStays
<1>1. UNCHANGED normalized => \A t : LocalDonors(t)' = LocalDonors(t)
  BY DEF LocalDonors
<1>2. CASE Prepare
  BY <1>0, <1>2 DEF Prepare, StageInv
<1>3. CASE Analyse
  <2>1. UNCHANGED normalized
    BY <1>3 DEF Analyse
  <2>2. edges' = [t \in Topics |-> LocalDonors(t)'] /\ pc = "graph" /\ pc' = "cycles"
    BY <1>1, <1>3, <2>1 DEF Analyse
  <2> QED
    BY <1>0, <1>3, <2>1, <2>2 DEF Analyse, StageInv
<1>4. CASE EndCycles \/ Return
  BY <1>0, <1>1, <1>4 DEF EndCycles, Return, StageInv
<1>5. CASE Fetch
  BY <1>0, <1>1, <1>5, FetchLeaves DEF StageInv
<1>6. CASE \E C \in waiting : RecoverCycle(C) \/ PassCycle(C)
  BY <1>0, <1>1, <1>6 DEF RecoverCycle, PassCycle, StageInv
<1>7. CASE \E t \in Topics : StartTopic(t)
  BY <1>0, <1>1, <1>7 DEF StartTopic, StageInv
<1>8. CASE \E t \in Topics : ResolveTopic(t)
  <2>1. PICK t \in Topics : ResolveTopic(t)
    BY <1>8
  <2>2. t # Nobody
    BY NumberAssumption DEF Topics, Nobody
  <2>3. current # Nobody /\ pc = "resolve" /\ current' = Nobody
        /\ UNCHANGED <<pc, pkg, normalized, edges, waiting>>
    BY <2>1, <2>2 DEF ResolveTopic, StageInv
  <2> QED
    BY <1>0, <1>1, <2>3 DEF StageInv
<1>9. CASE UNCHANGED vars
  BY <1>0, <1>1, <1>9 DEF vars, StageInv
<1> QED
  BY <1>2, <1>3, <1>4, <1>5, <1>6, <1>7, <1>8, <1>9 DEF Next

\* The provider is asked a name when nothing is remembered of it.
LEMMA ExternalStays == SceneInv /\ StageInv /\ ExternalInv /\ [Next]_vars => ExternalInv'
<1> SUFFICES ASSUME SceneInv, StageInv, ExternalInv, [Next]_vars PROVE ExternalInv'
  OBVIOUS
<1>1. CASE UNCHANGED <<policy, externalMemo, asked>>
  BY <1>1 DEF ExternalInv
<1>2. CASE Fetch
  <2>1. PICK i \in DOMAIN normalized[current] :
          FetchNothing(i) \/ FetchLocal(i) \/ FetchRemembered(i) \/ AskProvider(i)
    BY <1>2 DEF Fetch
  <2>2. CASE AskProvider(i)
    <3>1. Target(i).donor \in Externals /\ policy # "Off"
      BY <2>2, NextRequest DEF AskProvider
    <3>2. /\ Target(i).donor \notin DOMAIN externalMemo
          /\ DOMAIN externalMemo' = DOMAIN externalMemo \cup {Target(i).donor}
          /\ asked' = [asked EXCEPT ![Target(i).donor] = @ + 1] /\ UNCHANGED policy
      BY <2>2 DEF AskProvider
    <3> QED
      BY <3>1, <3>2 DEF ExternalInv
  <2>3. CASE FetchNothing(i) \/ FetchLocal(i) \/ FetchRemembered(i)
    BY <1>1, <2>3 DEF FetchNothing, FetchLocal, FetchRemembered
  <2> QED
    BY <2>1, <2>2, <2>3
<1>3. CASE Prepare \/ Analyse \/ EndCycles \/ Return
  BY <1>1, <1>3 DEF Prepare, Analyse, EndCycles, Return
<1>4. CASE \E C \in waiting : RecoverCycle(C) \/ PassCycle(C)
  BY <1>1, <1>4 DEF RecoverCycle, PassCycle
<1>5. CASE \E t \in Topics : StartTopic(t) \/ ResolveTopic(t)
  BY <1>1, <1>5 DEF StartTopic, ResolveTopic
<1>6. CASE UNCHANGED vars
  BY <1>1, <1>6 DEF vars
<1> QED
  BY <1>2, <1>3, <1>4, <1>5, <1>6 DEF Next

-----------------------------------------------------------------------------
(* The order *)

\* When the graph is there, every topic is in its class and in no other.
LEMMA Parts ==
  ASSUME Analysed
  PROVE  /\ DOMAIN edges = Topics
         /\ \A t \in Topics : t \in Class(edges, t) /\ Class(edges, t) \in Classes(edges)
                              /\ DonorsOf(edges, t) \subseteq Topics
         /\ \A C \in Classes(edges) : C \subseteq Topics /\ C # {}
              /\ \A t \in C : Class(edges, t) = C
<1>1. DOMAIN edges = Topics
  BY DEF Analysed, StageInv
<1> QED
  BY <1>1, ClassFacts, DonorsAre

\* A topic that is started has its donors resolved.
LEMMA StartedHasDonors ==
  ASSUME Analysed, OrderInv, NEW t \in Topics, StartTopic(t)
  PROVE  /\ Class(edges, t) = {t} /\ {t} \in waiting /\ ~OnCycle(t) /\ current = Nobody
         /\ DonorsOf(edges, t) \subseteq DOMAIN memo
<1>1. /\ pc = "resolve" /\ current = Nobody /\ ~IsCyclic(edges, {t})
      /\ {t} \in waiting /\ DonorParts(edges, waiting, {t}) = {}
  BY DEF StartTopic, IsFirst, Ready
<1>2. Class(edges, t) = {t} /\ waiting \subseteq Classes(edges)
  BY <1>1, Parts DEF OrderInv
<1>3. ASSUME NEW d \in DonorsOf(edges, t) PROVE d \in DOMAIN memo
  <2>1. d \in Topics /\ d \in Class(edges, d) /\ d # Nobody
    BY Parts, NumberAssumption DEF Topics, Nobody
  <2>2. d # t
    BY <1>1, <1>3 DEF IsCyclic
  <2>3. Class(edges, d) \notin waiting
    BY <1>1, <1>3, <2>1, <2>2 DEF DonorParts
  <2> QED
    BY <1>1, <2>1, <2>3 DEF OrderInv
<1> QED
  BY <1>1, <1>2, <1>3 DEF OnCycle

\* Every step keeps donors before recipients.
LEMMA OrderStays == SceneInv /\ StageInv /\ OrderInv /\ [Next]_vars => OrderInv'
<1> SUFFICES ASSUME SceneInv, StageInv, OrderInv, [Next]_vars PROVE OrderInv'
  OBVIOUS
<1>0. \A t \in Topics : t # Nobody
  BY NumberAssumption DEF Topics, Nobody
<1>1. CASE Prepare
  BY <1>1 DEF Prepare, OrderInv
<1>2. CASE Analyse
  <2>1. pc' = "cycles" /\ memo' = <<>> /\ current' = Nobody
    BY <1>2 DEF Analyse, StageInv
  <2>2. waiting' = {C \in Classes(edges') : IsCyclic(edges', C)} /\ DOMAIN edges' = Topics
    BY <1>2 DEF Analyse
  <2>3. \A t \in Topics : Class(edges', t) \in Classes(edges')
    BY <2>2, ClassFacts
  <2>4. DOMAIN memo' = {}
    BY <2>1
  <2> QED
    BY <2>1, <2>2, <2>3, <2>4 DEF OrderInv, OnCycle
<1>3. CASE EndCycles
  <2>1. pc = "cycles" /\ pc' = "resolve" /\ waiting = {} /\ waiting' = Classes(edges)
        /\ UNCHANGED <<edges, memo, current>> /\ Analysed /\ current = Nobody
    BY <1>3 DEF EndCycles, Analysed, StageInv
  <2> QED
    BY <2>1, Parts, GraphStays DEF OrderInv
<1>4. CASE \E C \in waiting : RecoverCycle(C)
  <2>1. PICK C \in waiting : RecoverCycle(C)
    BY <1>4
  <2>2. pc = "cycles" /\ pc' = "cycles" /\ waiting' = waiting \ {C}
        /\ UNCHANGED <<edges, current>> /\ Analysed /\ current = Nobody
    BY <2>1 DEF RecoverCycle, Analysed, StageInv
  <2>3. DOMAIN memo' = DOMAIN memo \cup C
    BY <2>1 DEF RecoverCycle
  <2>4. C \in Classes(edges) /\ IsCyclic(edges, C) /\ \A t \in Topics : t \in C <=> Class(edges, t) = C
    BY <2>1, <2>2, Parts DEF OrderInv
  <2>5. \A t \in C : t \in Topics /\ OnCycle(t)
    BY <2>2, <2>4, Parts DEF OnCycle
  <2> QED
    BY <2>2, <2>3, <2>4, <2>5, GraphStays DEF OrderInv
<1>5. CASE \E C \in waiting : PassCycle(C)
  <2>1. PICK C \in waiting : PassCycle(C)
    BY <1>5
  <2>2. pc = "resolve" /\ pc' = "resolve" /\ waiting' = waiting \ {C} /\ IsCyclic(edges, C)
        /\ UNCHANGED <<edges, current, memo>> /\ Analysed /\ current = Nobody
    BY <2>1 DEF PassCycle, Analysed
  <2>3. \A t \in Topics : Class(edges, t) = C => OnCycle(t)
    BY <2>2 DEF OnCycle
  <2> QED
    BY <2>2, <2>3, GraphStays DEF OrderInv
<1>6. CASE \E t \in Topics : StartTopic(t)
  <2>1. PICK t \in Topics : StartTopic(t)
    BY <1>6
  <2>2. pc = "resolve" /\ pc' = "resolve" /\ waiting' = waiting \ {{t}} /\ current' = t
        /\ UNCHANGED <<edges, memo>> /\ Analysed
    BY <2>1 DEF StartTopic, Analysed
  <2>3. /\ Class(edges, t) = {t} /\ {t} \in waiting /\ ~OnCycle(t) /\ current = Nobody
        /\ DonorsOf(edges, t) \subseteq DOMAIN memo
    BY <2>1, <2>2, StartedHasDonors
  <2>4. \A u \in Topics : Class(edges, u) = {t} => u = t
    BY <2>2, Parts
  <2> QED
    BY <1>0, <2>2, <2>3, <2>4, GraphStays DEF OrderInv
<1>7. CASE \E t \in Topics : ResolveTopic(t)
  <2>1. PICK t \in Topics : ResolveTopic(t)
    BY <1>7
  <2>2. current = t /\ current' = Nobody /\ UNCHANGED <<pc, edges, waiting>> /\ t # Nobody
    BY <1>0, <2>1 DEF ResolveTopic
  <2>3. DOMAIN memo' = DOMAIN memo \cup {t}
    BY <2>1 DEF ResolveTopic
  <2>4. pc = "resolve"
    BY <2>2 DEF StageInv
  <2> QED
    BY <1>0, <2>2, <2>3, <2>4, GraphStays DEF OrderInv
<1>8. CASE UNCHANGED <<edges, waiting, memo, current>> /\ (UNCHANGED pc \/ Return)
  BY <1>8, GraphStays DEF OrderInv, Return
<1>9. CASE Fetch
  BY <1>8, <1>9, FetchLeaves
<1>10. CASE Return
  BY <1>8, <1>10 DEF Return
<1>11. CASE UNCHANGED vars
  BY <1>8, <1>11 DEF vars
<1> QED
  BY <1>1, <1>2, <1>3, <1>4, <1>5, <1>6, <1>7, <1>9, <1>10, <1>11 DEF Next

-----------------------------------------------------------------------------
(* Lookups *)

\* What a request leads to, said with its target.
LEMMA DonorOfIs ==
  /\ \A t, i : DonorOf(t, i) =
       IF Leads(t, i).to = "local" THEN Leads(t, i).donor
       ELSE IF /\ Leads(t, i).to = "external" /\ Leads(t, i).donor \in DOMAIN externalMemo
               /\ externalMemo[Leads(t, i).donor] = "found"
       THEN NumTopics + Canonical[Leads(t, i).donor] ELSE Nobody
  /\ \A t, i : Answered(t, i) <=> (Leads(t, i).to = "external" /\ policy # "Off"
                                     => Leads(t, i).donor \in DOMAIN externalMemo)
  BY Zenon DEF DonorOf, Answered, Leads

\* The same of the next state.
LEMMA DonorOfIsNext ==
  ASSUME UNCHANGED <<pkg, policy>>
  PROVE
  /\ \A t, i : DonorOf(t, i)' =
       IF Leads(t, i).to = "local" THEN Leads(t, i).donor
       ELSE IF /\ Leads(t, i).to = "external" /\ Leads(t, i).donor \in DOMAIN externalMemo'
               /\ externalMemo'[Leads(t, i).donor] = "found"
       THEN NumTopics + Canonical[Leads(t, i).donor] ELSE Nobody
  /\ \A t, i : Answered(t, i)' <=> (Leads(t, i).to = "external" /\ policy # "Off"
                                     => Leads(t, i).donor \in DOMAIN externalMemo')
<1>1. \A t, i : Leads(t, i)' = Leads(t, i)
  BY PackageStays
<1>2. \A t, i : DonorOf(t, i)' =
       IF Leads(t, i)'.to = "local" THEN Leads(t, i)'.donor
       ELSE IF /\ Leads(t, i)'.to = "external" /\ Leads(t, i)'.donor \in DOMAIN externalMemo'
               /\ externalMemo'[Leads(t, i)'.donor] = "found"
       THEN NumTopics + Canonical[Leads(t, i)'.donor] ELSE Nobody
  BY Zenon DEF DonorOf, Leads
<1>3. \A t, i : Answered(t, i)' <=> (Leads(t, i)'.to = "external" /\ policy' # "Off"
                                     => Leads(t, i)'.donor \in DOMAIN externalMemo')
  BY Zenon DEF Answered, Leads
<1> QED
  BY <1>1, <1>2, <1>3

\* A help topic is not the absence of one, nor a topic of the package.
LEMMA HelpTopicsAreOthers ==
  ASSUME NEW e \in Externals
  PROVE  NumTopics + Canonical[e] # Nobody /\ NumTopics + Canonical[e] \notin Topics
<1>1. Canonical[e] \in 1 .. NumExternals /\ NumTopics \in Nat
  BY NumberAssumption, CanonicalAssumption DEF Externals
<1> QED
  BY <1>1, NumberAssumption DEF Nobody, Topics

\* While the memory of the provider's answers stays, so does where each
\* request leads.
LEMMA AnswersStay ==
  ASSUME UNCHANGED <<pkg, policy, externalMemo>>
  PROVE  \A t, i : DonorOf(t, i)' = DonorOf(t, i) /\ Answered(t, i)' = Answered(t, i)
                   /\ Fault(t, i)' = Fault(t, i)
<1>1. \A r : PrepareTarget(r)' = PrepareTarget(r)
  BY PackageStays
<1> QED
  BY <1>1, ZenonT(30) DEF DonorOf, Answered, Fault

\* What a lookup leaves: the donor for good, and a report when there is none.
Looked(i) ==
  /\ donors' = [k \in DOMAIN donors \cup {i} |-> IF k = i THEN DonorOf(current, i)' ELSE donors[k]]
  /\ Answered(current, i)'
  /\ diagnostics' = diagnostics \cup
       IF DonorOf(current, i)' = Nobody /\ pkg[current].requests[i].to # "suppress"
       THEN {Report(Fault(current, i), current, i)} ELSE {}
  /\ \A t, j : Answered(t, j) => Answered(t, j)' /\ DonorOf(t, j)' = DonorOf(t, j)

\* A lookup finds where the request leads, or reports why it leads nowhere;
\* what has been answered is not answered differently by it.
LEMMA LookupFinds ==
  ASSUME SceneInv, StageInv, OrderInv, ExternalInv, NEW i \in DOMAIN normalized[current],
         FetchNothing(i) \/ FetchLocal(i) \/ FetchRemembered(i) \/ AskProvider(i)
  PROVE  Looked(i)
<1> DEFINE t == current
           L == Leads(t, i)
           Z == IF DonorOf(t, i)' = Nobody /\ pkg[t].requests[i].to # "suppress"
                THEN {Report(Fault(t, i), t, i)} ELSE {}
<1>0. UNCHANGED <<pkg, policy, current>> /\ Fetching(i)
  BY DEF FetchNothing, FetchLocal, FetchRemembered, AskProvider
<1>1. /\ t \in Topics /\ Analysed /\ i \in DOMAIN pkg[t].requests
      /\ Needed(t, i) \/ pkg[t].requests[i].to = "suppress"
      /\ Target(i) = L
      /\ L.to = "local" => L.donor \in Topics
      /\ L.to = "external" => L.donor \in Externals
      /\ L.to = "suppress" <=> pkg[t].requests[i].to = "suppress"
      /\ current # Nobody
  BY <1>0, NextRequest
<1>5. Fault(t, i) = IF L.to # "external" THEN "Invalid"
                    ELSE IF policy = "Off" THEN "Disabled" ELSE "External"
  BY DEF Fault, Leads
<1>6. \A n \in Topics : n # Nobody
  BY NumberAssumption DEF Topics, Nobody
<1>7. policy = "Off" => DOMAIN externalMemo = {}
  BY DEF ExternalInv
<1>8. ASSUME UNCHANGED externalMemo
      PROVE  /\ \A u, j : Answered(u, j)' = Answered(u, j) /\ DonorOf(u, j)' = DonorOf(u, j)
  BY <1>0, <1>8, AnswersStay
<1>9. CASE FetchNothing(i)
  <2>1. UNCHANGED externalMemo /\ Record(i, Nobody)
        /\ \/ L.to = "suppress" /\ UNCHANGED diagnostics
           \/ L.to \in {"malformed", "missing", "ambiguous"}
              /\ diagnostics' = diagnostics \cup {Report("Invalid", t, i)}
           \/ L.to = "external" /\ policy = "Off"
              /\ diagnostics' = diagnostics \cup {Report("Disabled", t, i)}
    BY <1>1, <1>9 DEF FetchNothing, Found, NotFound
  <2>2. DonorOf(t, i)' = Nobody /\ Answered(t, i)'
    BY <1>0, <1>7, <2>1, DonorOfIsNext
  <2>3. diagnostics' = diagnostics \cup Z
    BY <1>1, <1>5, <2>1, <2>2
  <2> QED
    BY <1>8, <2>1, <2>2, <2>3 DEF Looked, Record
<1>10. CASE FetchLocal(i)
  <2>1. L.to = "local" /\ L.donor \in Topics /\ UNCHANGED externalMemo
    BY <1>1, <1>10 DEF FetchLocal
  <2>2. L.donor \in DonorsOf(edges, t)
    BY <1>1, <2>1, DonorsAre
  <2>3. L.donor \in DOMAIN memo
    BY <1>1, <2>2 DEF OrderInv, Analysed
  <2>4. Record(i, L.donor) /\ UNCHANGED diagnostics
    BY <1>1, <1>10, <2>3 DEF FetchLocal, Found
  <2>5. DonorOf(t, i)' = L.donor /\ Answered(t, i)' /\ L.donor # Nobody
    BY <1>0, <1>6, <2>1, DonorOfIsNext
  <2>6. diagnostics' = diagnostics \cup Z
    BY <2>4, <2>5
  <2> QED
    BY <1>8, <2>1, <2>4, <2>5, <2>6 DEF Looked, Record
<1>11. CASE FetchRemembered(i) \/ AskProvider(i)
  <2>1. /\ L.to = "external" /\ policy # "Off" /\ L.donor \in Externals
        /\ L.donor \in DOMAIN externalMemo' /\ Answer(L.donor, externalMemo'[L.donor], i)
        /\ \A e \in DOMAIN externalMemo :
             e \in DOMAIN externalMemo' /\ externalMemo'[e] = externalMemo[e]
    <3>1. CASE FetchRemembered(i)
      BY <1>1, <3>1 DEF FetchRemembered
    <3>2. CASE AskProvider(i)
      <4>1. PICK answer \in {"found", "none", "failure"} :
              /\ Answer(L.donor, answer, i) /\ L.donor \notin DOMAIN externalMemo
              /\ externalMemo' = [n \in DOMAIN externalMemo \cup {L.donor} |->
                                    IF n = L.donor THEN answer ELSE externalMemo[n]]
        BY <1>1, <3>2 DEF AskProvider
      <4>2. L.to = "external" /\ policy # "Off" /\ L.donor \in Externals
        BY <1>1, <3>2 DEF AskProvider
      <4>3. externalMemo'[L.donor] = answer
        BY <4>1
      <4> QED
        BY <4>1, <4>2, <4>3
    <3> QED
      BY <1>11, <3>1, <3>2
  <2>2. \A u, j : Answered(u, j) => Answered(u, j)' /\ DonorOf(u, j)' = DonorOf(u, j)
    BY <1>0, <2>1, DonorOfIs, DonorOfIsNext
  <2>3. Answered(t, i)' /\ NumTopics + Canonical[L.donor] # Nobody
        /\ DonorOf(t, i)' = IF externalMemo'[L.donor] = "found"
                            THEN NumTopics + Canonical[L.donor] ELSE Nobody
    BY <1>0, <2>1, DonorOfIsNext, HelpTopicsAreOthers
  <2>4. CASE externalMemo'[L.donor] = "found"
    <3>1. Record(i, NumTopics + Canonical[L.donor]) /\ UNCHANGED diagnostics
      BY <2>1, <2>4 DEF Answer, Found
    <3>2. diagnostics' = diagnostics \cup Z
      BY <2>3, <2>4, <3>1
    <3> QED
      BY <2>2, <2>3, <2>4, <3>1, <3>2 DEF Looked, Record
  <2>5. CASE externalMemo'[L.donor] # "found"
    <3>1. Record(i, Nobody) /\ diagnostics' = diagnostics \cup {Report("External", t, i)}
      BY <2>1, <2>5 DEF Answer, NotFound
    <3>2. diagnostics' = diagnostics \cup Z
      BY <1>1, <1>5, <2>1, <2>3, <2>5, <3>1
    <3> QED
      BY <2>2, <2>3, <2>5, <3>1, <3>2 DEF Looked, Record
  <2> QED
    BY <2>4, <2>5
<1> QED
  BY <1>9, <1>10, <1>11

\* The donors found stay those the requests lead to.
LEMMA FetchStays ==
  SceneInv /\ StageInv /\ OrderInv /\ ExternalInv /\ FetchInv /\ [Next]_vars => FetchInv'
<1> SUFFICES ASSUME SceneInv, StageInv, OrderInv, ExternalInv, FetchInv, [Next]_vars
             PROVE  FetchInv'
  OBVIOUS
<1>0. \A t \in Topics : t # Nobody
  BY NumberAssumption DEF Topics, Nobody
<1>1. UNCHANGED <<pkg, policy>> /\ \A t, i : Needed(t, i)' = Needed(t, i)
  BY PackageKept, PackageStays
<1>2. ASSUME UNCHANGED externalMemo
      PROVE  \A t, i : DonorOf(t, i)' = DonorOf(t, i) /\ Answered(t, i)' = Answered(t, i)
  BY <1>1, <1>2, AnswersStay
<1>3. CASE Prepare \/ Analyse
  <2>1. current' = Nobody /\ donors' = <<>> /\ memo' = <<>>
    BY <1>3 DEF Prepare, Analyse, StageInv, FetchInv
  <2>2. DOMAIN memo' = {}
    BY <2>1
  <2> QED
    BY <2>1, <2>2 DEF FetchInv
<1>4. CASE UNCHANGED <<normalized, edges, memo, current, donors, externalMemo>>
  <2>1. \A t : OnCycle(t)' = OnCycle(t)
    BY <1>4, GraphStays
  <2>2. \A i : DonorOf(current, i)' = DonorOf(current, i)
               /\ Answered(current, i)' = Answered(current, i)
    BY <1>2, <1>4
  <2> QED
    BY <1>1, <1>2, <1>4, <2>1, <2>2 DEF FetchInv
<1>5. CASE \E C \in waiting : RecoverCycle(C)
  <2>1. PICK C \in waiting : RecoverCycle(C)
    BY <1>5
  <2>2. pc = "cycles" /\ current' = Nobody /\ donors' = <<>> /\ UNCHANGED <<edges, externalMemo>>
        /\ DOMAIN memo' = DOMAIN memo \cup C /\ Analysed
    BY <2>1 DEF RecoverCycle, StageInv, FetchInv, Analysed
  <2>3. \A t \in C : OnCycle(t)
    BY <2>1, <2>2, Parts DEF OrderInv, OnCycle
  <2>4. \A t : OnCycle(t)' = OnCycle(t)
    BY <2>2, GraphStays
  <2> QED
    BY <1>1, <1>2, <2>2, <2>3, <2>4 DEF FetchInv
<1>6. CASE \E t \in Topics : StartTopic(t)
  <2>1. PICK t \in Topics : StartTopic(t)
    BY <1>6
  <2>2. current' = t /\ donors' = <<>> /\ UNCHANGED <<edges, memo, externalMemo>>
    BY <2>1 DEF StartTopic
  <2>3. \A u : OnCycle(u)' = OnCycle(u)
    BY <2>2, GraphStays
  <2> QED
    BY <1>0, <1>1, <1>2, <2>2, <2>3 DEF FetchInv
<1>7. CASE \E t \in Topics : ResolveTopic(t)
  <2>1. PICK t \in Topics : ResolveTopic(t)
    BY <1>7
  <2>2. current = t /\ current' = Nobody /\ donors' = <<>> /\ UNCHANGED <<edges, externalMemo>>
        /\ DOMAIN memo' = DOMAIN memo \cup {t} /\ DOMAIN donors = DOMAIN normalized[t]
    BY <2>1 DEF ResolveTopic
  <2>3. ASSUME NEW i \in DOMAIN pkg[t].requests, Needed(t, i) PROVE Answered(t, i)
    <3>1. pc # "prepare"
      BY <1>0, <2>2 DEF StageInv
    <3>2. PICK j \in DOMAIN normalized[t] :
            PrepareTarget(pkg[t].requests[j]) = PrepareTarget(pkg[t].requests[i])
      BY <2>3, <3>1, KeptAlike
    <3>3. Answered(t, j)
      BY <1>0, <2>2, <3>2 DEF FetchInv
    <3> QED
      BY <3>2, <3>3 DEF Answered
  <2>4. \A u : OnCycle(u)' = OnCycle(u)
    BY <2>2, GraphStays
  <2> QED
    BY <1>1, <1>2, <2>2, <2>3, <2>4 DEF FetchInv
<1>8. CASE Fetch
  <2>1. PICK i \in DOMAIN normalized[current] : Looked(i)
    BY <1>8, LookupFinds, Zenon DEF Fetch
  <2>2. UNCHANGED <<normalized, edges, memo, current>> /\ current # Nobody
    BY <1>8, FetchLeaves
  <2>3. \A t : OnCycle(t)' = OnCycle(t)
    BY <2>2, GraphStays
  <2>4. \A j \in DOMAIN donors' : /\ j \in DOMAIN normalized[current]
                                  /\ donors'[j] = DonorOf(current, j)' /\ Answered(current, j)'
    <3> TAKE j \in DOMAIN donors'
    <3>1. CASE j = i
      BY <2>1, <3>1 DEF Looked
    <3>2. CASE j # i
      <4>1. j \in DOMAIN donors /\ donors'[j] = donors[j]
        BY <2>1, <3>2 DEF Looked
      <4>2. donors[j] = DonorOf(current, j) /\ Answered(current, j) /\ j \in DOMAIN normalized[current]
        BY <2>2, <4>1 DEF FetchInv
      <4>3. Answered(current, j)' /\ DonorOf(current, j)' = DonorOf(current, j)
        BY <2>1, <2>2, <4>2 DEF Looked
      <4> QED
        BY <4>1, <4>2, <4>3
    <3> QED
      BY <3>1, <3>2
  <2>5. \A t, j : Answered(t, j) => Answered(t, j)'
    BY <2>1 DEF Looked
  <2> QED
    BY <1>1, <2>2, <2>3, <2>4, <2>5 DEF FetchInv
<1>9. CASE (\E C \in waiting : PassCycle(C)) \/ EndCycles \/ Return \/ UNCHANGED vars
  BY <1>4, <1>9 DEF PassCycle, EndCycles, Return, vars
<1> QED
  BY <1>3, <1>5, <1>6, <1>7, <1>8, <1>9 DEF Next

-----------------------------------------------------------------------------
(* Reports *)

\* What is said of one request.
ComplaintCodes == {"Duplicate", "Invalid", "Disabled", "External"}

\* What a merge reports is of other kinds.
LEMMA OtherReports ==
  /\ \A t : \A d \in SectionConflicts(t) \cup SectionReports(t) \cup SelectionReports(t)
                     \cup {Report("MissingParam", t, i) : i \in {j \in DOMAIN pkg[t].formals :
                                            pkg[t].formals[j] \in MergedParams(t).missing}} :
       d.code \in {"ConflictingSection", "MissingSection", "AmbiguousSection", "InvalidSelection",
                   "MissingParam"}
  /\ \A code, t, i : /\ Report(code, t, i).code = code /\ Report(code, t, i).topic = t
                     /\ Report(code, t, i).at = i
<1>1. \A code, t, i : /\ Report(code, t, i).code = code /\ Report(code, t, i).topic = t
                     /\ Report(code, t, i).at = i
  BY DEF Report
<1>2. \A t : \A d \in SectionConflicts(t) : d.code = "ConflictingSection"
  BY <1>1 DEF SectionConflicts
<1>3. ASSUME NEW t, NEW d \in SectionReports(t)
      PROVE  d.code \in {"MissingSection", "AmbiguousSection"}
  <2>1. PICK k : d = Report(IF Titled(t, k) = {} THEN "MissingSection" ELSE "AmbiguousSection",
                            t, k)
    BY DEF SectionReports
  <2> QED
    BY <1>1, <2>1
<1>4. ASSUME NEW t, NEW d \in SelectionReports(t) PROVE d.code = "InvalidSelection"
  <2>1. PICK k : d = Report("InvalidSelection", t, k)
    BY DEF SelectionReports
  <2> QED
    BY <1>1, <2>1
<1>5. ASSUME NEW t, NEW d \in {Report("MissingParam", t, i) : i \in {j \in DOMAIN pkg[t].formals :
                                       pkg[t].formals[j] \in MergedParams(t).missing}}
      PROVE  d.code = "MissingParam"
  <2>1. PICK k : d = Report("MissingParam", t, k)
    BY <1>5
  <2> QED
    BY <1>1, <2>1
<1>6. ASSUME NEW t,
             NEW d \in SectionConflicts(t) \cup SectionReports(t) \cup SelectionReports(t)
                     \cup {Report("MissingParam", t, i) : i \in {j \in DOMAIN pkg[t].formals :
                                            pkg[t].formals[j] \in MergedParams(t).missing}}
      PROVE  d.code \in {"ConflictingSection", "MissingSection", "AmbiguousSection",
                         "InvalidSelection", "MissingParam"}
  BY <1>2, <1>3, <1>4, <1>5, <1>6
<1> QED
  BY <1>1, <1>6

\* The reports that a step adds without a complaint among them leave those.
LEMMA ComplaintsKept ==
  ASSUME NEW N, diagnostics' = diagnostics \cup N, \A d \in N : d.code \notin ComplaintCodes
  PROVE  \A t, i : Complaints(t, i)' = Complaints(t, i)
  BY DEF Complaints, ComplaintCodes

\* What a step that only looks at the package finds: nothing of a topic's
\* complaints depends on more than these.
LEMMA ComplaintsFollow ==
  ASSUME ComplaintInv, pc # "prepare", UNCHANGED <<pkg, policy, externalMemo>>,
         \A t, i : Complaints(t, i)' = Complaints(t, i),
         \A t \in Topics : Handled(t)' = Handled(t)
  PROVE  ComplaintInv'
<1>1. /\ \A t, i : IsDuplicate(t, i)' = IsDuplicate(t, i)
      /\ \A t, i : DonorOf(t, i)' = DonorOf(t, i) /\ Fault(t, i)' = Fault(t, i)
  BY PackageStays, AnswersStay
<1>2. \A t, i : Report("Duplicate", t, i)' = Report("Duplicate", t, i)
                /\ Report(Fault(t, i), t, i)' = Report(Fault(t, i), t, i)
  BY <1>1
<1> QED
  BY <1>1, <1>2, Zenon DEF ComplaintInv

\* The complaints stay one for each repetition and each request that leads
\* nowhere.
LEMMA ComplaintsStay ==
  SceneInv /\ StageInv /\ OrderInv /\ ExternalInv /\ FetchInv /\ ComplaintInv /\ [Next]_vars
  => ComplaintInv'
<1> SUFFICES ASSUME SceneInv, StageInv, OrderInv, ExternalInv, FetchInv, ComplaintInv, [Next]_vars
             PROVE  ComplaintInv'
  OBVIOUS
<1>0. \A t \in Topics : t # Nobody
  BY NumberAssumption DEF Topics, Nobody
<1>1. UNCHANGED <<pkg, policy>>
  BY PackageKept
<1>2. /\ \A t, i : IsDuplicate(t, i)' = IsDuplicate(t, i)
      /\ \A t, i : Fault(t, i)' = Fault(t, i)
  <2>1. \A t, i : Fault(t, i)' = Fault(t, i)
    <3>1. \A r : PrepareTarget(r)' = PrepareTarget(r)
      BY <1>1, PackageStays
    <3> QED
      BY <1>1, <3>1, Zenon DEF Fault
  <2> QED
    BY <1>1, <2>1, PackageStays
<1>3. CASE Prepare
  <2>1. pc' = "graph" /\ diagnostics' = UNION {DuplicateReports(t) : t \in Topics}
        /\ UNCHANGED <<memo, current>> /\ memo = <<>> /\ current = Nobody
    BY <1>3 DEF Prepare, StageInv
  <2>2. DOMAIN memo' = {}
    BY <2>1
  <2>3. \A t \in Topics : Handled(t)' = {}
    BY <1>0, <2>1, <2>2 DEF Handled
  <2>4. ASSUME NEW t \in Topics, NEW i \in DOMAIN pkg[t].requests
        PROVE  Complaints(t, i)' = IF IsDuplicate(t, i) THEN {Report("Duplicate", t, i)} ELSE {}
    <3>1. \A d \in diagnostics' : \E u, j : j \in DOMAIN pkg[u].requests
             /\ d = Report("Duplicate", u, j) /\ IsDuplicate(u, j)
      BY <2>1 DEF DuplicateReports
    <3>2. IsDuplicate(t, i) => Report("Duplicate", t, i) \in diagnostics'
      BY <2>1 DEF DuplicateReports
    <3>3. Complaints(t, i)' = {d \in diagnostics' : d.topic = t /\ d.at = i /\ d.code \in ComplaintCodes}
      BY DEF Complaints, ComplaintCodes
    <3> QED
      BY <3>1, <3>2, <3>3, OtherReports DEF ComplaintCodes
  <2> QED
    BY <1>1, <1>2, <2>3, <2>4 DEF ComplaintInv
<1>4. CASE pc = "prepare" /\ ~Prepare
  <2>1. UNCHANGED pc
    <3>1. ~Fetch /\ current = Nobody /\ waiting = {}
      BY <1>4, FetchLeaves DEF StageInv
    <3>2. \A t \in Topics : ~StartTopic(t) /\ ~ResolveTopic(t)
      BY <1>0, <1>4, <3>1 DEF StartTopic, ResolveTopic
    <3>3. ~Analyse /\ ~EndCycles /\ ~Return
      BY <1>4 DEF Analyse, EndCycles, Return
    <3> QED
      BY <1>4, <3>1, <3>2, <3>3 DEF Next, vars
  <2> QED
    BY <1>4, <2>1 DEF ComplaintInv
<1>5. CASE Analyse
  <2>1. pc # "prepare" /\ memo' = <<>> /\ memo = <<>> /\ current = Nobody
        /\ UNCHANGED <<externalMemo, diagnostics, current, donors>>
    BY <1>5 DEF Analyse, StageInv
  <2>2. \A t \in Topics : Handled(t)' = Handled(t)
    <3>1. DOMAIN memo = {} /\ DOMAIN memo' = {}
      BY <2>1
    <3> QED
      BY <1>0, <2>1, <3>1 DEF Handled
  <2>3. \A t, i : Complaints(t, i)' = Complaints(t, i)
    BY <2>1 DEF Complaints
  <2> QED
    BY <1>1, <2>1, <2>2, <2>3, ComplaintsFollow
<1>6. CASE pc # "prepare" /\ UNCHANGED <<normalized, edges, memo, current, donors, externalMemo, diagnostics>>
  <2>1. \A t : OnCycle(t)' = OnCycle(t)
    BY <1>6, GraphStays
  <2>2. \A t \in Topics : Handled(t)' = Handled(t)
    BY <1>6, <2>1 DEF Handled
  <2>3. \A t, i : Complaints(t, i)' = Complaints(t, i)
    BY <1>6 DEF Complaints
  <2> QED
    BY <1>1, <1>6, <2>2, <2>3, ComplaintsFollow
<1>7. CASE \E C \in waiting : RecoverCycle(C)
  <2>1. PICK C \in waiting : RecoverCycle(C)
    BY <1>7
  <2> DEFINE N == (UNION {SectionConflicts(t) : t \in C})
                  \cup {Report("Cycle", r[1], r[2]) : r \in FirstCycleRequest(C)}
  <2>2. pc = "cycles" /\ UNCHANGED <<normalized, edges, current, donors, externalMemo>>
        /\ DOMAIN memo' = DOMAIN memo \cup C /\ diagnostics' = diagnostics \cup N
    BY <2>1 DEF RecoverCycle
  <2>3. \A d \in N : d.code \in {"ConflictingSection", "Cycle"}
    <3>1. \A t : \A d \in SectionConflicts(t) : d.code = "ConflictingSection"
      BY OtherReports DEF SectionConflicts
    <3> QED
      BY <3>1, OtherReports
  <2>4. \A t, i : Complaints(t, i)' = Complaints(t, i)
    <3>1. \A d \in N : d.code \notin ComplaintCodes
      BY <2>3 DEF ComplaintCodes
    <3> HIDE DEF N
    <3> QED
      BY <2>2, <3>1, ComplaintsKept
  <2>5. \A t \in C : OnCycle(t) /\ t # current
    BY <1>0, <2>1, <2>2, Parts DEF OrderInv, OnCycle, Analysed, StageInv
  <2>6. \A t : OnCycle(t)' = OnCycle(t)
    BY <2>2, GraphStays
  <2>7. \A t \in Topics : Handled(t)' = Handled(t)
    BY <2>2, <2>5, <2>6 DEF Handled
  <2> QED
    BY <1>1, <2>2, <2>4, <2>7, ComplaintsFollow
<1>8. CASE \E t \in Topics : StartTopic(t)
  <2>1. PICK t \in Topics : StartTopic(t)
    BY <1>8
  <2>2. pc = "resolve" /\ current = Nobody /\ current' = t /\ donors' = <<>>
        /\ UNCHANGED <<normalized, edges, memo, externalMemo, diagnostics>> /\ Analysed
    BY <2>1 DEF StartTopic, Analysed
  <2>3. t \notin DOMAIN memo
    BY <2>1, <2>2, StartedHasDonors DEF OrderInv
  <2>4. \A u : OnCycle(u)' = OnCycle(u)
    BY <2>2, GraphStays
  <2>5. DOMAIN donors' = {}
    BY <2>2
  <2>6. \A u \in Topics : Handled(u)' = Handled(u)
    BY <1>0, <2>2, <2>3, <2>4, <2>5 DEF Handled
  <2>7. \A u, i : Complaints(u, i)' = Complaints(u, i)
    BY <2>2 DEF Complaints
  <2> QED
    BY <1>1, <2>2, <2>6, <2>7, ComplaintsFollow
<1>9. CASE \E t \in Topics : ResolveTopic(t)
  <2>1. PICK t \in Topics : ResolveTopic(t)
    BY <1>9
  <2> DEFINE N == SectionConflicts(t) \cup SectionReports(t) \cup SelectionReports(t)
                  \cup {Report("MissingParam", t, i) : i \in {j \in DOMAIN pkg[t].formals :
                                            pkg[t].formals[j] \in MergedParams(t).missing}}
  <2>2. current = t /\ current' = Nobody /\ UNCHANGED <<normalized, edges, externalMemo>>
        /\ DOMAIN memo' = DOMAIN memo \cup {t} /\ DOMAIN donors = DOMAIN normalized[t]
        /\ diagnostics' = diagnostics \cup N
    BY <2>1 DEF ResolveTopic
  <2>3. pc = "resolve" /\ ~OnCycle(t)
    BY <1>0, <2>2 DEF StageInv, OrderInv
  <2>4. \A u, i : Complaints(u, i)' = Complaints(u, i)
    <3>1. \A d \in N : d.code \notin ComplaintCodes
      BY OtherReports DEF ComplaintCodes
    <3> HIDE DEF N
    <3> QED
      BY <2>2, <3>1, ComplaintsKept
  <2>5. \A u : OnCycle(u)' = OnCycle(u)
    BY <2>2, GraphStays
  <2>6. \A u \in Topics : Handled(u)' = Handled(u)
    BY <1>0, <2>2, <2>3, <2>5 DEF Handled
  <2> QED
    BY <1>1, <2>2, <2>3, <2>4, <2>6, ComplaintsFollow
<1>10. CASE Fetch
  <2>1. PICK i \in DOMAIN normalized[current] : Looked(i) /\ Fetching(i)
    BY <1>10, LookupFinds, Zenon
       DEF Fetch, FetchNothing, FetchLocal, FetchRemembered, AskProvider
  <2>2. UNCHANGED <<normalized, edges, memo, current>> /\ current # Nobody /\ pc = "resolve"
        /\ current \in Topics
    BY <1>10, FetchLeaves
  <2>3. i \in DOMAIN pkg[current].requests /\ ~IsDuplicate(current, i) /\ i \notin DOMAIN donors
    BY <2>1, NextRequest
  <2>4. \A t : OnCycle(t)' = OnCycle(t)
    BY <2>2, GraphStays
  <2>5. \A t \in Topics : Handled(t)' = IF t = current THEN Handled(t) \cup {i} ELSE Handled(t)
    BY <2>1, <2>2, <2>4 DEF Handled, Looked
  <2>6. \A t \in Topics : \A j \in Handled(t) :
          pkg[t].requests[j].to # "suppress" => DonorOf(t, j)' = DonorOf(t, j)
    <3> SUFFICES ASSUME NEW t \in Topics, NEW j \in Handled(t), pkg[t].requests[j].to # "suppress"
                 PROVE  Answered(t, j)
      BY <2>1 DEF Looked
    <3>1. CASE t = current
      BY <2>2, <3>1 DEF Handled, FetchInv
    <3>2. CASE t # current
      <4>1. t \in DOMAIN memo /\ ~OnCycle(t) /\ j \in DOMAIN normalized[t]
        BY <3>2 DEF Handled
      <4>2. Needed(t, j) /\ j \in DOMAIN pkg[t].requests
        BY <2>2, <4>1, NormalizedIs
      <4> QED
        BY <4>1, <4>2 DEF FetchInv
    <3> QED
      BY <3>1, <3>2
  <2>7. ASSUME NEW t \in Topics, NEW j \in DOMAIN pkg[t].requests
        PROVE  Complaints(t, j)' =
                 IF IsDuplicate(t, j) THEN {Report("Duplicate", t, j)}
                 ELSE IF j \in Handled(t)' /\ pkg[t].requests[j].to # "suppress"
                         /\ DonorOf(t, j)' = Nobody
                 THEN {Report(Fault(t, j), t, j)} ELSE {}
    <3>1. Complaints(t, j) =
                 IF IsDuplicate(t, j) THEN {Report("Duplicate", t, j)}
                 ELSE IF j \in Handled(t) /\ pkg[t].requests[j].to # "suppress"
                         /\ DonorOf(t, j) = Nobody
                 THEN {Report(Fault(t, j), t, j)} ELSE {}
      BY <2>2, <2>7 DEF ComplaintInv
    <3> DEFINE Z == IF DonorOf(current, i)' = Nobody /\ pkg[current].requests[i].to # "suppress"
                    THEN {Report(Fault(current, i), current, i)} ELSE {}
    <3>2. diagnostics' = diagnostics \cup Z
      BY <2>1 DEF Looked
    <3>3. /\ Complaints(t, j) = {d \in diagnostics : /\ d.topic = t /\ d.at = j
                                                     /\ d.code \in ComplaintCodes}
          /\ Complaints(t, j)' = {d \in diagnostics' : /\ d.topic = t /\ d.at = j
                                                       /\ d.code \in ComplaintCodes}
      BY DEF Complaints, ComplaintCodes
    <3>4. CASE ~(t = current /\ j = i)
      <4>1. \A d \in Z : ~(d.topic = t /\ d.at = j)
        BY <3>4, OtherReports
      <4>2. Complaints(t, j)' = Complaints(t, j)
        BY <3>2, <3>3, <4>1
      <4>3. j \in Handled(t)' <=> j \in Handled(t)
        BY <2>5, <3>4
      <4> QED
        BY <2>6, <3>1, <4>2, <4>3
    <3>5. CASE t = current /\ j = i
      <4>1. Complaints(t, j) = {}
        BY <2>2, <2>3, <3>1, <3>5 DEF Handled
      <4>2. \A d \in Z : d.topic = t /\ d.at = j /\ d.code \in ComplaintCodes
        BY <3>5, OtherReports DEF Fault, ComplaintCodes
      <4>3. Complaints(t, j)' = Z
        BY <3>2, <3>3, <4>1, <4>2
      <4>4. j \in Handled(t)' /\ ~IsDuplicate(t, j)
        BY <2>3, <2>5, <3>5
      <4>5. DonorOf(current, i)' = DonorOf(t, j)'
        BY <2>2, <3>5
      <4> QED
        BY <3>5, <4>3, <4>4, <4>5
    <3> QED
      BY <3>4, <3>5
  <2> QED
    BY <1>1, <1>2, <2>7 DEF ComplaintInv
<1>11. CASE pc # "prepare" /\ ((\E C \in waiting : PassCycle(C)) \/ EndCycles \/ Return \/ UNCHANGED vars)
  BY <1>6, <1>11 DEF PassCycle, EndCycles, Return, vars
<1> QED
  BY <1>3, <1>4, <1>5, <1>7, <1>8, <1>9, <1>10, <1>11 DEF Next

\* No lookup misses the memo of the topics.
LEMMA ResolvedStays ==
  SceneInv /\ StageInv /\ OrderInv /\ ExternalInv /\ DonorsAreResolved /\ [Next]_vars
  => DonorsAreResolved'
<1> SUFFICES ASSUME SceneInv, StageInv, OrderInv, ExternalInv, DonorsAreResolved, [Next]_vars
             PROVE  DonorsAreResolved'
  OBVIOUS
<1>1. ASSUME NEW N, diagnostics' = diagnostics \cup N, \A d \in N : d.code # "Unresolved"
      PROVE  DonorsAreResolved'
  BY <1>1 DEF DonorsAreResolved
<1>2. CASE UNCHANGED diagnostics
  BY <1>2 DEF DonorsAreResolved
<1>3. CASE Prepare
  <2>1. diagnostics' = UNION {DuplicateReports(t) : t \in Topics}
    BY <1>3 DEF Prepare
  <2>2. \A d \in diagnostics' : d.code = "Duplicate"
    BY <2>1, OtherReports DEF DuplicateReports
  <2> QED
    BY <2>2 DEF DonorsAreResolved
<1>4. CASE \E C \in waiting : RecoverCycle(C)
  <2>1. PICK C \in waiting : RecoverCycle(C)
    BY <1>4
  <2> DEFINE N == (UNION {SectionConflicts(t) : t \in C})
                  \cup {Report("Cycle", r[1], r[2]) : r \in FirstCycleRequest(C)}
  <2>2. diagnostics' = diagnostics \cup N
    BY <2>1 DEF RecoverCycle
  <2>3. \A t : \A d \in SectionConflicts(t) : d.code = "ConflictingSection"
    BY OtherReports DEF SectionConflicts
  <2>4. \A d \in N : d.code # "Unresolved"
    BY <2>3, OtherReports
  <2> HIDE DEF N
  <2> QED
    BY <1>1, <2>2, <2>4
<1>5. CASE \E t \in Topics : ResolveTopic(t)
  <2>1. PICK t \in Topics : ResolveTopic(t)
    BY <1>5
  <2> DEFINE N == SectionConflicts(t) \cup SectionReports(t) \cup SelectionReports(t)
                  \cup {Report("MissingParam", t, i) : i \in {j \in DOMAIN pkg[t].formals :
                                            pkg[t].formals[j] \in MergedParams(t).missing}}
  <2>2. diagnostics' = diagnostics \cup N
    BY <2>1 DEF ResolveTopic
  <2>3. \A d \in N : d.code # "Unresolved"
    BY OtherReports
  <2> HIDE DEF N
  <2> QED
    BY <1>1, <2>2, <2>3
<1>6. CASE Fetch
  <2>1. PICK i \in DOMAIN normalized[current] : Looked(i)
    BY <1>6, LookupFinds, Zenon DEF Fetch
  <2> DEFINE N == IF DonorOf(current, i)' = Nobody /\ pkg[current].requests[i].to # "suppress"
                  THEN {Report(Fault(current, i), current, i)} ELSE {}
  <2>2. diagnostics' = diagnostics \cup N
    BY <2>1 DEF Looked
  <2>3. \A d \in N : d.code # "Unresolved"
    BY OtherReports DEF Fault
  <2> HIDE DEF N
  <2> QED
    BY <1>1, <2>2, <2>3
<1>7. CASE Analyse \/ EndCycles \/ Return \/ UNCHANGED vars
  BY <1>2, <1>7 DEF Analyse, EndCycles, Return, vars
<1>8. CASE (\E C \in waiting : PassCycle(C)) \/ (\E t \in Topics : StartTopic(t))
  BY <1>2, <1>8 DEF PassCycle, StartTopic
<1> QED
  BY <1>3, <1>4, <1>5, <1>6, <1>7, <1>8 DEF Next

\* The reports that a step adds without a cycle among them leave those.
LEMMA CyclesKept ==
  ASSUME NEW N, diagnostics' = diagnostics \cup N, \A d \in N : d.code # "Cycle"
  PROVE  \A C : CycleReports(C)' = CycleReports(C)
  BY DEF CycleReports

\* While the graph and the reports of cycles stay, so does what they are about.
LEMMA CyclesFollow ==
  ASSUME CycleInv, StageInv, pc \in {"cycles", "resolve", "done"}, pc' \in {"cycles", "resolve", "done"},
         UNCHANGED <<normalized, edges>>,
         \A C : CycleReports(C)' = CycleReports(C),
         pc = "cycles" /\ pc' = "cycles" => waiting' = waiting,
         pc = "cycles" /\ pc' # "cycles" => waiting = {},
         pc # "cycles" => pc' # "cycles"
  PROVE  CycleInv'
<1>1. Classes(edges)' = Classes(edges) /\ \A C : FirstCycleRequest(C)' = FirstCycleRequest(C)
  BY GraphStays, RequestsStay
<1>2. \A C \in Classes(edges) :
        CycleReports(C)' =
           IF IsCyclic(edges, C) /\ (pc' = "cycles" => C \notin waiting')
           THEN {Report("Cycle", r[1], r[2]) : r \in FirstCycleRequest(C)} ELSE {}
  BY DEF CycleInv
<1> QED
  BY <1>1, <1>2, Zenon DEF CycleInv

\* Each cyclic component that has been passed has its one report.
LEMMA CyclesStay ==
  SceneInv /\ StageInv /\ OrderInv /\ ExternalInv /\ FetchInv /\ CycleInv /\ [Next]_vars => CycleInv'
<1> SUFFICES ASSUME SceneInv, StageInv, OrderInv, ExternalInv, FetchInv, CycleInv, [Next]_vars
             PROVE  CycleInv'
  OBVIOUS
<1>0. \A t \in Topics : t # Nobody
  BY NumberAssumption DEF Topics, Nobody
<1>1. ASSUME UNCHANGED diagnostics PROVE \A C : CycleReports(C)' = CycleReports(C)
  BY <1>1 DEF CycleReports
<1>2. CASE Prepare
  <2>1. diagnostics' = UNION {DuplicateReports(t) : t \in Topics} /\ pc' = "graph"
    BY <1>2 DEF Prepare
  <2>2. \A d \in diagnostics' : d.code = "Duplicate"
    BY <2>1, OtherReports DEF DuplicateReports
  <2> QED
    BY <2>1, <2>2 DEF CycleInv
<1>3. CASE Analyse
  <2>1. pc = "graph" /\ pc' = "cycles" /\ UNCHANGED diagnostics
        /\ waiting' = {C \in Classes(edges') : IsCyclic(edges', C)}
    BY <1>3 DEF Analyse
  <2>2. \A C : CycleReports(C)' = {}
    BY <2>1 DEF CycleInv, CycleReports
  <2> QED
    BY <2>1, <2>2, Zenon DEF CycleInv
<1>4. CASE EndCycles \/ Return
  BY <1>1, <1>4, CyclesFollow DEF EndCycles, Return
<1>5. CASE \E C \in waiting : RecoverCycle(C)
  <2>1. PICK C \in waiting : RecoverCycle(C)
    BY <1>5
  <2> DEFINE N == (UNION {SectionConflicts(t) : t \in C})
             M == {Report("Cycle", r[1], r[2]) : r \in FirstCycleRequest(C)}
  <2>2. /\ diagnostics' = diagnostics \cup N \cup M /\ pc = "cycles" /\ pc' = "cycles"
        /\ waiting' = waiting \ {C} /\ UNCHANGED <<normalized, edges>> /\ Analysed
    BY <2>1 DEF RecoverCycle, Analysed
  <2>3. \A d \in N : d.code # "Cycle"
    <3>1. \A t : \A d \in SectionConflicts(t) : d.code = "ConflictingSection"
      BY OtherReports DEF SectionConflicts
    <3> QED
      BY <3>1
  <2>4. C \in Classes(edges) /\ IsCyclic(edges, C)
    BY <2>1, <2>2 DEF OrderInv
  <2>5. \A d \in M : d.code = "Cycle" /\ d.topic \in C
    <3>1. PICK t, i : t \in C /\ FirstCycleRequest(C) = {<<t, i>>}
      BY <2>2, <2>4, OneFirstRequest
    <3> QED
      BY <3>1, OtherReports
  <2>6. \A D \in Classes(edges) : D # C => D \cap C = {}
    BY <2>2, <2>4, Parts
  <2> HIDE DEF N, M
  <2>7. \A D \in Classes(edges) :
          CycleReports(D)' = IF D = C THEN CycleReports(D) \cup M ELSE CycleReports(D)
    BY <2>2, <2>3, <2>5, <2>6 DEF CycleReports
  <2>8. \A D \in Classes(edges) :
          CycleReports(D) = IF IsCyclic(edges, D) /\ D \notin waiting
                            THEN {Report("Cycle", r[1], r[2]) : r \in FirstCycleRequest(D)} ELSE {}
    BY <2>2 DEF CycleInv
  <2>9. \A D \in Classes(edges) :
          CycleReports(D)' = IF IsCyclic(edges, D) /\ D \notin waiting'
                            THEN {Report("Cycle", r[1], r[2]) : r \in FirstCycleRequest(D)} ELSE {}
    <3> TAKE D \in Classes(edges)
    <3>1. CASE D = C
      <4>1. CycleReports(D) = {} /\ D \notin waiting' /\ IsCyclic(edges, D)
        BY <2>1, <2>2, <2>4, <2>8, <3>1
      <4>2. CycleReports(D)' = M
        BY <2>7, <3>1, <4>1
      <4> QED
        BY <3>1, <4>1, <4>2 DEF M
    <3>2. CASE D # C
      BY <2>2, <2>7, <2>8, <3>2
    <3> QED
      BY <3>1, <3>2
  <2>10. Classes(edges)' = Classes(edges) /\ \A D : FirstCycleRequest(D)' = FirstCycleRequest(D)
    BY <2>2, GraphStays, RequestsStay
  <2> QED
    BY <2>2, <2>9, <2>10, Zenon DEF CycleInv
<1>6. CASE (\E C \in waiting : PassCycle(C)) \/ (\E t \in Topics : StartTopic(t))
  BY <1>1, <1>6, CyclesFollow DEF PassCycle, StartTopic
<1>7. CASE \E t \in Topics : ResolveTopic(t)
  <2>1. PICK t \in Topics : ResolveTopic(t)
    BY <1>7
  <2> DEFINE N == SectionConflicts(t) \cup SectionReports(t) \cup SelectionReports(t)
                  \cup {Report("MissingParam", t, i) : i \in {j \in DOMAIN pkg[t].formals :
                                            pkg[t].formals[j] \in MergedParams(t).missing}}
  <2>2. diagnostics' = diagnostics \cup N /\ pc = "resolve" /\ UNCHANGED <<pc, normalized, edges>>
    BY <1>0, <2>1 DEF ResolveTopic, StageInv
  <2>3. \A d \in N : d.code # "Cycle"
    BY OtherReports
  <2> HIDE DEF N
  <2> QED
    BY <2>2, <2>3, CyclesKept, CyclesFollow
<1>8. CASE Fetch
  <2>1. PICK i \in DOMAIN normalized[current] : Looked(i)
    BY <1>8, LookupFinds, Zenon DEF Fetch
  <2> DEFINE N == IF DonorOf(current, i)' = Nobody /\ pkg[current].requests[i].to # "suppress"
                  THEN {Report(Fault(current, i), current, i)} ELSE {}
  <2>2. diagnostics' = diagnostics \cup N /\ pc = "resolve" /\ UNCHANGED <<pc, normalized, edges>>
    BY <1>8, <2>1, FetchLeaves DEF Looked
  <2>3. \A d \in N : d.code # "Cycle"
    BY OtherReports DEF Fault
  <2> HIDE DEF N
  <2> QED
    BY <2>2, <2>3, CyclesKept, CyclesFollow
<1>9. CASE UNCHANGED vars
  <2>1. CASE pc \in {"cycles", "resolve", "done"}
    BY <1>1, <1>9, <2>1, CyclesFollow DEF vars
  <2>2. CASE pc \in {"prepare", "graph"}
    BY <1>9, <2>2 DEF vars, CycleInv
  <2> QED
    BY <2>1, <2>2 DEF StageInv
<1> QED
  BY <1>2, <1>3, <1>4, <1>5, <1>6, <1>7, <1>8, <1>9 DEF Next

-----------------------------------------------------------------------------
(* Prose *)

\* The requests of the source whose donors have the field, and what they give.
HaveField(t, f) == {i \in Givers(t, f) : Content(DonorOf(t, i)).prose[f] # Nobody}
Due(t, f) ==
  IF f \in pkg[t].own THEN t
  ELSE IF OnCycle(t) \/ HaveField(t, f) = {} THEN Nobody
  ELSE Content(DonorOf(t, Min(HaveField(t, f)))).prose[f]

\* The property, said with these.
LEMMA ProseIsDue ==
  ProseComesFromFirstDonor <=> \A t \in DOMAIN memo : \A f \in Fields : memo[t].prose[f] = Due(t, f)
  BY Zenon DEF ProseComesFromFirstDonor, Due, HaveField

\* The same of the next state.
LEMMA ProseIsDueNext ==
  ProseComesFromFirstDonor' <=>
    \A t \in DOMAIN memo' : \A f \in Fields : memo'[t].prose[f] = Due(t, f)'
  BY Zenon DEF ProseComesFromFirstDonor, Due, HaveField

\* A giver of a field is a request that could give something, and its donor is
\* resolved when the donors of the topic are.
LEMMA GiversAreNeeded ==
  ASSUME Analysed, NEW t \in Topics, NEW f, NEW i \in DOMAIN pkg[t].requests,
         f \in pkg[t].requests[i].fields \ Suppressed(pkg[t].requests), DonorOf(t, i) # Nobody
  PROVE  /\ Needed(t, i)
         /\ DonorOf(t, i) \in Topics => DonorOf(t, i) \in DonorsOf(edges, t)
<1>1. IsRequest(pkg[t].requests[i])
  BY PositionsAreNat DEF Analysed
<1>2. /\ Leads(t, i).to = "suppress" <=> pkg[t].requests[i].to = "suppress"
      /\ Leads(t, i).to = "external" => Leads(t, i).donor \in Externals
  BY <1>1, Targets DEF Leads
<1>3. Needed(t, i)
  BY <1>2, DonorOfIs DEF Needed
<1>4. ASSUME DonorOf(t, i) \in Topics PROVE Leads(t, i).to = "local" /\ Leads(t, i).donor = DonorOf(t, i)
  BY <1>2, <1>4, DonorOfIs, HelpTopicsAreOthers
<1> QED
  BY <1>3, <1>4, DonorsAre

\* What the memos already say stays.
MemosGrow ==
  /\ \A t \in DOMAIN memo : t \in DOMAIN memo' /\ memo'[t] = memo[t]
  /\ \A t, i : Answered(t, i) => Answered(t, i)' /\ DonorOf(t, i)' = DonorOf(t, i)

\* Whatever is due to the topic is there: its donors, and the answers.
Settled(t) ==
  \/ OnCycle(t)
  \/ /\ DonorsOf(edges, t) \subseteq DOMAIN memo
     /\ \A i \in DOMAIN pkg[t].requests : Needed(t, i) => Answered(t, i)

\* A topic is about to be filled: its donors are found, and resolved.
Served(t) ==
  /\ Analysed /\ ExternalInv /\ FetchInv /\ t \in Topics
  /\ current = t /\ DOMAIN donors = DOMAIN normalized[t] /\ DonorsOf(edges, t) \subseteq DOMAIN memo

\* A topic is resolved already, is one of a cycle, or is filled.
MemoStep ==
  /\ Analysed /\ UNCHANGED <<pkg, edges>> /\ MemosGrow
  /\ \A t \in DOMAIN memo' : t \in Topics /\ Settled(t)
  /\ \A t \in DOMAIN memo' :
       \/ t \in DOMAIN memo
       \/ OnCycle(t) /\ memo'[t] = LocalOnly(t)
       \/ ~OnCycle(t) /\ ResolveTopic(t) /\ Served(t)

\* A topic that is resolved has what is due to it.
LEMMA ResolvedAreSettled ==
  ASSUME Analysed, OrderInv, FetchInv, NEW t \in DOMAIN memo
  PROVE  t \in Topics /\ Settled(t)
  BY DEF OrderInv, FetchInv, Analysed, Settled

\* And so has one about to be filled.
LEMMA ServedIs ==
  ASSUME SceneInv, StageInv, OrderInv, ExternalInv, FetchInv, NEW t \in Topics,
         ResolveTopic(t)
  PROVE  Served(t) /\ ~OnCycle(t) /\ Settled(t) /\ t \notin DOMAIN memo
<1>1. current = t /\ DOMAIN donors = DOMAIN normalized[t] /\ t # Nobody
  BY NumberAssumption DEF ResolveTopic, Topics, Nobody
<1>2. Analysed /\ t \notin DOMAIN memo /\ ~OnCycle(t) /\ DonorsOf(edges, t) \subseteq DOMAIN memo
  BY <1>1 DEF StageInv, OrderInv, Analysed
<1>3. ASSUME NEW i \in DOMAIN pkg[t].requests, Needed(t, i) PROVE Answered(t, i)
  <2>1. PICK j \in DOMAIN normalized[t] :
          PrepareTarget(pkg[t].requests[j]) = PrepareTarget(pkg[t].requests[i])
    BY <1>2, <1>3, KeptAlike DEF Analysed
  <2>2. Answered(t, j)
    BY <1>1, <2>1 DEF FetchInv
  <2> QED
    BY <2>1, <2>2 DEF Answered
<1> QED
  BY <1>1, <1>2, <1>3 DEF Served, Settled

\* A step leaves the topics resolved as they are and adds settled ones.
LEMMA MemoSteps ==
  ASSUME SceneInv, StageInv, OrderInv, ExternalInv, FetchInv, [Next]_vars
  PROVE  (DOMAIN memo = {} /\ DOMAIN memo' = {} /\ UNCHANGED pkg) \/ MemoStep
<1>1. UNCHANGED <<pkg, policy>>
  BY PackageKept
<1>2. ASSUME UNCHANGED externalMemo
      PROVE  \A t, i : DonorOf(t, i)' = DonorOf(t, i) /\ Answered(t, i)' = Answered(t, i)
  BY <1>1, <1>2, AnswersStay
<1>3. CASE pc \in {"prepare", "graph"} /\ UNCHANGED memo
  BY <1>1, <1>3 DEF StageInv
<1>4. ASSUME Analysed, UNCHANGED <<edges, memo>>, MemosGrow PROVE MemoStep
  BY <1>1, <1>4, ResolvedAreSettled DEF MemoStep
<1>5. CASE Analysed /\ UNCHANGED <<edges, memo, externalMemo>>
  <2>1. MemosGrow
    BY <1>2, <1>5 DEF MemosGrow
  <2> QED
    BY <1>4, <1>5, <2>1
<1>6. CASE \E C \in waiting : RecoverCycle(C)
  <2>1. PICK C \in waiting : RecoverCycle(C)
    BY <1>6
  <2>2. /\ pc = "cycles" /\ UNCHANGED <<edges, externalMemo>> /\ Analysed
        /\ memo' = [t \in DOMAIN memo \cup C |-> IF t \in C THEN LocalOnly(t) ELSE memo[t]]
    BY <2>1 DEF RecoverCycle, Analysed
  <2>3. \A t \in C : t \in Topics /\ OnCycle(t) /\ t \notin DOMAIN memo
    BY <2>1, <2>2, Parts DEF OrderInv, OnCycle
  <2>4. MemosGrow
    BY <1>2, <2>2, <2>3 DEF MemosGrow
  <2>5. \A t \in DOMAIN memo' : t \in Topics /\ Settled(t)
    BY <2>2, <2>3, ResolvedAreSettled DEF Settled
  <2>6. \A t \in DOMAIN memo' : t \in DOMAIN memo \/ (OnCycle(t) /\ memo'[t] = LocalOnly(t))
    BY <2>2, <2>3
  <2> QED
    BY <1>1, <2>2, <2>4, <2>5, <2>6 DEF MemoStep
<1>7. CASE \E t \in Topics : ResolveTopic(t)
  <2>1. PICK t \in Topics : ResolveTopic(t)
    BY <1>7
  <2>2. Served(t) /\ ~OnCycle(t) /\ Settled(t) /\ t \notin DOMAIN memo
    BY <2>1, ServedIs
  <2>3. /\ DOMAIN memo' = DOMAIN memo \cup {t} /\ \A u \in DOMAIN memo : memo'[u] = memo[u]
        /\ UNCHANGED <<edges, externalMemo>>
    BY <2>1, <2>2, Zenon DEF ResolveTopic
  <2>4. MemosGrow /\ Analysed
    BY <1>2, <2>2, <2>3 DEF MemosGrow, Served
  <2>5. \A u \in DOMAIN memo' : u \in Topics /\ Settled(u)
    BY <2>2, <2>3, <2>4, ResolvedAreSettled DEF Served
  <2>6. \A u \in DOMAIN memo' :
          u \in DOMAIN memo \/ (~OnCycle(u) /\ ResolveTopic(u) /\ Served(u))
    BY <2>1, <2>2, <2>3
  <2> QED
    BY <1>1, <2>3, <2>4, <2>5, <2>6 DEF MemoStep
<1>8. CASE Fetch
  <2>1. PICK i \in DOMAIN normalized[current] : Looked(i)
    BY <1>8, LookupFinds, Zenon DEF Fetch
  <2>2. Analysed /\ UNCHANGED <<edges, memo>>
    BY <1>8, FetchLeaves
  <2>3. MemosGrow
    BY <2>1, <2>2 DEF MemosGrow, Looked
  <2> QED
    BY <1>4, <2>2, <2>3
<1>9. CASE Prepare \/ Analyse
  BY <1>3, <1>9 DEF Prepare, Analyse
<1>10. CASE EndCycles \/ Return
  BY <1>5, <1>10 DEF EndCycles, Return, Analysed
<1>11. CASE (\E C \in waiting : PassCycle(C)) \/ (\E t \in Topics : StartTopic(t))
  BY <1>5, <1>11 DEF PassCycle, StartTopic, Analysed
<1>12. CASE UNCHANGED vars
  BY <1>3, <1>5, <1>12 DEF vars, StageInv, Analysed
<1> QED
  BY <1>6, <1>7, <1>8, <1>9, <1>10, <1>11, <1>12 DEF Next

\* What a settled topic is given is settled with it.
LEMMA GiversStay ==
  ASSUME Analysed, UNCHANGED <<pkg, edges>>, MemosGrow, NEW t \in Topics, ~OnCycle(t), Settled(t),
         NEW f
  PROVE  /\ Givers(t, f)' = Givers(t, f)
         /\ \A i \in Givers(t, f) : /\ DonorOf(t, i)' = DonorOf(t, i)
                                    /\ Content(DonorOf(t, i))' = Content(DonorOf(t, i))
<1> DEFINE eff(i) == pkg[t].requests[i].fields \ Suppressed(pkg[t].requests)
<1>1. ASSUME NEW i \in DOMAIN pkg[t].requests, f \in eff(i)
      PROVE  DonorOf(t, i)' = DonorOf(t, i)
  <2>1. CASE pkg[t].requests[i].to # "suppress"
    BY <1>1, <2>1 DEF MemosGrow, Needed, Settled
  <2>2. CASE pkg[t].requests[i].to = "suppress"
    <3>1. IsRequest(pkg[t].requests[i])
      BY PositionsAreNat DEF Analysed
    <3>2. Leads(t, i).to = "suppress"
      BY <2>2, <3>1, Targets DEF Leads
    <3> QED
      BY <3>2, DonorOfIs DEF MemosGrow
  <2> QED
    BY <2>1, <2>2
<1>2. Givers(t, f)' = Givers(t, f)
  BY <1>1 DEF Givers
<1>3. ASSUME NEW i \in Givers(t, f)
      PROVE  /\ DonorOf(t, i)' = DonorOf(t, i)
             /\ Content(DonorOf(t, i))' = Content(DonorOf(t, i))
  <2>1. DonorOf(t, i)' = DonorOf(t, i)
    BY <1>1 DEF Givers
  <2>2. DonorOf(t, i) \in Topics => DonorOf(t, i) \in DOMAIN memo
    BY GiversAreNeeded DEF Givers, Settled
  <2> QED
    BY <2>1, <2>2 DEF Content, MemosGrow
<1> QED
  BY <1>2, <1>3

\* So what is due to a topic stays when its donors are there.
LEMMA DueStays ==
  ASSUME Analysed, UNCHANGED <<pkg, edges>>, MemosGrow, NEW t \in Topics, Settled(t)
  PROVE  \A f : Due(t, f)' = Due(t, f)
<1> SUFFICES ASSUME NEW f PROVE Due(t, f)' = Due(t, f)
  OBVIOUS
<1>0. OnCycle(t)' = OnCycle(t)
  BY GraphStays
<1>1. CASE OnCycle(t)
  BY <1>0, <1>1 DEF Due
<1>2. CASE ~OnCycle(t)
  <2>1. /\ Givers(t, f)' = Givers(t, f)
        /\ \A i \in Givers(t, f) : /\ DonorOf(t, i)' = DonorOf(t, i)
                                   /\ Content(DonorOf(t, i))' = Content(DonorOf(t, i))
    BY <1>2, GiversStay
  <2>2. HaveField(t, f)' = HaveField(t, f)
    BY <2>1 DEF HaveField
  <2>3. HaveField(t, f) # {} => Min(HaveField(t, f)) \in Givers(t, f)
    <3>1. HaveField(t, f) \subseteq Nat
      BY PositionsAreNat DEF HaveField, Givers, Analysed
    <3> QED
      BY <3>1, MinIsLeast DEF HaveField
  <2>4. HaveField(t, f) # {} =>
          Content(DonorOf(t, Min(HaveField(t, f))))' = Content(DonorOf(t, Min(HaveField(t, f))))
    BY <2>1, <2>2, <2>3
  <2> QED
    BY <1>0, <2>2, <2>4, Zenon DEF Due
<1> QED
  BY <1>1, <1>2

\* What a topic off the cycles is given is what is due to it.
LEMMA MergedIsDue ==
  ASSUME Analysed, FetchInv, NEW t \in Topics, current = t, ~OnCycle(t),
         DOMAIN donors = DOMAIN normalized[t], NEW f
  PROVE  MergeProse(t, f) = Due(t, f)
<1> DEFINE G == {k \in Giving(t, f) : Content(donors[k]).prose[f] # Nobody}
           H == HaveField(t, f)
<1>0. current # Nobody
  BY NumberAssumption DEF Topics, Nobody
<1>1. ASSUME NEW k \in DOMAIN donors
      PROVE  /\ donors[k] = DonorOf(t, k) /\ k \in DOMAIN pkg[t].requests
             /\ normalized[t][k].effective = pkg[t].requests[k].fields \ Suppressed(pkg[t].requests)
  BY <1>0, NormalizedIs DEF FetchInv, Analysed
<1>2. G = {k \in H : k \in DOMAIN donors}
  BY <1>1 DEF Giving, HaveField, Givers
<1>3. H \subseteq Nat
  BY PositionsAreNat DEF HaveField, Givers, Analysed
<1>4. ASSUME H # {} PROVE Min(H) \in G
  <2> DEFINE i == Min(H)
  <2>1. i \in H /\ \A j \in H : i <= j
    BY <1>3, <1>4, MinIsLeast
  <2>2. i \in DOMAIN pkg[t].requests /\ f \in pkg[t].requests[i].fields \ Suppressed(pkg[t].requests)
        /\ DonorOf(t, i) # Nobody
    BY <2>1 DEF HaveField, Givers
  <2> HIDE DEF i
  <2>3. Needed(t, i)
    BY <2>2, GiversAreNeeded
  <2>4. PICK j \in DOMAIN normalized[t] :
          /\ j <= i /\ j \in DOMAIN pkg[t].requests
          /\ PrepareTarget(pkg[t].requests[j]) = PrepareTarget(pkg[t].requests[i])
          /\ pkg[t].requests[j].fields = pkg[t].requests[i].fields
    BY <2>2, <2>3, KeptAlike DEF Analysed
  <2>5. DonorOf(t, j) = DonorOf(t, i)
    BY <2>4 DEF DonorOf
  <2>6. j \in H
    BY <2>1, <2>2, <2>4, <2>5 DEF HaveField, Givers
  <2>7. j = i
    BY <1>3, <2>1, <2>4, <2>6
  <2> QED
    BY <1>2, <2>1, <2>4, <2>7 DEF i
<1>5. ASSUME H # {} PROVE Min(G) = Min(H) /\ G # {}
  <2>1. Min(H) \in G /\ G \subseteq H /\ \A j \in H : Min(H) <= j
    BY <1>2, <1>3, <1>4, <1>5, MinIsLeast
  <2>2. G \subseteq Nat /\ G # {}
    BY <1>3, <2>1
  <2>3. Min(G) \in G /\ \A j \in G : Min(G) <= j
    BY <2>2, MinIsLeast
  <2>4. Min(G) \in Nat /\ Min(H) \in Nat /\ Min(G) <= Min(H) /\ Min(H) <= Min(G)
    BY <1>3, <2>1, <2>2, <2>3
  <2> QED
    BY <2>2, <2>4
<1>6. CASE H = {}
  <2>1. G = {}
    BY <1>2, <1>6
  <2> QED
    BY <1>6, <2>1, Zenon DEF MergeProse, Due
<1>7. CASE H # {}
  <2>1. donors[Min(G)] = DonorOf(t, Min(H))
    BY <1>1, <1>2, <1>4, <1>5, <1>7
  <2> QED
    BY <1>5, <1>7, <2>1, Zenon DEF MergeProse, Due
<1> QED
  BY <1>6, <1>7

\* Each field stays that of the first donor that has it.
LEMMA ProseStays ==
  SceneInv /\ StageInv /\ OrderInv /\ ExternalInv /\ FetchInv /\ ProseComesFromFirstDonor
  /\ [Next]_vars => ProseComesFromFirstDonor'
<1> SUFFICES ASSUME SceneInv, StageInv, OrderInv, ExternalInv, FetchInv, ProseComesFromFirstDonor,
                    [Next]_vars
             PROVE  ProseComesFromFirstDonor'
  OBVIOUS
<1>1. CASE DOMAIN memo' = {}
  BY <1>1, ProseIsDueNext
<1>2. CASE MemoStep
  <2> SUFFICES ASSUME NEW t \in DOMAIN memo', NEW f \in Fields
               PROVE  memo'[t].prose[f] = Due(t, f)'
    BY ProseIsDueNext
  <2>1. t \in Topics /\ Due(t, f)' = Due(t, f)
    BY <1>2, DueStays DEF MemoStep
  <2>2. CASE t \in DOMAIN memo
    BY <1>2, <2>1, <2>2, ProseIsDue DEF MemoStep, MemosGrow
  <2>3. CASE OnCycle(t) /\ memo'[t] = LocalOnly(t)
    <3>1. LocalOnly(t).prose[f] = IF f \in pkg[t].own THEN t ELSE Nobody
      BY DEF LocalOnly
    <3> QED
      BY <2>1, <2>3, <3>1 DEF Due
  <2>4. CASE ~OnCycle(t) /\ ResolveTopic(t) /\ Served(t)
    <3>1. memo'[t].prose = [g \in Fields |-> MergeProse(t, g)]
      BY <2>4, Zenon DEF ResolveTopic
    <3>2. MergeProse(t, f) = Due(t, f)
      BY <2>4, MergedIsDue DEF Served
    <3> QED
      BY <2>1, <3>1, <3>2
  <2> QED
    BY <1>2, <2>2, <2>3, <2>4 DEF MemoStep
<1> QED
  BY <1>1, <1>2, MemoSteps

-----------------------------------------------------------------------------
(* Folds over lists *)

\* A list of things of one set, whatever they are.
LEMMA ListIs ==
  ASSUME NEW l
  PROVE  /\ IsList(l) <=> \E n \in Nat : l = [i \in 1 .. n |-> l[i]]
         /\ \A S : l \in Seq(S) => IsList(l) /\ ToSet(l) \subseteq S
         /\ \A S : IsList(l) /\ ToSet(l) \subseteq S => l \in Seq(S)
         /\ IsList(l) => Len(l) \in Nat /\ DOMAIN l = 1 .. Len(l)
         /\ ToSet(l) = {l[i] : i \in DOMAIN l}
<1>1. ToSet(l) = {l[i] : i \in DOMAIN l} /\ Range(l) = ToSet(l)
  BY DEF ToSet, Range
<1>2. ASSUME NEW n \in Nat, l = [i \in 1 .. n |-> l[i]]
      PROVE  IsList(l)
  <2>1. l \in [1 .. n -> Range(l)]
    BY <1>1, <1>2
  <2> QED
    BY <2>1, SeqDef DEF IsList
<1>3. IsList(l) => \E n \in Nat : l = [i \in 1 .. n |-> l[i]]
  BY SeqDef DEF IsList
<1>4. ASSUME NEW S, l \in Seq(S) PROVE IsList(l) /\ ToSet(l) \subseteq S
  <2>1. PICK n \in Nat : l \in [1 .. n -> S]
    BY <1>4, SeqDef
  <2> QED
    BY <1>1, <1>2, <2>1
<1>5. ASSUME NEW S, IsList(l), ToSet(l) \subseteq S PROVE l \in Seq(S)
  <2>1. PICK n \in Nat : l \in [1 .. n -> Range(l)]
    BY <1>5, SeqDef DEF IsList
  <2>2. l \in [1 .. n -> S]
    BY <1>1, <1>5, <2>1
  <2> QED
    BY <2>2, SeqDef
<1>6. IsList(l) => Len(l) \in Nat /\ DOMAIN l = 1 .. Len(l)
  BY LenProperties DEF IsList
<1> QED
  BY <1>1, <1>2, <1>3, <1>4, <1>5, <1>6

-----------------------------------------------------------------------------
(* Sections *)

\* Adding a section to a list.
LEMMA AddSectionIs ==
  ASSUME NEW S, NEW secs \in Seq(S), NEW s \in S
  PROVE  /\ AddSection(secs, s) \in Seq(S)
         /\ s.key \in Keys(secs) => AddSection(secs, s) = secs
         /\ s.key \notin Keys(secs) =>
              /\ Len(AddSection(secs, s)) = Len(secs) + 1
              /\ \A i \in 1 .. Len(secs) : AddSection(secs, s)[i] = secs[i]
              /\ AddSection(secs, s)[Len(secs) + 1] = s
  BY DEF AddSection

\* The fold over a list of sections.
LEMMA AddSectionsSteps ==
  ASSUME NEW S, NEW secs \in Seq(S), NEW more \in Seq(S)
  PROVE  \E added \in [0 .. Len(more) -> Seq(S)] :
           /\ added[0] = secs /\ AddSections(secs, more) = added[Len(more)]
           /\ \A n \in 1 .. Len(more) : added[n] = AddSection(added[n - 1], more[n])
<1> DEFINE N == Len(more)
           R == Seq(S)
           F == [p \in R \X (1 .. N) |-> AddSection(p[1], more[p[2]])]
           Is(g) == g = [n \in 0 .. N |-> IF n = 0 THEN secs ELSE AddSection(g[n - 1], more[n])]
<1>1. N \in Nat /\ \A n \in 1 .. N : more[n] \in S
  BY LenProperties
<1>2. F \in Steps(R, N) /\ secs \in R
  BY <1>1, AddSectionIs DEF Steps
<1>3. PICK g \in [0 .. N -> R] :
        g[0] = secs /\ \A n \in 1 .. N : g[n] = F[<<g[n - 1], n>>]
  <2> HIDE DEF F, N, R
  <2>1. \E g : IsFold(g, R, N, secs, F)
    BY <1>1, <1>2, FoldExists
  <2> QED
    BY <2>1 DEF IsFold
<1>4. ASSUME NEW n \in 1 .. N PROVE g[n] = AddSection(g[n - 1], more[n])
  <2>1. n - 1 \in 0 .. N
    BY <1>1
  <2>2. g[n - 1] \in R
    BY <1>3, <2>1
  <2> QED
    BY <1>3, <2>2
<1>5. Is(g)
  <2>1. \A n \in 0 .. N : g[n] = IF n = 0 THEN secs ELSE AddSection(g[n - 1], more[n])
    BY <1>1, <1>3, <1>4
  <2>2. g = [n \in 0 .. N |-> g[n]]
    BY <1>3
  <2> QED
    BY <2>1, <2>2
<1> DEFINE a == CHOOSE h : Is(h)
<1>6. Is(a)
  BY <1>5
<1>7. AddSections(secs, more) = a[N]
  BY DEF AddSections
<1> HIDE DEF a
<1>8. a[0] = secs /\ \A n \in 1 .. N : a[n] = AddSection(a[n - 1], more[n])
  BY <1>1, <1>6
<1>9. \A n \in 0 .. N : a[n] \in Seq(S)
  <2> DEFINE K == {n \in 0 .. N : a[n] \in Seq(S)}
  <2>1. 0 \in K
    BY <1>1, <1>8
  <2>2. \A n \in 1 .. N : n - 1 \in K => n \in K
    <3> SUFFICES ASSUME NEW n \in 1 .. N, a[n - 1] \in Seq(S) PROVE n \in 0 .. N /\ a[n] \in Seq(S)
      OBVIOUS
    <3>1. a[n] = AddSection(a[n - 1], more[n]) /\ more[n] \in S
      BY <1>1, <1>8
    <3>2. AddSection(a[n - 1], more[n]) \in Seq(S)
      BY <3>1, AddSectionIs
    <3> QED
      BY <1>1, <3>1, <3>2
  <2>3. \A n \in 0 .. N : n \in K
    <3> HIDE DEF K, N
    <3> QED
      BY <1>1, <2>1, <2>2, UpToBound, Zenon
  <2> QED
    BY <2>3
<1>10. a \in [0 .. N -> Seq(S)]
  <2>1. a = [n \in 0 .. N |-> a[n]]
    BY <1>6
  <2> QED
    BY <1>9, <2>1
<1> QED
  BY <1>7, <1>8, <1>10

\* No two sections of a list have one title.
Titles(secs) == \A i, j \in DOMAIN secs : secs[i].key = secs[j].key => i = j
\* The first section of its title in a list.
IsFirstOf(more, s) == \E i \in DOMAIN more : more[i] = s /\ \A j \in 1 .. i - 1 : more[j].key # s.key

\* Sections are added after those there are, the first of each title only.
LEMMA SectionsAdded ==
  ASSUME NEW S, NEW secs \in Seq(S), NEW more \in Seq(S), Titles(secs)
  PROVE  LET all == AddSections(secs, more) IN
         /\ all \in Seq(S) /\ Titles(all)
         /\ Keys(all) = Keys(secs) \cup Keys(more) /\ ToSet(secs) \subseteq ToSet(all)
         /\ \A s \in ToSet(all) : s \in ToSet(secs) \/ (s.key \notin Keys(secs) /\ IsFirstOf(more, s))
<1> DEFINE N == Len(more)
<1>1. PICK added \in [0 .. N -> Seq(S)] :
        /\ added[0] = secs /\ AddSections(secs, more) = added[N]
        /\ \A n \in 1 .. N : added[n] = AddSection(added[n - 1], more[n])
  BY AddSectionsSteps
<1>2. N \in Nat /\ \A n \in 1 .. N : more[n] \in S
  BY LenProperties
<1> DEFINE KeysTo(n) == {more[i].key : i \in 1 .. n}
           Good(n) ==
             /\ added[n] \in Seq(S) /\ Titles(added[n])
             /\ Keys(added[n]) = Keys(secs) \cup KeysTo(n)
             /\ ToSet(secs) \subseteq ToSet(added[n])
             /\ \A s \in ToSet(added[n]) : s \in ToSet(secs)
                  \/ (s.key \notin Keys(secs) /\ \E i \in 1 .. n :
                        more[i] = s /\ \A j \in 1 .. i - 1 : more[j].key # s.key)
           K == {n \in 0 .. N : Good(n)}
<1>3. Good(0)
  <2>1. 1 .. 0 = {} /\ KeysTo(0) = {}
    OBVIOUS
  <2> QED
    BY <1>1, <1>2, <2>1
<1>4. ASSUME NEW n \in 1 .. N, Good(n - 1) PROVE Good(n)
  <2> DEFINE old == added[n - 1]
             new == added[n]
             s == more[n]
  <2>1. new = AddSection(old, s) /\ old \in Seq(S) /\ s \in S /\ new \in Seq(S) /\ n \in Nat
    BY <1>1, <1>2, <1>4
  <2>2. KeysTo(n) = KeysTo(n - 1) \cup {s.key} /\ 1 .. n - 1 \subseteq 1 .. n
    <3>1. 1 .. n = (1 .. n - 1) \cup {n}
      BY <2>1
    <3> QED
      BY <3>1
  <2> HIDE DEF KeysTo
  <2>3. CASE s.key \in Keys(old)
    <3>1. new = old
      BY <2>1, <2>3 DEF AddSection
    <3>2. Keys(new) = Keys(secs) \cup KeysTo(n)
      BY <1>4, <2>2, <2>3, <3>1
    <3> QED
      BY <1>4, <2>1, <2>2, <3>1, <3>2
  <2>4. CASE s.key \notin Keys(old)
    <3>1. /\ DOMAIN old = 1 .. Len(old) /\ Len(old) \in Nat
          /\ DOMAIN new = (1 .. Len(old)) \cup {Len(old) + 1}
          /\ \A i \in 1 .. Len(old) : new[i] = old[i]
          /\ new[Len(old) + 1] = s
      <4>1. DOMAIN new = 1 .. Len(new) /\ DOMAIN old = 1 .. Len(old) /\ Len(old) \in Nat
        BY <2>1, LenProperties
      <4>2. Len(new) = Len(old) + 1 /\ new[Len(old) + 1] = s
            /\ \A i \in 1 .. Len(old) : new[i] = old[i]
        <5>1. new = Append(old, s)
          BY <2>1, <2>4 DEF AddSection
        <5> HIDE DEF new, old, s
        <5> QED
          BY <2>1, <5>1, AppendProperties
      <4> QED
        BY <4>1, <4>2
    <3>2. ToSet(new) = ToSet(old) \cup {s}
      <4>1. ToSet(new) = {new[i] : i \in DOMAIN new} /\ ToSet(old) = {old[i] : i \in DOMAIN old}
        BY ListIs
      <4> HIDE DEF new, old, s
      <4> QED
        BY <3>1, <4>1
    <3>3. Keys(new) = Keys(old) \cup {s.key}
      BY <3>2 DEF Keys
    <3>4. Titles(new)
      <4>1. \A i \in DOMAIN old : old[i].key # s.key
        BY <2>4, ListIs DEF Keys
      <4> QED
        BY <1>4, <3>1, <4>1 DEF Titles
    <3>5. ASSUME NEW i \in 1 .. n - 1 PROVE more[i].key # s.key
      BY <1>4, <2>4, <3>5 DEF KeysTo
    <3>6. s.key \notin Keys(secs) /\ n \in 1 .. n
      BY <1>4, <2>1, <2>4
    <3>7. \A z \in ToSet(new) : z \in ToSet(secs)
             \/ (z.key \notin Keys(secs) /\ \E i \in 1 .. n :
                   more[i] = z /\ \A j \in 1 .. i - 1 : more[j].key # z.key)
      <4> TAKE z \in ToSet(new)
      <4>1. CASE z = s
        BY <3>5, <3>6, <4>1
      <4>2. CASE z \in ToSet(old)
        BY <1>4, <2>2, <4>2
      <4> QED
        BY <3>2, <4>1, <4>2
    <3> QED
      BY <1>4, <2>1, <2>2, <3>2, <3>3, <3>4, <3>7
  <2> QED
    BY <2>3, <2>4
<1> HIDE DEF Good
<1>5. 0 \in K /\ \A n \in 1 .. N : n - 1 \in K => n \in K
  BY <1>2, <1>3, <1>4
<1>6. \A n \in 0 .. N : n \in K
  <2> HIDE DEF K, N
  <2> QED
    BY <1>2, <1>5, UpToBound, Zenon
<1>7. Good(N) /\ DOMAIN more = 1 .. N
  BY <1>2, <1>6, LenProperties
<1>8. Keys(more) = KeysTo(N)
  BY <1>7, ListIs DEF Keys
<1>9. \A s : (\E i \in 1 .. N : more[i] = s /\ \A j \in 1 .. i - 1 : more[j].key # s.key)
              => IsFirstOf(more, s)
  BY <1>7 DEF IsFirstOf
<1> QED
  BY <1>1, <1>7, <1>8, <1>9 DEF Good

\* The fold over the lists of the requests.
LEMMA AddListsSteps ==
  ASSUME NEW S, NEW secs \in Seq(S), Titles(secs), NEW lists, IsList(lists),
         \A n \in DOMAIN lists : lists[n] \in Seq(S)
  PROVE  \E added \in [0 .. Len(lists) -> {l \in Seq(S) : Titles(l)}] :
           /\ added[0] = secs /\ AddLists(secs, lists) = added[Len(lists)]
           /\ \A n \in 1 .. Len(lists) : added[n] = AddSections(added[n - 1], lists[n])
<1> DEFINE N == Len(lists)
           R == {l \in Seq(S) : Titles(l)}
           F == [p \in R \X (1 .. N) |-> AddSections(p[1], lists[p[2]])]
           Is(g) == g = [n \in 0 .. N |-> IF n = 0 THEN secs ELSE AddSections(g[n - 1], lists[n])]
<1>1. N \in Nat /\ \A n \in 1 .. N : lists[n] \in Seq(S)
  BY ListIs
<1>2. F \in Steps(R, N) /\ secs \in R
  BY <1>1, SectionsAdded DEF Steps
<1>3. PICK g \in [0 .. N -> R] :
        g[0] = secs /\ \A n \in 1 .. N : g[n] = F[<<g[n - 1], n>>]
  <2> HIDE DEF F, N, R
  <2>1. \E g : IsFold(g, R, N, secs, F)
    BY <1>1, <1>2, FoldExists
  <2> QED
    BY <2>1 DEF IsFold
<1>4. ASSUME NEW n \in 1 .. N PROVE g[n] = AddSections(g[n - 1], lists[n])
  <2>1. n - 1 \in 0 .. N
    BY <1>1
  <2>2. g[n - 1] \in R
    BY <1>3, <2>1
  <2> QED
    BY <1>3, <2>2
<1>5. Is(g)
  <2>1. \A n \in 0 .. N : g[n] = IF n = 0 THEN secs ELSE AddSections(g[n - 1], lists[n])
    BY <1>1, <1>3, <1>4
  <2>2. g = [n \in 0 .. N |-> g[n]]
    BY <1>3
  <2> QED
    BY <2>1, <2>2
<1> DEFINE a == CHOOSE h : Is(h)
<1>6. Is(a)
  BY <1>5
<1>7. AddLists(secs, lists) = a[N]
  BY DEF AddLists
<1> HIDE DEF a
<1>8. a[0] = secs /\ \A n \in 1 .. N : a[n] = AddSections(a[n - 1], lists[n])
  BY <1>1, <1>6
<1>9. \A n \in 0 .. N : a[n] \in R
  <2> DEFINE K == {n \in 0 .. N : a[n] \in R}
  <2>1. 0 \in K
    BY <1>1, <1>2, <1>8
  <2>2. \A n \in 1 .. N : n - 1 \in K => n \in K
    <3> SUFFICES ASSUME NEW n \in 1 .. N, a[n - 1] \in R PROVE n \in 0 .. N /\ a[n] \in R
      OBVIOUS
    <3>1. a[n] = AddSections(a[n - 1], lists[n]) /\ lists[n] \in Seq(S)
      BY <1>1, <1>8
    <3>2. AddSections(a[n - 1], lists[n]) \in R
      BY <3>1, SectionsAdded
    <3> QED
      BY <1>1, <3>1, <3>2
  <2>3. \A n \in 0 .. N : n \in K
    <3> HIDE DEF K, N
    <3> QED
      BY <1>1, <2>1, <2>2, UpToBound, Zenon
  <2> QED
    BY <2>3
<1>10. a \in [0 .. N -> R]
  <2>1. a = [n \in 0 .. N |-> a[n]]
    BY <1>6
  <2> QED
    BY <1>9, <2>1
<1> QED
  BY <1>7, <1>8, <1>10

\* Lists of sections are added one after the other: a section is taken from the
\* first list that has one of its title.
LEMMA ListsAdded ==
  ASSUME NEW S, NEW secs \in Seq(S), Titles(secs), NEW lists, IsList(lists),
         \A n \in DOMAIN lists : lists[n] \in Seq(S)
  PROVE  LET all == AddLists(secs, lists) IN
         /\ all \in Seq(S) /\ Titles(all)
         /\ Keys(all) = Keys(secs) \cup UNION {Keys(lists[n]) : n \in DOMAIN lists}
         /\ \A s \in ToSet(all) : s \in ToSet(secs)
              \/ (s.key \notin Keys(secs) /\ \E n \in DOMAIN lists :
                    IsFirstOf(lists[n], s) /\ \A m \in 1 .. n - 1 : s.key \notin Keys(lists[m]))
<1> DEFINE N == Len(lists)
           R == {l \in Seq(S) : Titles(l)}
<1>1. PICK added \in [0 .. N -> R] :
        /\ added[0] = secs /\ AddLists(secs, lists) = added[N]
        /\ \A n \in 1 .. N : added[n] = AddSections(added[n - 1], lists[n])
  BY AddListsSteps
<1>2. N \in Nat /\ DOMAIN lists = 1 .. N
  BY ListIs
<1> DEFINE KeysTo(n) == UNION {Keys(lists[i]) : i \in 1 .. n}
           Good(n) ==
             /\ Keys(added[n]) = Keys(secs) \cup KeysTo(n)
             /\ \A s \in ToSet(added[n]) : s \in ToSet(secs)
                  \/ (s.key \notin Keys(secs) /\ \E i \in 1 .. n :
                        IsFirstOf(lists[i], s) /\ \A m \in 1 .. i - 1 : s.key \notin Keys(lists[m]))
           K == {n \in 0 .. N : Good(n)}
<1>3. Good(0)
  <2>1. 1 .. 0 = {} /\ KeysTo(0) = {}
    OBVIOUS
  <2> QED
    BY <1>1, <1>2, <2>1
<1>4. ASSUME NEW n \in 1 .. N, Good(n - 1) PROVE Good(n)
  <2> DEFINE old == added[n - 1]
             new == added[n]
  <2>1. n - 1 \in 0 .. N /\ n \in Nat /\ n \in 1 .. n
    BY <1>2
  <2>2. new = AddSections(old, lists[n]) /\ old \in Seq(S) /\ Titles(old) /\ lists[n] \in Seq(S)
    BY <1>1, <1>2, <2>1
  <2>3. 1 .. n = (1 .. n - 1) \cup {n}
    BY <2>1
  <2>4. KeysTo(n) = KeysTo(n - 1) \cup Keys(lists[n])
    BY <2>3
  <2> HIDE DEF KeysTo
  <2>5. /\ Keys(new) = Keys(old) \cup Keys(lists[n])
        /\ \A s \in ToSet(new) : s \in ToSet(old)
                                 \/ (s.key \notin Keys(old) /\ IsFirstOf(lists[n], s))
    BY <2>2, SectionsAdded
  <2>6. Keys(new) = Keys(secs) \cup KeysTo(n)
    BY <1>4, <2>4, <2>5
  <2>7. ASSUME NEW s \in ToSet(new)
        PROVE  s \in ToSet(secs)
               \/ (s.key \notin Keys(secs) /\ \E i \in 1 .. n :
                     IsFirstOf(lists[i], s) /\ \A m \in 1 .. i - 1 : s.key \notin Keys(lists[m]))
    <3>1. CASE s \in ToSet(old)
      BY <1>4, <2>3, <3>1
    <3>2. CASE s.key \notin Keys(old) /\ IsFirstOf(lists[n], s)
      <4>1. s.key \notin Keys(secs) /\ s.key \notin KeysTo(n - 1)
        BY <1>4, <3>2
      <4>2. \A m \in 1 .. n - 1 : s.key \notin Keys(lists[m])
        BY <4>1 DEF KeysTo
      <4> QED
        BY <2>1, <3>2, <4>1, <4>2
    <3> QED
      BY <2>5, <3>1, <3>2
  <2> QED
    BY <2>6, <2>7
<1> HIDE DEF Good
<1>5. 0 \in K /\ \A n \in 1 .. N : n - 1 \in K => n \in K
  BY <1>2, <1>3, <1>4
<1>6. \A n \in 0 .. N : n \in K
  <2> HIDE DEF K, N
  <2> QED
    BY <1>2, <1>5, UpToBound, Zenon
<1>7. Good(N) /\ added[N] \in R
  BY <1>1, <1>2, <1>6
<1>8. KeysTo(N) = UNION {Keys(lists[n]) : n \in DOMAIN lists}
  BY <1>2
<1> HIDE DEF KeysTo
<1> QED
  BY <1>1, <1>2, <1>7, <1>8 DEF Good

-----------------------------------------------------------------------------
(* The sections of a topic *)

\* What a topic says itself is in lists.
LEMMA OwnLists ==
  ASSUME SceneInv, NEW t \in Topics
  PROVE  /\ IsList(pkg[t].sections) /\ IsList(pkg[t].formals) /\ IsList(pkg[t].params)
         /\ \A i, j \in DOMAIN pkg[t].params : pkg[t].params[i] \cap pkg[t].params[j] # {} => i = j
  BY ListsAssumption, Zenon DEF SceneInv

\* A donor that is not local is a help topic.
LEMMA HelpContent ==
  ASSUME Analysed, ExternalInv, NEW t \in Topics, NEW f, NEW i \in Givers(t, f),
         DonorOf(t, i) \notin Topics
  PROVE  \E e \in Externals :
           /\ DonorOf(t, i) = NumTopics + Canonical[e]
           /\ DonorOf(t, i) - NumTopics = Canonical[e]
           /\ Content(DonorOf(t, i)) = ExternalDocs[Canonical[e]]
<1> DEFINE d == DonorOf(t, i)
<1>1. IsRequest(pkg[t].requests[i])
  BY PositionsAreNat DEF Analysed, Givers
<1>2. Leads(t, i).to = "local" => Leads(t, i).donor \in Topics
  BY <1>1, Targets DEF Leads
<1>3. PICK e \in Externals : d = NumTopics + Canonical[e]
  BY <1>2, DonorOfIs DEF ExternalInv, Givers
<1>4. d - NumTopics = Canonical[e]
  <2>1. Canonical[e] \in Nat /\ NumTopics \in Nat
    BY CanonicalAssumption, NumberAssumption DEF Externals
  <2> QED
    BY <1>3, <2>1
<1>5. Content(d) = ExternalDocs[Canonical[e]]
  BY <1>4 DEF Content
<1> QED
  BY <1>3, <1>4, <1>5

\* What the donors of a topic say is in lists too.
LEMMA DonorLists ==
  ASSUME Analysed, ExternalInv, ListInv, NEW t \in Topics, DonorsOf(edges, t) \subseteq DOMAIN memo,
         NEW f, NEW i \in Givers(t, f)
  PROVE  IsList(Content(DonorOf(t, i)).sections) /\ IsList(Content(DonorOf(t, i)).params)
<1>1. CASE DonorOf(t, i) \in Topics
  BY <1>1, GiversAreNeeded DEF Givers, Content, ListInv
<1>2. CASE DonorOf(t, i) \notin Topics
  BY <1>2, HelpContent, ListsAssumption
<1> QED
  BY <1>1, <1>2

\* The sections a request offers, and its turn among the requests.
SectionsOf(t, i) == {s \in ToSet(Content(DonorOf(t, i)).sections) : Gives(t, i, s)}
Rank(t, i) ==
  IF pkg[t].requests[i].kind = "section" THEN Len(pkg[t].requests) + i ELSE i
GivenTo(t) ==
  UNION {{[at |-> Rank(t, i), sec |-> s] : s \in SectionsOf(t, i)} :
          i \in (IF OnCycle(t) THEN {} ELSE DOMAIN pkg[t].requests) \cap Givers(t, "sections")}

\* What the sections of a topic are to be, of its own and of what it is given.
AreDue(t, secs, own, given) ==
  /\ Titles(secs)
  /\ Keys(secs) = Keys(own) \cup {g.sec.key : g \in given}
  /\ \A s \in ToSet(secs) :
       IF s.key \in Keys(own) THEN s.writer = t
       ELSE \E g \in given :
              g.sec = s /\ \A h \in given : h.sec.key = s.key => g.at <= h.at

\* SectionsComeFromFirstDonor says so of every topic resolved.
LEMMA SectionsAreDue ==
  SectionsComeFromFirstDonor <=>
    \A t \in DOMAIN memo : AreDue(t, memo[t].sections, OwnSections(t), GivenTo(t))
  BY Zenon DEF SectionsComeFromFirstDonor, AreDue, GivenTo, SectionsOf, Rank, Titles

LEMMA SectionsAreDueNext ==
  SectionsComeFromFirstDonor' <=>
    \A t \in DOMAIN memo' : AreDue(t, memo'[t].sections, OwnSections(t)', GivenTo(t)')
  BY Zenon DEF SectionsComeFromFirstDonor, AreDue, GivenTo, SectionsOf, Rank, Titles

\* The first section of its title is the one at the least of its positions.
LEMMA FirstIsLeast ==
  ASSUME NEW secs, IsList(secs), NEW s, s \in ToSet(secs)
  PROVE  IsFirstOf(secs, s) <=> s = secs[Min({n \in DOMAIN secs : secs[n].key = s.key})]
<1> DEFINE same == {n \in DOMAIN secs : secs[n].key = s.key}
<1>1. PICK i \in DOMAIN secs : secs[i] = s
  BY ListIs
<1>2. DOMAIN secs = 1 .. Len(secs) /\ Len(secs) \in Nat
  BY ListIs
<1>3. same \in SUBSET Nat /\ same # {}
  BY <1>1, <1>2
<1>4. Min(same) \in same /\ \A j \in same : Min(same) <= j
  BY <1>3, MinIsLeast
<1>5. ASSUME s = secs[Min(same)] PROVE IsFirstOf(secs, s)
  <2>0. PICK m : m = Min(same)
    OBVIOUS
  <2>1. m \in same /\ \A j \in same : m <= j
    BY <1>4, <2>0
  <2>2. m \in 1 .. Len(secs) /\ m \in DOMAIN secs /\ secs[m] = s /\ m \in Nat
    <3>1. secs[m] = s
      BY <1>5, <2>0, Zenon
    <3>2. m \in DOMAIN secs
      BY <2>1
    <3> QED
      BY <1>2, <3>1, <3>2
  <2>3. ASSUME NEW j \in 1 .. m - 1 PROVE secs[j].key # s.key
    <3>1. j \in DOMAIN secs /\ j < m /\ ~ (m <= j)
      BY <1>2, <2>2, <2>3
    <3>2. j \notin same
      BY <2>1, <3>1
    <3> QED
      BY <3>1, <3>2
  <2> QED
    BY <2>2, <2>3 DEF IsFirstOf
<1>6. ASSUME IsFirstOf(secs, s) PROVE s = secs[Min(same)]
  <2>1. PICK k \in DOMAIN secs : secs[k] = s /\ \A j \in 1 .. k - 1 : secs[j].key # s.key
    BY <1>6 DEF IsFirstOf
  <2>2. k \in same /\ Min(same) <= k /\ Min(same) \in 1 .. Len(secs) /\ k \in 1 .. Len(secs)
    BY <1>2, <1>4, <2>1
  <2>3. ~ (Min(same) < k)
    BY <1>2, <1>4, <2>1, <2>2
  <2>4. Min(same) = k
    BY <1>2, <2>2, <2>3
  <2> QED
    BY <2>1, <2>4
<1> QED
  BY <1>5, <1>6

\* Every title of a list has a first section.
LEMMA TitlesHaveFirst ==
  ASSUME NEW secs, IsList(secs), NEW key \in Keys(secs)
  PROVE  \E s \in ToSet(secs) : s.key = key /\ IsFirstOf(secs, s)
<1> DEFINE same == {n \in DOMAIN secs : secs[n].key = key}
<1>1. DOMAIN secs = 1 .. Len(secs) /\ Len(secs) \in Nat
  BY ListIs
<1>2. same \in SUBSET Nat /\ same # {}
  BY <1>1, ListIs DEF Keys
<1>3. PICK k \in same : \A j \in same : k <= j
  BY <1>2, LeastExists
<1>4. secs[k] \in ToSet(secs) /\ secs[k].key = key
  BY <1>3, ListIs
<1>5. \A j \in 1 .. k - 1 : secs[j].key # key
  BY <1>1, <1>3
<1> QED
  BY <1>3, <1>4, <1>5 DEF IsFirstOf

\* A request that could give a field has one like it among the prepared, which
\* offers the same and comes no later.
LEMMA GiversAlike ==
  ASSUME Analysed, FetchInv, NEW t \in Topics, current = t, DOMAIN donors = DOMAIN normalized[t],
         NEW f, NEW i \in Givers(t, f)
  PROVE  \E j \in Giving(t, f) :
           /\ j \in DOMAIN pkg[t].requests /\ j <= i /\ DonorOf(t, j) = DonorOf(t, i)
           /\ pkg[t].requests[j].kind = pkg[t].requests[i].kind
           /\ pkg[t].requests[j].title = pkg[t].requests[i].title
           /\ pkg[t].requests[j].filtered = pkg[t].requests[i].filtered
           /\ pkg[t].requests[j].selectors = pkg[t].requests[i].selectors
<1>0. current # Nobody
  BY NumberAssumption DEF Topics, Nobody
<1>1. i \in DOMAIN pkg[t].requests /\ DonorOf(t, i) # Nobody
      /\ f \in pkg[t].requests[i].fields \ Suppressed(pkg[t].requests)
  BY DEF Givers
<1>2. Needed(t, i)
  BY <1>1, GiversAreNeeded
<1>3. PICK j \in DOMAIN pkg[t].requests :
        /\ j <= i /\ ~IsDuplicate(t, j)
        /\ PrepareTarget(pkg[t].requests[j]) = PrepareTarget(pkg[t].requests[i])
        /\ pkg[t].requests[j].to # "suppress"
        /\ pkg[t].requests[j].fields = pkg[t].requests[i].fields
        /\ pkg[t].requests[j].kind = pkg[t].requests[i].kind
        /\ pkg[t].requests[j].title = pkg[t].requests[i].title
        /\ pkg[t].requests[j].filtered = pkg[t].requests[i].filtered
        /\ pkg[t].requests[j].selectors = pkg[t].requests[i].selectors
  BY <1>1, <1>2, FirstAlike DEF Needed, Analysed
<1>4. j \in DOMAIN normalized[t]
      /\ normalized[t][j].effective = pkg[t].requests[j].fields \ Suppressed(pkg[t].requests)
  BY <1>1, <1>3, NormalizedIs DEF Needed, Analysed
<1>5. DonorOf(t, j) = DonorOf(t, i)
  BY <1>3 DEF DonorOf
<1>6. donors[j] = DonorOf(t, j)
  BY <1>0, <1>4 DEF FetchInv
<1>7. j \in Giving(t, f)
  BY <1>1, <1>3, <1>4, <1>5, <1>6 DEF Giving
<1> QED
  BY <1>3, <1>5, <1>7

\* What is merged for a request is what the request of the source gives.
LEMMA GivingIs ==
  ASSUME Analysed, FetchInv, NEW t \in Topics, current = t, DOMAIN donors = DOMAIN normalized[t],
         NEW f, NEW k \in Giving(t, f)
  PROVE  /\ k \in Givers(t, f) /\ k \in DOMAIN pkg[t].requests
         /\ donors[k] = DonorOf(t, k) /\ normalized[t][k].request = pkg[t].requests[k]
<1>0. current # Nobody
  BY NumberAssumption DEF Topics, Nobody
<1>1. k \in DOMAIN normalized[t] /\ donors[k] # Nobody /\ f \in normalized[t][k].effective
  BY DEF Giving
<1>2. /\ k \in DOMAIN pkg[t].requests /\ normalized[t][k].request = pkg[t].requests[k]
      /\ normalized[t][k].effective = pkg[t].requests[k].fields \ Suppressed(pkg[t].requests)
  BY <1>1, NormalizedIs DEF Analysed
<1>3. donors[k] = DonorOf(t, k)
  BY <1>0, <1>1 DEF FetchInv
<1> QED
  BY <1>1, <1>2, <1>3 DEF Givers

\* A list of nothing, and a list of one.
LEMMA ShortLists ==
  /\ IsList(<<>>) /\ \A s : ~IsFirstOf(<<>>, s)
  /\ \A x : IsList(<<x>>) /\ ToSet(<<x>>) = {x} /\ \A s : IsFirstOf(<<x>>, s) => s = x
<1>1. <<>> \in Seq({}) /\ DOMAIN <<>> = {}
  BY EmptySeq
<1>2. IsList(<<>>) /\ \A s : ~IsFirstOf(<<>>, s)
  BY <1>1, ListIs DEF IsFirstOf
<1>3. ASSUME NEW x
      PROVE  IsList(<<x>>) /\ ToSet(<<x>>) = {x} /\ \A s : IsFirstOf(<<x>>, s) => s = x
  <2>1. <<x>> \in Seq({x}) /\ DOMAIN <<x>> = {1} /\ <<x>>[1] = x
    OBVIOUS
  <2>2. ToSet(<<x>>) = {<<x>>[i] : i \in DOMAIN <<x>>}
    BY ListIs
  <2>3. {<<x>>[i] : i \in DOMAIN <<x>>} = {x}
    BY <2>1
  <2>4. IsList(<<x>>)
    BY <2>1, ListIs
  <2>5. \A s : IsFirstOf(<<x>>, s) => s = x
    BY <2>1 DEF IsFirstOf
  <2> QED
    BY <2>2, <2>3, <2>4, <2>5
<1> QED
  BY <1>2, <1>3

\* And they say what they say in lists.
Filling(t) == Served(t) /\ ListInv

\* What a request for all sections adds is what it offers.
LEMMA WholeIs ==
  ASSUME NEW t, Filling(t), NEW k \in DOMAIN pkg[t].requests
  PROVE  /\ IsList(Whole(t, k))
         /\ k \in Giving(t, "sections") /\ pkg[t].requests[k].kind # "section" =>
              \A s \in SectionsOf(t, k) : s.key \in Keys(Whole(t, k))
         /\ \A s : IsFirstOf(Whole(t, k), s) =>
              k \in Giving(t, "sections") /\ pkg[t].requests[k].kind # "section"
              /\ s \in SectionsOf(t, k)
<1> DEFINE secs == Content(DonorOf(t, k)).sections
<1>1. CASE k \in Giving(t, "sections") /\ pkg[t].requests[k].kind # "section"
  <2>1. k \in Givers(t, "sections") /\ Whole(t, k) = secs
    BY <1>1, GivingIs DEF Filling, Served, Whole, AsksTitle
  <2>2. IsList(secs)
    BY <2>1, DonorLists DEF Filling, Served
  <2>3. \A s \in SectionsOf(t, k) : s.key \in Keys(secs)
    BY ListIs DEF SectionsOf, Keys
  <2>4. ASSUME NEW s, IsFirstOf(secs, s) PROVE s \in SectionsOf(t, k)
    <3>1. s \in ToSet(secs)
      BY <2>4, ListIs DEF IsFirstOf
    <3>2. Gives(t, k, s)
      BY <1>1, <2>1, <2>2, <2>4, <3>1, FirstIsLeast DEF Gives
    <3> QED
      BY <3>1, <3>2 DEF SectionsOf
  <2> QED
    BY <1>1, <2>1, <2>2, <2>3, <2>4
<1>2. CASE ~(k \in Giving(t, "sections") /\ pkg[t].requests[k].kind # "section")
  <2>1. Whole(t, k) = <<>>
    BY <1>2, GivingIs DEF Filling, Served, Whole, AsksTitle
  <2>2. IsList(<<>>) /\ \A s : ~IsFirstOf(<<>>, s)
    BY ShortLists
  <2> QED
    BY <1>2, <2>1, <2>2
<1> QED
  BY <1>1, <1>2

\* And so is what a request by title adds.
LEMMA SingleIs ==
  ASSUME NEW t, Filling(t), NEW k \in DOMAIN pkg[t].requests
  PROVE  /\ IsList(Single(t, k))
         /\ k \in Giving(t, "sections") /\ pkg[t].requests[k].kind = "section" =>
              \A s \in SectionsOf(t, k) : s.key \in Keys(Single(t, k))
         /\ \A s : IsFirstOf(Single(t, k), s) =>
              k \in Giving(t, "sections") /\ pkg[t].requests[k].kind = "section"
              /\ s \in SectionsOf(t, k)
<1> DEFINE secs == Content(DonorOf(t, k)).sections
           title == pkg[t].requests[k].title
           titled == {n \in DOMAIN secs : secs[n].key = title}
<1>1. CASE k \in Giving(t, "sections") /\ pkg[t].requests[k].kind = "section"
  <2>1. /\ k \in Givers(t, "sections") /\ Titled(t, k) = titled /\ AsksTitle(t, k)
        /\ donors[k] = DonorOf(t, k)
    BY <1>1, GivingIs DEF Filling, Served, Titled, AsksTitle
  <2>2. IsList(secs)
    BY <2>1, DonorLists DEF Filling, Served
  <2>3. ASSUME NEW s \in SectionsOf(t, k) PROVE s.key = title /\ IsOne(titled)
    <3>1. Gives(t, k, s)
      BY <2>3 DEF SectionsOf
    <3>2. s.key = title /\ IsOne({n \in DOMAIN secs : secs[n].key = s.key})
      BY <1>1, <3>1 DEF Gives
    <3> QED
      BY <3>2
  <2>4. CASE IsOne(titled)
    <3>1. PICK n \in titled : titled = {n}
      BY <2>4 DEF IsOne
    <3>2. (CHOOSE m \in titled : TRUE) = n
      BY <3>1
    <3>3. Single(t, k) = <<secs[n]>>
      BY <1>1, <2>1, <2>4, <3>2, Zenon DEF Single
    <3>4. n \in DOMAIN secs /\ secs[n].key = title /\ secs[n] \in ToSet(secs)
      BY <3>1, ListIs
    <3>5. secs[n] = secs[Min(titled)]
      <4>1. \A j \in titled : n <= j
        <5>1. n \in Nat
          BY <2>2, <3>4, ListIs
        <5> QED
          BY <3>1, <5>1
      <4>2. titled \in SUBSET Nat
        BY <2>2, ListIs
      <4>3. Min(titled) \in titled
        BY <3>1, <4>2, MinIsLeast
      <4> QED
        BY <3>1, <4>3
    <3>6. Gives(t, k, secs[n])
      <4> DEFINE s == secs[n]
                 same == {m \in DOMAIN secs : secs[m].key = s.key}
      <4>1. same = titled /\ s.key = title
        BY <3>4
      <4>2. s = secs[Min(same)]
        BY <3>5, <4>1
      <4> QED
        BY <2>1, <2>4, <4>1, <4>2 DEF Gives
    <3>7. secs[n] \in SectionsOf(t, k)
      BY <3>4, <3>6 DEF SectionsOf
    <3>8. IsList(<<secs[n]>>) /\ ToSet(<<secs[n]>>) = {secs[n]}
      BY ShortLists
    <3>9. title \in Keys(<<secs[n]>>) /\ \A s : IsFirstOf(<<secs[n]>>, s) => s = secs[n]
      BY <3>4, <3>8, ShortLists DEF Keys
    <3> QED
      BY <1>1, <2>3, <3>3, <3>7, <3>8, <3>9
  <2>5. CASE ~IsOne(titled)
    <3>1. Single(t, k) = <<>>
      BY <2>1, <2>5 DEF Single
    <3>2. IsList(<<>>) /\ \A s : ~IsFirstOf(<<>>, s)
      BY ShortLists
    <3> QED
      BY <2>3, <2>5, <3>1, <3>2
  <2> QED
    BY <2>4, <2>5
<1>2. CASE ~(k \in Giving(t, "sections") /\ pkg[t].requests[k].kind = "section")
  <2>1. Single(t, k) = <<>>
    BY <1>2, GivingIs DEF Filling, Served, Single, AsksTitle
  <2>2. IsList(<<>>) /\ \A s : ~IsFirstOf(<<>>, s)
    BY ShortLists
  <2> QED
    BY <1>2, <2>1, <2>2
<1> QED
  BY <1>1, <1>2

\* A topic's own sections: the first of each title.
LEMMA LocalSections ==
  ASSUME SceneInv, NEW t \in Topics
  PROVE  LET secs == LocalOnly(t).sections IN
         /\ IsList(secs) /\ Titles(secs) /\ Keys(secs) = Keys(OwnSections(t))
         /\ \A s \in ToSet(secs) : s.writer = t
<1> DEFINE own == OwnSections(t)
           S == {[key |-> pkg[t].sections[i], writer |-> t] : i \in DOMAIN pkg[t].sections}
<1>1. DOMAIN pkg[t].sections = 1 .. Len(pkg[t].sections) /\ Len(pkg[t].sections) \in Nat
  BY OwnLists, ListIs
<1>2. own \in Seq(S)
  <2>1. own \in [1 .. Len(pkg[t].sections) -> S]
    BY <1>1 DEF OwnSections
  <2> QED
    BY <1>1, <2>1, SeqDef
<1>3. <<>> \in Seq(S) /\ Titles(<<>>) /\ Keys(<<>>) = {} /\ ToSet(<<>>) = {}
  <2>1. ToSet(<<>>) = {} /\ DOMAIN <<>> = {}
    BY EmptySeq, ListIs
  <2> QED
    BY <2>1, EmptySeq DEF Titles, Keys
<1>4. PICK none : none = <<>>
  OBVIOUS
<1> DEFINE secs == AddSections(none, own)
<1>5. LocalOnly(t).sections = secs
  BY <1>4 DEF LocalOnly
<1> HIDE DEF own, S
<1>6. secs \in Seq(S) /\ Titles(secs) /\ Keys(secs) = Keys(own)
  <2>1. none \in Seq(S) /\ Titles(none) /\ Keys(none) = {}
    BY <1>3, <1>4
  <2>2. secs \in Seq(S) /\ Titles(secs) /\ Keys(secs) = Keys(none) \cup Keys(own)
    BY <1>2, <2>1, SectionsAdded, ZenonT(30)
  <2> QED
    BY <2>1, <2>2
<1> HIDE DEF secs
<1>7. IsList(secs) /\ ToSet(secs) \subseteq S
  BY <1>6, ListIs
<1>8. \A s \in S : s.writer = t
  BY DEF S
<1> QED
  BY <1>5, <1>6, <1>7, <1>8 DEF own

\* The lists merged for a topic, by the rank of their requests.
SectionLists(t) == [k \in DOMAIN pkg[t].requests |-> Whole(t, k)]
                   \o [k \in DOMAIN pkg[t].requests |-> Single(t, k)]

\* Two lists of one length, one after the other.
LEMMA TwoLists ==
  ASSUME NEW W, NEW N \in Nat, NEW a \in Seq(W), NEW b \in Seq(W), Len(a) = N, Len(b) = N
  PROVE  /\ DOMAIN (a \o b) = 1 .. N + N
         /\ \A k \in 1 .. N : (a \o b)[k] = a[k] /\ (a \o b)[N + k] = b[k]
<1>1. DOMAIN (a \o b) = 1 .. N + N
  BY ConcatProperties, LenProperties
<1>2. ASSUME NEW k \in 1 .. N PROVE (a \o b)[k] = a[k] /\ (a \o b)[N + k] = b[k]
  <2>1. k \in 1 .. N + N /\ N + k \in 1 .. N + N /\ k <= N /\ ~ (N + k <= N) /\ N + k - N = k
    OBVIOUS
  <2> QED
    BY <2>1, ConcatProperties
<1> QED
  BY <1>1, <1>2

LEMMA ListsByRank ==
  ASSUME NEW t, Filling(t)
  PROVE  LET lists == SectionLists(t) IN
         /\ IsList(lists) /\ \A n \in DOMAIN lists : IsList(lists[n]) /\ n \in Nat
         /\ \A n \in DOMAIN lists : \A s : IsFirstOf(lists[n], s) =>
              \E k \in Giving(t, "sections") : n = Rank(t, k) /\ s \in SectionsOf(t, k)
         /\ \A k \in Giving(t, "sections") :
              Rank(t, k) \in DOMAIN lists
              /\ \A s \in SectionsOf(t, k) : s.key \in Keys(lists[Rank(t, k)])
<1> DEFINE N == Len(pkg[t].requests)
           whole == [k \in DOMAIN pkg[t].requests |-> Whole(t, k)]
           single == [k \in DOMAIN pkg[t].requests |-> Single(t, k)]
           lists == SectionLists(t)
<1>1. N \in Nat /\ DOMAIN pkg[t].requests = 1 .. N
  <2>1. PICK n \in Nat : DOMAIN pkg[t].requests = 1 .. n
    BY RequestsAreRequests DEF Filling, Served, Analysed
  <2>2. pkg[t].requests \in Seq(Range(pkg[t].requests))
    BY RequestAssumption, Zenon DEF Filling, Served, Analysed, SceneInv
  <2> QED
    BY <2>2, LenProperties
<1> HIDE DEF N
<1>2. /\ DOMAIN lists = 1 .. N + N
      /\ \A k \in 1 .. N : lists[k] = Whole(t, k) /\ lists[N + k] = Single(t, k)
  <2> DEFINE W == {Whole(t, k) : k \in 1 .. N} \cup {Single(t, k) : k \in 1 .. N}
  <2>1. whole \in [1 .. N -> W] /\ single \in [1 .. N -> W]
    BY <1>1
  <2>2. lists = whole \o single
    BY DEF SectionLists
  <2>3. \A k \in 1 .. N : whole[k] = Whole(t, k) /\ single[k] = Single(t, k)
    BY <1>1
  <2>4. whole \in Seq(W) /\ single \in Seq(W)
    BY <1>1, <2>1, SeqDef, SMTT(30)
  <2>5. Len(whole) = N /\ Len(single) = N
    BY <1>1, <2>1, <2>4, LenProperties
  <2> HIDE DEF whole, single, W, lists
  <2>6. /\ DOMAIN (whole \o single) = 1 .. N + N
        /\ \A k \in 1 .. N : /\ (whole \o single)[k] = whole[k]
                            /\ (whole \o single)[N + k] = single[k]
    BY <1>1, <2>4, <2>5, TwoLists
  <2> QED
    BY <2>2, <2>3, <2>6, Zenon
<1>3. IsList(lists)
  <2>1. lists = [n \in 1 .. N + N |-> lists[n]]
    <3>1. lists = [n \in DOMAIN lists |-> lists[n]]
      BY DEF SectionLists
    <3> QED
      BY <1>2, <3>1
  <2> QED
    BY <1>1, <2>1, ListIs
<1>4. \A k \in Giving(t, "sections") : k \in 1 .. N
  BY <1>1, GivingIs DEF Filling, Served
<1>5. ASSUME NEW n \in DOMAIN lists
      PROVE  /\ n \in Nat
             /\ \E k \in 1 .. N : \/ n = k /\ lists[n] = Whole(t, k)
                                  \/ n = N + k /\ lists[n] = Single(t, k)
  <2>1. n \in 1 .. N + N
    BY <1>2
  <2>2. CASE n <= N
    BY <1>1, <1>2, <2>1, <2>2
  <2>3. CASE ~ (n <= N)
    <3>1. n - N \in 1 .. N /\ n = N + (n - N)
      BY <1>1, <2>1, <2>3
    <3> QED
      BY <1>2, <2>1, <3>1
  <2> QED
    BY <2>2, <2>3
<1>6. ASSUME NEW n \in DOMAIN lists
      PROVE  /\ IsList(lists[n])
             /\ \A s : IsFirstOf(lists[n], s) =>
                  \E k \in Giving(t, "sections") : n = Rank(t, k) /\ s \in SectionsOf(t, k)
  BY <1>1, <1>5, WholeIs, SingleIs DEF Rank, N
<1>7. ASSUME NEW k \in Giving(t, "sections")
      PROVE  Rank(t, k) \in DOMAIN lists
             /\ \A s \in SectionsOf(t, k) : s.key \in Keys(lists[Rank(t, k)])
  <2>1. k \in 1 .. N /\ k \in 1 .. N + N /\ N + k \in 1 .. N + N
    BY <1>1, <1>4
  <2> QED
    BY <1>1, <1>2, <2>1, WholeIs, SingleIs DEF Rank, N
<1> HIDE DEF lists
<1> QED
  BY <1>3, <1>5, <1>6, <1>7 DEF lists

\* What is merged is what is due: each title once, its own first section or the
\* one of the first request in rank.
LEMMA SectionsMerged ==
  ASSUME NEW t, Filling(t), ~OnCycle(t)
  PROVE  IsList(MergeSections(t)) /\ AreDue(t, MergeSections(t), OwnSections(t), GivenTo(t))
<1> DEFINE own == LocalOnly(t).sections
           lists == SectionLists(t)
           all == MergeSections(t)
           S == ToSet(own) \cup UNION {ToSet(lists[n]) : n \in DOMAIN lists}
<1>0. t \in Topics /\ SceneInv /\ Analysed
  BY DEF Filling, Served, Analysed
<1>1. /\ IsList(own) /\ Titles(own) /\ Keys(own) = Keys(OwnSections(t))
      /\ \A s \in ToSet(own) : s.writer = t
  BY <1>0, LocalSections
<1>2. IsList(lists) /\ \A n \in DOMAIN lists : IsList(lists[n]) /\ n \in Nat
  BY ListsByRank
<1>3. own \in Seq(S) /\ \A n \in DOMAIN lists : lists[n] \in Seq(S)
  <2>1. ToSet(own) \subseteq S /\ \A n \in DOMAIN lists : ToSet(lists[n]) \subseteq S
    OBVIOUS
  <2> HIDE DEF S, own, lists
  <2> QED
    BY <1>1, <1>2, <2>1, ListIs
<1>4. all = AddLists(own, lists)
  BY DEF MergeSections, SectionLists
<1>5. /\ all \in Seq(S) /\ Titles(all)
      /\ Keys(all) = Keys(own) \cup UNION {Keys(lists[n]) : n \in DOMAIN lists}
      /\ \A s \in ToSet(all) : s \in ToSet(own)
           \/ (s.key \notin Keys(own) /\ \E n \in DOMAIN lists :
                 IsFirstOf(lists[n], s) /\ \A m \in 1 .. n - 1 : s.key \notin Keys(lists[m]))
  <2> HIDE DEF S, own, lists, all
  <2> QED
    BY <1>1, <1>2, <1>3, <1>4, ListsAdded
<1> HIDE DEF S, own, lists, all
<1>6. \A g \in GivenTo(t) : \E i \in Givers(t, "sections") :
        g.at = Rank(t, i) /\ g.sec \in SectionsOf(t, i)
  BY DEF GivenTo
<1>7. ASSUME NEW k \in Giving(t, "sections"), NEW s \in SectionsOf(t, k)
      PROVE  [at |-> Rank(t, k), sec |-> s] \in GivenTo(t)
  <2>1. k \in Givers(t, "sections") /\ k \in DOMAIN pkg[t].requests
    BY GivingIs DEF Filling, Served
  <2>2. k \in (IF OnCycle(t) THEN {} ELSE DOMAIN pkg[t].requests) \cap Givers(t, "sections")
    BY <2>1
  <2>3. [at |-> Rank(t, k), sec |-> s] \in {[at |-> Rank(t, k), sec |-> z] : z \in SectionsOf(t, k)}
    OBVIOUS
  <2> QED
    BY <2>2, <2>3, Zenon DEF GivenTo
<1>8. ASSUME NEW g \in GivenTo(t)
      PROVE  \E n \in DOMAIN lists : n <= g.at /\ g.at \in Nat /\ g.sec.key \in Keys(lists[n])
  <2>1. PICK i \in Givers(t, "sections") : g.at = Rank(t, i) /\ g.sec \in SectionsOf(t, i)
    BY <1>6
  <2>2. PICK j \in Giving(t, "sections") :
           /\ j \in DOMAIN pkg[t].requests /\ j <= i /\ DonorOf(t, j) = DonorOf(t, i)
           /\ pkg[t].requests[j].kind = pkg[t].requests[i].kind
           /\ pkg[t].requests[j].title = pkg[t].requests[i].title
    BY GiversAlike DEF Filling, Served
  <2>3. j \in Givers(t, "sections")
    BY GivingIs DEF Filling, Served
  <2>4. g.sec \in SectionsOf(t, j)
    BY <2>1, <2>2, <2>3 DEF SectionsOf, Gives
  <2>5. i \in Nat /\ j \in Nat /\ Len(pkg[t].requests) \in Nat
    <3>1. pkg[t].requests \in Seq(Range(pkg[t].requests))
      BY <1>0, RequestAssumption, Zenon DEF SceneInv
    <3> QED
      BY <1>0, <2>2, <3>1, PositionsAreNat, LenProperties DEF Givers
  <2>6. Rank(t, j) <= Rank(t, i) /\ Rank(t, i) \in Nat
    BY <2>2, <2>5 DEF Rank
  <2>7. Rank(t, j) \in DOMAIN lists /\ g.sec.key \in Keys(lists[Rank(t, j)])
    BY <2>2, <2>4, ListsByRank DEF lists
  <2> QED
    BY <2>1, <2>6, <2>7
<1>9. ASSUME NEW n \in DOMAIN lists, NEW s, IsFirstOf(lists[n], s)
      PROVE  \E g \in GivenTo(t) : g.at = n /\ g.sec = s
  <2>1. PICK k \in Giving(t, "sections") : n = Rank(t, k) /\ s \in SectionsOf(t, k)
    BY <1>9, ListsByRank DEF lists
  <2> QED
    BY <1>7, <2>1
<1>10. UNION {Keys(lists[n]) : n \in DOMAIN lists} = {g.sec.key : g \in GivenTo(t)}
  <2>1. ASSUME NEW n \in DOMAIN lists, NEW key \in Keys(lists[n])
        PROVE  \E g \in GivenTo(t) : g.sec.key = key
    <3>1. PICK s : s.key = key /\ IsFirstOf(lists[n], s)
      BY <1>2, TitlesHaveFirst
    <3> QED
      BY <1>9, <3>1
  <2> QED
    BY <1>8, <2>1
<1>11. ASSUME NEW s \in ToSet(all)
       PROVE  IF s.key \in Keys(OwnSections(t)) THEN s.writer = t
              ELSE \E g \in GivenTo(t) :
                     g.sec = s /\ \A h \in GivenTo(t) : h.sec.key = s.key => g.at <= h.at
  <2>1. CASE s \in ToSet(own)
    BY <1>1, <2>1 DEF Keys
  <2>2. CASE s \notin ToSet(own)
    <3>1. PICK n \in DOMAIN lists :
            IsFirstOf(lists[n], s) /\ \A m \in 1 .. n - 1 : s.key \notin Keys(lists[m])
      BY <1>5, <2>2
    <3>2. PICK g \in GivenTo(t) : g.at = n /\ g.sec = s
      BY <1>9, <3>1
    <3>3. ASSUME NEW h \in GivenTo(t), h.sec.key = s.key PROVE n <= h.at
      <4>1. PICK m \in DOMAIN lists : m <= h.at /\ h.at \in Nat /\ s.key \in Keys(lists[m])
        BY <1>8, <3>3
      <4>2. m \in Nat /\ n \in Nat /\ m # 0
        BY <1>2, ListIs
      <4>3. m \notin 1 .. n - 1
        BY <3>1, <4>1
      <4> QED
        BY <4>1, <4>2, <4>3
    <3>4. s.key \notin Keys(OwnSections(t))
      BY <1>1, <1>5, <2>2
    <3> QED
      BY <3>2, <3>3, <3>4
  <2> QED
    BY <2>1, <2>2
<1>12. IsList(all)
  BY <1>5, ListIs
<1> QED
  BY <1>1, <1>5, <1>10, <1>11, <1>12 DEF AreDue, all

-----------------------------------------------------------------------------
(* Missing parameters *)

\* Reports of missing parameters come with the topic they are about.
MissingReports(t) ==
  {Report("MissingParam", t, i) : i \in {j \in DOMAIN pkg[t].formals :
                                           pkg[t].formals[j] \in MergedParams(t).missing}}
ReportsStep ==
  \A t \in Topics : \A i :
    Report("MissingParam", t, i) \in diagnostics' <=>
      \/ Report("MissingParam", t, i) \in diagnostics
      \/ ResolveTopic(t) /\ i \in DOMAIN pkg[t].formals
         /\ pkg[t].formals[i] \in MergedParams(t).missing

\* No other report is one of a missing parameter.
LEMMA OtherReportsAre ==
  ASSUME NEW t \in Topics
  PROVE  /\ \A d \in DuplicateReports(t) \cup SectionConflicts(t) \cup SectionReports(t)
                     \cup SelectionReports(t) : d.code # "MissingParam"
         /\ \A u, i : Report("MissingParam", u, i).code = "MissingParam"
                      /\ (Report("MissingParam", u, i) \in MissingReports(t) <=>
                            u = t /\ i \in DOMAIN pkg[t].formals
                            /\ pkg[t].formals[i] \in MergedParams(t).missing)
<1>1. \A code, u, i : /\ Report(code, u, i).code = code /\ Report(code, u, i).topic = u
                      /\ Report(code, u, i).at = i
  BY DEF Report
<1>2. \A d \in DuplicateReports(t) : d.code = "Duplicate"
  BY <1>1 DEF DuplicateReports
<1>3. \A d \in SectionConflicts(t) : d.code = "ConflictingSection"
  BY <1>1 DEF SectionConflicts
<1>4. \A d \in SectionReports(t) : d.code \in {"MissingSection", "AmbiguousSection"}
  BY <1>1 DEF SectionReports
<1>5. \A d \in SelectionReports(t) : d.code = "InvalidSelection"
  BY <1>1 DEF SelectionReports
<1>6. ASSUME NEW u, NEW i
      PROVE  Report("MissingParam", u, i) \in MissingReports(t) <=>
               u = t /\ i \in DOMAIN pkg[t].formals
               /\ pkg[t].formals[i] \in MergedParams(t).missing
  BY <1>1 DEF MissingReports
<1> QED
  BY <1>1, <1>2, <1>3, <1>4, <1>5, <1>6

\* And a report of a missing parameter comes with the topic that is filled.
LEMMA ReportSteps ==
  ASSUME SceneInv, StageInv, [Next]_vars
  PROVE  ReportsStep
<1> SUFFICES ASSUME NEW t \in Topics, NEW i
             PROVE  Report("MissingParam", t, i) \in diagnostics' <=>
                      \/ Report("MissingParam", t, i) \in diagnostics
                      \/ ResolveTopic(t) /\ i \in DOMAIN pkg[t].formals
                         /\ pkg[t].formals[i] \in MergedParams(t).missing
  BY DEF ReportsStep
<1> DEFINE r == Report("MissingParam", t, i)
<1>0. r.code = "MissingParam" /\ \A u \in Topics : u # Nobody
  BY OtherReportsAre, NumberAssumption DEF Topics, Nobody
<1> HIDE DEF r
<1>1. CASE (r \in diagnostics' <=> r \in diagnostics) /\ ~ResolveTopic(t)
  BY <1>1 DEF r
<1>2. CASE Prepare
  <2>1. diagnostics = {} /\ diagnostics' = UNION {DuplicateReports(u) : u \in Topics}
        /\ ~ResolveTopic(t)
    BY <1>0, <1>2 DEF Prepare, StageInv, ResolveTopic
  <2>2. r \notin diagnostics'
    BY <1>0, <2>1, OtherReportsAre
  <2> QED
    BY <1>1, <2>1, <2>2
<1>3. CASE \E C \in waiting : RecoverCycle(C)
  <2>1. PICK C \in waiting : RecoverCycle(C)
    BY <1>3
  <2>2. /\ diagnostics' = diagnostics \cup (UNION {SectionConflicts(u) : u \in C})
                          \cup {Report("Cycle", q[1], q[2]) : q \in FirstCycleRequest(C)}
        /\ ~ResolveTopic(t)
    BY <1>0, <2>1 DEF RecoverCycle, StageInv, ResolveTopic
  <2>3. \A u : \A d \in SectionConflicts(u) : d.code = "ConflictingSection"
    BY DEF SectionConflicts, Report
  <2>4. \A q : Report("Cycle", q[1], q[2]).code = "Cycle"
    BY DEF Report
  <2>5. r \in diagnostics' <=> r \in diagnostics
    BY <1>0, <2>2, <2>3, <2>4
  <2> QED
    BY <1>1, <2>2, <2>5
<1>4. CASE \E u \in Topics : ResolveTopic(u)
  <2>1. PICK u \in Topics : ResolveTopic(u)
    BY <1>4
  <2>2. diagnostics' = diagnostics \cup SectionConflicts(u) \cup SectionReports(u)
                       \cup SelectionReports(u) \cup MissingReports(u)
        /\ (ResolveTopic(t) => t = u)
    BY <2>1, Zenon DEF ResolveTopic, MissingReports
  <2>3. r \in diagnostics' <=> r \in diagnostics \/ r \in MissingReports(u)
    BY <1>0, <2>2, OtherReportsAre
  <2>4. r \in MissingReports(u) <=>
          t = u /\ i \in DOMAIN pkg[u].formals /\ pkg[u].formals[i] \in MergedParams(u).missing
    BY OtherReportsAre DEF r
  <2> QED
    BY <2>1, <2>2, <2>3, <2>4 DEF r
<1>5. CASE Fetch
  <2>1. current # Nobody /\ \E k : \/ UNCHANGED diagnostics
          \/ \E code \in {"Invalid", "Disabled", "Unresolved", "External"} :
               diagnostics' = diagnostics \cup {Report(code, current, k)}
    BY <1>5, Zenon DEF Fetch, FetchNothing, FetchLocal, FetchRemembered, AskProvider, Found,
       NotFound, Answer
  <2>2. \A code, k : Report(code, current, k).code = code
    BY DEF Report
  <2>3. r \in diagnostics' <=> r \in diagnostics
    BY <1>0, <2>1, <2>2
  <2>4. ~ResolveTopic(t)
    <3>1. UNCHANGED current
      BY <1>5, FetchLeaves
    <3> QED
      BY <1>0, <2>1, <3>1 DEF ResolveTopic
  <2> QED
    BY <1>1, <2>3, <2>4
<1>6. CASE Analyse \/ EndCycles \/ Return
  BY <1>0, <1>1, <1>6 DEF Analyse, EndCycles, Return, ResolveTopic, StageInv
<1>7. CASE (\E C \in waiting : PassCycle(C)) \/ (\E u \in Topics : StartTopic(u))
  BY <1>0, <1>1, <1>7 DEF PassCycle, StartTopic, ResolveTopic
<1>8. CASE UNCHANGED vars
  BY <1>0, <1>1, <1>8 DEF vars, ResolveTopic
<1> QED
  BY <1>2, <1>3, <1>4, <1>5, <1>6, <1>7, <1>8 DEF Next

\* The sections a settled topic is given are settled with it.
LEMMA GivenStays ==
  ASSUME Analysed, UNCHANGED <<pkg, edges>>, MemosGrow, NEW t \in Topics, Settled(t)
  PROVE  GivenTo(t)' = GivenTo(t) /\ OwnSections(t)' = OwnSections(t)
<1>1. OwnSections(t)' = OwnSections(t) /\ OnCycle(t)' = OnCycle(t)
  BY GraphStays DEF OwnSections
<1>2. CASE OnCycle(t)
  BY <1>1, <1>2 DEF GivenTo
<1>3. CASE ~OnCycle(t)
  <2> DEFINE givers == Givers(t, "sections")
  <2>1. /\ givers' = givers
        /\ \A i \in givers : /\ DonorOf(t, i)' = DonorOf(t, i)
                             /\ Content(DonorOf(t, i))' = Content(DonorOf(t, i))
    BY <1>3, GiversStay
  <2>2. ASSUME NEW i \in givers PROVE SectionsOf(t, i)' = SectionsOf(t, i)
    <3>1. \A s : Gives(t, i, s)' = Gives(t, i, s)
      BY <2>1, <2>2 DEF Gives
    <3> QED
      BY <2>1, <3>1 DEF SectionsOf
  <2>3. \A i : Rank(t, i)' = Rank(t, i)
    BY DEF Rank
  <2> DEFINE given(i) == {[at |-> Rank(t, i), sec |-> s] : s \in SectionsOf(t, i)}
  <2>4. \A i \in givers : given(i)' = given(i)
    BY <2>2, <2>3
  <2>5. GivenTo(t) = UNION {given(i) : i \in DOMAIN pkg[t].requests \cap givers}
    BY <1>3 DEF GivenTo
  <2>6. GivenTo(t)' = UNION {given(i)' : i \in DOMAIN pkg[t].requests \cap givers}
    BY <1>1, <1>3, <2>1 DEF GivenTo
  <2> HIDE DEF given, givers
  <2>7. UNION {given(i)' : i \in DOMAIN pkg[t].requests \cap givers}
        = UNION {given(i) : i \in DOMAIN pkg[t].requests \cap givers}
    BY <2>4
  <2> QED
    BY <1>1, <2>5, <2>6, <2>7
<1> QED
  BY <1>2, <1>3

\* A topic that is resolved has the sections due to it, and keeps them.
LEMMA SectionsStay ==
  ASSUME SceneInv, StageInv, OrderInv, ExternalInv, FetchInv, ListInv, SectionsComeFromFirstDonor,
         [Next]_vars
  PROVE  SectionsComeFromFirstDonor' /\ \A t \in DOMAIN memo' : IsList(memo'[t].sections)
<1>1. CASE DOMAIN memo' = {}
  BY <1>1, SectionsAreDueNext
<1>2. CASE MemoStep
  <2> SUFFICES ASSUME NEW t \in DOMAIN memo'
               PROVE  AreDue(t, memo'[t].sections, OwnSections(t)', GivenTo(t)')
                      /\ IsList(memo'[t].sections)
    BY SectionsAreDueNext
  <2>1. t \in Topics /\ Settled(t)
    BY <1>2 DEF MemoStep
  <2>2. GivenTo(t)' = GivenTo(t) /\ OwnSections(t)' = OwnSections(t)
    BY <1>2, <2>1, GivenStays DEF MemoStep
  <2>3. CASE t \in DOMAIN memo
    <3>1. memo'[t] = memo[t] /\ AreDue(t, memo[t].sections, OwnSections(t), GivenTo(t))
      BY <1>2, <2>3, SectionsAreDue DEF MemoStep, MemosGrow
    <3> QED
      BY <2>2, <2>3, <3>1 DEF ListInv
  <2>4. CASE OnCycle(t) /\ memo'[t] = LocalOnly(t)
    <3> DEFINE secs == LocalOnly(t).sections
    <3>1. GivenTo(t) = {}
      BY <2>4 DEF GivenTo
    <3>2. /\ IsList(secs) /\ Titles(secs) /\ Keys(secs) = Keys(OwnSections(t))
          /\ \A s \in ToSet(secs) : s.writer = t /\ s.key \in Keys(secs)
      BY <2>1, LocalSections DEF Keys
    <3>3. AreDue(t, secs, OwnSections(t), {})
      BY <3>2 DEF AreDue
    <3> QED
      BY <2>2, <2>4, <3>1, <3>2, <3>3
  <2>5. CASE ~OnCycle(t) /\ ResolveTopic(t) /\ Served(t)
    <3>1. memo'[t].sections = MergeSections(t)
      BY <2>5, Zenon DEF ResolveTopic
    <3> QED
      BY <2>2, <2>5, <3>1, SectionsMerged DEF Filling
  <2> QED
    BY <1>2, <2>3, <2>4, <2>5 DEF MemoStep
<1> QED
  BY <1>1, <1>2, MemoSteps

-----------------------------------------------------------------------------
(* Parameters *)

\* No name is in two groups.
Apart(groups) == \A i, j \in DOMAIN groups : groups[i].names \cap groups[j].names # {} => i = j

\* A topic's own groups, and those taken from others: about formals only, and
\* about the parameters the group was about there.
Portions(formals, own, from) ==
  ToSet(own) \cup
  {g \in [names : SUBSET ToSet(formals), writer : {w.writer : w \in from}] :
     \E w \in from : w.writer = g.writer /\ Bases(w.names) = Bases(g.names)}

\* What is merged so far: every formal is in a group or missing.
Merging(formals, own, from) ==
  {acc \in [missing : SUBSET ToSet(formals), groups : Seq(Portions(formals, own, from))] :
     acc.missing = Missing(formals, acc.groups) /\ Apart(acc.groups)}

\* A list and one more.
LEMMA OneMore ==
  ASSUME NEW S, NEW l \in Seq(S), NEW x \in S
  PROVE  /\ Append(l, x) \in Seq(S) /\ Len(l) \in Nat
         /\ DOMAIN Append(l, x) = DOMAIN l \cup {Len(l) + 1} /\ DOMAIN l = 1 .. Len(l)
         /\ \A i \in DOMAIN l : Append(l, x)[i] = l[i]
         /\ Append(l, x)[Len(l) + 1] = x
         /\ ToSet(Append(l, x)) = ToSet(l) \cup {x}
<1>1. /\ Append(l, x) \in Seq(S) /\ Len(l) \in Nat /\ DOMAIN l = 1 .. Len(l)
      /\ Len(Append(l, x)) = Len(l) + 1 /\ DOMAIN Append(l, x) = 1 .. Len(l) + 1
      /\ \A i \in 1 .. Len(l) : Append(l, x)[i] = l[i]
      /\ Append(l, x)[Len(l) + 1] = x
  BY AppendProperties, LenProperties
<1>2. DOMAIN Append(l, x) = DOMAIN l \cup {Len(l) + 1}
  BY <1>1
<1>3. ToSet(Append(l, x)) = {Append(l, x)[i] : i \in DOMAIN Append(l, x)}
      /\ ToSet(l) = {l[i] : i \in DOMAIN l}
  BY ListIs
<1>4. PICK a : a = Append(l, x)
  OBVIOUS
<1>5. {a[i] : i \in DOMAIN a} = {l[i] : i \in DOMAIN l} \cup {x}
  BY <1>1, <1>2, <1>4
<1> QED
  BY <1>1, <1>2, <1>3, <1>4, <1>5

\* A name is matched by itself or with its dot toggled: the base stays.
LEMMA Matches ==
  ASSUME NEW n, NEW missing
  PROVE  MatchingNames(n, missing) \subseteq missing /\ \A m \in MatchingNames(n, missing) : m[1] = n[1]
<1>1. Toggle(n)[1] = n[1]
  BY DEF Toggle
<1> QED
  BY <1>1 DEF MatchingNames

\* Taking a group leaves every formal in one group or missing.
LEMMA GroupTaken ==
  ASSUME NEW formals, NEW own, NEW from, NEW acc \in Merging(formals, own, from), NEW w \in from
  PROVE  TakeGroup(acc, w) \in Merging(formals, own, from)
<1> DEFINE covered == UNION {MatchingNames(n, acc.missing) : n \in w.names}
           g == [names |-> covered, writer |-> w.writer]
           S == Portions(formals, own, from)
           new == [missing |-> acc.missing \ covered, groups |-> Append(acc.groups, g)]
<1>1. CASE \E n \in w.names : MatchingNames(n, acc.missing) = {}
  BY <1>1 DEF TakeGroup
<1>2. CASE ~ \E n \in w.names : MatchingNames(n, acc.missing) = {}
  <2>1. /\ acc.missing = Missing(formals, acc.groups) /\ Apart(acc.groups)
        /\ acc.groups \in Seq(S) /\ acc.missing \subseteq ToSet(formals)
    BY DEF Merging
  <2>2. covered \subseteq acc.missing
    BY Matches
  <2>3. Bases(covered) = Bases(w.names)
    <3>1. ASSUME NEW n \in w.names PROVE \E m \in covered : m[1] = n[1]
      <4>1. PICK m : m \in MatchingNames(n, acc.missing)
        BY <1>2
      <4> QED
        BY <4>1, Matches
    <3>2. ASSUME NEW m \in covered PROVE \E n \in w.names : m[1] = n[1]
      BY <3>2, Matches
    <3> HIDE DEF covered
    <3> QED
      BY <3>1, <3>2 DEF Bases
  <2>4. TakeGroup(acc, w) = new
    BY <1>2, Zenon DEF TakeGroup
  <2>5. g \in S
    <3>1. g \in [names : SUBSET ToSet(formals), writer : {v.writer : v \in from}]
      BY <2>1, <2>2
    <3>2. g.writer = w.writer /\ Bases(g.names) = Bases(w.names)
      BY <2>3
    <3> HIDE DEF g
    <3> QED
      BY <3>1, <3>2 DEF Portions
  <2> DEFINE N == Len(acc.groups)
             more == Append(acc.groups, g)
  <2>6. g.names = covered
    OBVIOUS
  <2>7. /\ more \in Seq(S) /\ N \in Nat /\ DOMAIN acc.groups = 1 .. N
        /\ DOMAIN more = DOMAIN acc.groups \cup {N + 1}
        /\ \A i \in DOMAIN acc.groups : more[i] = acc.groups[i]
        /\ more[N + 1] = g /\ ToSet(more) = ToSet(acc.groups) \cup {g}
    <3> HIDE DEF g, S
    <3> QED
      BY <2>1, <2>5, OneMore
  <2> HIDE DEF more, N, g, S, covered
  <2>8. Documented(more) = Documented(acc.groups) \cup covered
    BY <2>6, <2>7 DEF Documented
  <2>9. Missing(formals, more) = acc.missing \ covered
    BY <2>1, <2>8 DEF Missing
  <2>10. \A i \in DOMAIN acc.groups : acc.groups[i].names \cap covered = {}
    <3>1. acc.missing \cap Documented(acc.groups) = {}
      BY <2>1 DEF Missing
    <3>2. \A i \in DOMAIN acc.groups : acc.groups[i] \in ToSet(acc.groups)
      BY ListIs
    <3>3. \A i \in DOMAIN acc.groups : acc.groups[i].names \subseteq Documented(acc.groups)
      BY <3>2 DEF Documented
    <3> QED
      BY <2>2, <3>1, <3>3
  <2>11. Apart(more)
    BY <2>1, <2>6, <2>7, <2>10 DEF Apart
  <2>12. new = [missing |-> acc.missing \ covered, groups |-> more]
    BY DEF more
  <2>13. acc.missing \ covered \in SUBSET ToSet(formals)
    BY <2>1
  <2>14. new \in [missing : SUBSET ToSet(formals), groups : Seq(S)]
    BY <2>7, <2>12, <2>13
  <2>15. new.missing = Missing(formals, new.groups) /\ Apart(new.groups)
    BY <2>9, <2>11, <2>12
  <2> HIDE DEF new
  <2> QED
    BY <2>4, <2>14, <2>15 DEF Merging, S
<1> QED
  BY <1>1, <1>2

\* The fold over the groups of one donor.
LEMMA TakeGroupsSteps ==
  ASSUME NEW formals, NEW own, NEW from, NEW acc \in Merging(formals, own, from),
         NEW asks, NEW k, IsList(asks[k].params), ToSet(asks[k].params) \subseteq from
  PROVE  \E taken \in [0 .. Len(asks[k].params) -> Merging(formals, own, from)] :
           /\ taken[0] = acc /\ TakeGroups(acc, asks, k) = taken[Len(asks[k].params)]
           /\ \A n \in 1 .. Len(asks[k].params) :
                taken[n] = IF Offered(asks, asks[k].donor, asks[k].params[n])
                           THEN TakeGroup(taken[n - 1], asks[k].params[n]) ELSE taken[n - 1]
<1> DEFINE groups == asks[k].params
           N == Len(groups)
           R == Merging(formals, own, from)
           offered(n) == Offered(asks, asks[k].donor, groups[n])
           F == [p \in R \X (1 .. N) |->
                   IF offered(p[2]) THEN TakeGroup(p[1], groups[p[2]]) ELSE p[1]]
           Is(g) == g = [n \in 0 .. N |->
             IF n = 0 THEN acc
             ELSE IF offered(n) THEN TakeGroup(g[n - 1], groups[n]) ELSE g[n - 1]]
<1>1. N \in Nat /\ DOMAIN groups = 1 .. N /\ \A n \in 1 .. N : groups[n] \in from
  BY ListIs
<1> DEFINE a == CHOOSE h : Is(h)
<1>0. TakeGroups(acc, asks, k) = a[N]
  BY DEF TakeGroups
<1> HIDE DEF offered, groups, N, R
<1>2. F \in Steps(R, N) /\ acc \in R
  <2>1. \A c \in R : \A n \in 1 .. N : TakeGroup(c, groups[n]) \in R
    BY <1>1, GroupTaken DEF R
  <2> QED
    BY <2>1 DEF Steps, R
<1>3. PICK g \in [0 .. N -> R] :
        g[0] = acc /\ \A n \in 1 .. N : g[n] = F[<<g[n - 1], n>>]
  <2> HIDE DEF F
  <2>1. \E g : IsFold(g, R, N, acc, F)
    BY <1>1, <1>2, FoldExists
  <2> QED
    BY <2>1 DEF IsFold
<1>4. ASSUME NEW n \in 1 .. N
      PROVE  g[n] = IF offered(n) THEN TakeGroup(g[n - 1], groups[n]) ELSE g[n - 1]
  <2>1. n - 1 \in 0 .. N
    BY <1>1
  <2>2. g[n - 1] \in R
    BY <1>3, <2>1
  <2> QED
    BY <1>3, <2>2
<1>5. Is(g)
  <2>1. \A n \in 0 .. N : g[n] = IF n = 0 THEN acc
          ELSE IF offered(n) THEN TakeGroup(g[n - 1], groups[n]) ELSE g[n - 1]
    BY <1>1, <1>3, <1>4
  <2>2. g = [n \in 0 .. N |-> g[n]]
    BY <1>3
  <2> QED
    BY <2>1, <2>2
<1>6. Is(a)
  BY <1>5
<1> HIDE DEF a
<1>8. a[0] = acc /\ \A n \in 1 .. N :
        a[n] = IF offered(n) THEN TakeGroup(a[n - 1], groups[n]) ELSE a[n - 1]
  BY <1>1, <1>6
<1>9. \A n \in 0 .. N : a[n] \in R
  <2> DEFINE K == {n \in 0 .. N : a[n] \in R}
  <2>1. 0 \in K
    BY <1>1, <1>2, <1>8
  <2>2. \A n \in 1 .. N : n - 1 \in K => n \in K
    <3> SUFFICES ASSUME NEW n \in 1 .. N, a[n - 1] \in R PROVE n \in 0 .. N /\ a[n] \in R
      OBVIOUS
    <3>1. TakeGroup(a[n - 1], groups[n]) \in R
      BY <1>1, GroupTaken DEF R
    <3> QED
      BY <1>1, <1>8, <3>1
  <2>3. \A n \in 0 .. N : n \in K
    <3> HIDE DEF K
    <3> QED
      BY <1>1, <2>1, <2>2, UpToBound, Zenon
  <2> QED
    BY <2>3
<1>10. a \in [0 .. N -> R]
  <2>1. a = [n \in 0 .. N |-> a[n]]
    BY <1>6
  <2> QED
    BY <1>9, <2>1
<1> QED
  BY <1>0, <1>8, <1>10 DEF offered, groups, N, R

\* Taking the groups of one donor leaves every formal in one group or missing.
LEMMA GroupsTaken ==
  ASSUME NEW formals, NEW own, NEW from, NEW acc \in Merging(formals, own, from),
         NEW asks, NEW k, IsList(asks[k].params), ToSet(asks[k].params) \subseteq from
  PROVE  TakeGroups(acc, asks, k) \in Merging(formals, own, from)
<1> DEFINE N == Len(asks[k].params)
<1>1. PICK taken \in [0 .. N -> Merging(formals, own, from)] : TakeGroups(acc, asks, k) = taken[N]
  BY TakeGroupsSteps
<1>2. N \in 0 .. N
  BY ListIs
<1> QED
  BY <1>1, <1>2

\* Requests that ask the same are asked the same groups.
LEMMA GroupsTakenAlike ==
  ASSUME NEW formals, NEW own, NEW from, NEW acc \in Merging(formals, own, from),
         NEW asks, NEW more, NEW k, IsList(asks[k].params), ToSet(asks[k].params) \subseteq from,
         asks[k] = more[k],
         \A g : Offered(asks, asks[k].donor, g) <=> Offered(more, asks[k].donor, g)
  PROVE  TakeGroups(acc, asks, k) = TakeGroups(acc, more, k)
<1> DEFINE groups == asks[k].params
           N == Len(groups)
           R == Merging(formals, own, from)
<1>1. PICK a \in [0 .. N -> R] :
        /\ a[0] = acc /\ TakeGroups(acc, asks, k) = a[N]
        /\ \A n \in 1 .. N : a[n] = IF Offered(asks, asks[k].donor, groups[n])
                                    THEN TakeGroup(a[n - 1], groups[n]) ELSE a[n - 1]
  BY TakeGroupsSteps
<1>2. PICK b \in [0 .. N -> R] :
        /\ b[0] = acc /\ TakeGroups(acc, more, k) = b[N]
        /\ \A n \in 1 .. N : b[n] = IF Offered(more, asks[k].donor, groups[n])
                                    THEN TakeGroup(b[n - 1], groups[n]) ELSE b[n - 1]
  <2>1. IsList(more[k].params) /\ ToSet(more[k].params) \subseteq from
    OBVIOUS
  <2>2. more[k].params = groups /\ more[k].donor = asks[k].donor
    OBVIOUS
  <2>3. \E taken \in [0 .. Len(more[k].params) -> Merging(formals, own, from)] :
           /\ taken[0] = acc /\ TakeGroups(acc, more, k) = taken[Len(more[k].params)]
           /\ \A n \in 1 .. Len(more[k].params) :
                taken[n] = IF Offered(more, more[k].donor, more[k].params[n])
                           THEN TakeGroup(taken[n - 1], more[k].params[n]) ELSE taken[n - 1]
    BY <2>1, TakeGroupsSteps
  <2> QED
    BY <2>2, <2>3
<1>3. N \in Nat
  BY ListIs
<1> HIDE DEF groups, N, R
<1> DEFINE K == {n \in 0 .. N : a[n] = b[n]}
<1>4. 0 \in K
  BY <1>1, <1>2, <1>3
<1>5. \A n \in 1 .. N : n - 1 \in K => n \in K
  BY <1>1, <1>2, <1>3
<1>6. \A n \in 0 .. N : n \in K
  <2> HIDE DEF K
  <2> QED
    BY <1>3, <1>4, <1>5, UpToBound, Zenon
<1>7. a[N] = b[N]
  BY <1>3, <1>6
<1> QED
  BY <1>1, <1>2, <1>7

\* A strict order that tells any two of 1 .. N apart places each by the number
\* of those before it.
Placing(before, N) ==
  /\ before \subseteq (1 .. N) \X (1 .. N)
  /\ \A i \in 1 .. N : <<i, i>> \notin before
  /\ \A i, j, k \in 1 .. N : <<i, j>> \in before /\ <<j, k>> \in before => <<i, k>> \in before
  /\ \A i, j \in 1 .. N : i # j => <<i, j>> \in before \/ <<j, i>> \in before

Places(before, N) == [i \in 1 .. N |-> Cardinality({j \in 1 .. N : <<j, i>> \in before}) + 1]

\* Each of 1 .. N is the place of one of them.
Numbering(place, N) ==
  /\ place \in [1 .. N -> 1 .. N]
  /\ \A i, j \in 1 .. N : place[i] = place[j] => i = j
  /\ \A k \in 1 .. N : \E i \in 1 .. N : place[i] = k

\* The places are 1 .. N again, each taken once.
LEMMA PlacesAreTaken ==
  ASSUME NEW N \in Nat, NEW before, Placing(before, N)
  PROVE  Numbering(Places(before, N), N)
<1> DEFINE S == 1 .. N
           below(i) == {j \in S : <<j, i>> \in before}
           place == Places(before, N)
<1>1. IsFiniteSet(S) /\ Cardinality(S) = N
  BY FS_Interval
<1>2. \A i \in S : place[i] = Cardinality(below(i)) + 1
  BY DEF Places
<1> HIDE DEF S, place
<1>3. ASSUME NEW i \in S
      PROVE  /\ IsFiniteSet(below(i)) /\ Cardinality(below(i)) \in Nat /\ Cardinality(below(i)) < N
  <2>1. below(i) \in SUBSET S /\ i \notin below(i)
    BY DEF Placing, S
  <2> HIDE DEF below
  <2>2. IsFiniteSet(below(i)) /\ Cardinality(below(i)) <= N /\ Cardinality(below(i)) # N
    BY <1>1, <2>1, FS_Subset
  <2> QED
    BY <2>2, FS_CardinalityType
<1>4. place \in [S -> S]
  <2>1. \A i \in S : place[i] \in S
    <3> TAKE i \in S
    <3>1. place[i] = Cardinality(below(i)) + 1 /\ Cardinality(below(i)) \in Nat
          /\ Cardinality(below(i)) < N
      BY <1>2, <1>3
    <3> HIDE DEF below
    <3> QED
      BY <3>1 DEF S
  <2>2. place = [i \in S |-> place[i]]
    BY DEF Places, place, S
  <2> QED
    BY <2>1, <2>2
<1>5. ASSUME NEW i \in S, NEW j \in S, <<i, j>> \in before PROVE place[i] < place[j]
  <2>1. below(i) \in SUBSET below(j) /\ i \in below(j) /\ i \notin below(i)
    BY <1>5 DEF Placing, S
  <2>2. IsFiniteSet(below(j)) /\ Cardinality(below(i)) \in Nat /\ Cardinality(below(j)) \in Nat
    BY <1>3
  <2>3. Cardinality(below(i)) <= Cardinality(below(j))
        /\ Cardinality(below(j)) # Cardinality(below(i))
    <3> HIDE DEF below
    <3> QED
      BY <2>1, <2>2, FS_Subset
  <2>4. place[i] = Cardinality(below(i)) + 1 /\ place[j] = Cardinality(below(j)) + 1
    BY <1>2
  <2> HIDE DEF below
  <2> QED
    BY <2>2, <2>3, <2>4
<1>6. \A i, j \in S : place[i] = place[j] => i = j
  <2> SUFFICES ASSUME NEW i \in S, NEW j \in S, i # j PROVE place[i] # place[j]
    OBVIOUS
  <2>1. place[i] \in Nat /\ place[j] \in Nat
    BY <1>4 DEF S
  <2>2. <<i, j>> \in before \/ <<j, i>> \in before
    BY DEF Placing, S
  <2> QED
    BY <1>5, <2>1, <2>2
<1>7. place \in Injection(S, S)
  BY <1>4, <1>6 DEF Injection, IsInjective
<1>8. place \in Surjection(S, S)
  BY <1>1, <1>7, FS_Injection
<1> QED
  BY <1>4, <1>6, <1>8 DEF Numbering, Surjection, S, place

\* The groups arranged are the same groups, in another order.
LEMMA ArrangedIs ==
  ASSUME NEW formals, IsList(formals), NEW groups, IsList(groups)
  PROVE  LET all == Arranged(formals, groups) IN
         IsList(all) /\ ToSet(all) = ToSet(groups) /\ (Apart(groups) => Apart(all))
<1> DEFINE N == Len(groups)
           rank(g) == Min({i \in DOMAIN formals : formals[i] \in g.names} \cup {Len(formals) + 1})
           before(i, j) == \/ rank(groups[i]) < rank(groups[j])
                           \/ rank(groups[i]) = rank(groups[j]) /\ i < j
           place(i) == Cardinality({j \in DOMAIN groups : before(j, i)}) + 1
           from(k) == CHOOSE i \in DOMAIN groups : place(i) = k
           all == Arranged(formals, groups)
<1>1. N \in Nat /\ DOMAIN groups = 1 .. N
  BY ListIs
<1>2. all = [k \in 1 .. N |-> groups[from(k)]]
  BY <1>1 DEF Arranged
<1>3. \A g : rank(g) \in Nat
  <2> TAKE g
  <2> DEFINE ranks == {i \in DOMAIN formals : formals[i] \in g.names} \cup {Len(formals) + 1}
  <2>1. ranks \in SUBSET Nat /\ ranks # {}
    BY ListIs
  <2>2. Min(ranks) \in ranks
    <3> HIDE DEF ranks
    <3> QED
      BY <2>1, MinIsLeast
  <2> QED
    BY <2>1, <2>2
<1> HIDE DEF N, rank, all
<1> DEFINE order == {p \in (1 .. N) \X (1 .. N) : before(p[1], p[2])}
           places == [i \in 1 .. N |-> Cardinality({j \in 1 .. N : <<j, i>> \in order}) + 1]
<1>4. \A i, j \in 1 .. N : <<i, j>> \in order <=> before(i, j)
  OBVIOUS
<1>5. Placing(order, N)
  <2>1. \A i \in 1 .. N : i \in Nat /\ rank(groups[i]) \in Nat
    BY <1>1, <1>3
  <2>2. \A i \in 1 .. N : ~before(i, i)
    BY <2>1
  <2>3. \A i, j, k \in 1 .. N : before(i, j) /\ before(j, k) => before(i, k)
    BY <2>1
  <2>4. \A i, j \in 1 .. N : i # j => before(i, j) \/ before(j, i)
    BY <2>1
  <2>5. order \subseteq (1 .. N) \X (1 .. N)
    OBVIOUS
  <2> HIDE DEF before, order
  <2> QED
    BY <1>4, <2>2, <2>3, <2>4, <2>5 DEF Placing
<1>6. \A i \in 1 .. N : places[i] = place(i)
  <2> TAKE i \in 1 .. N
  <2>1. {j \in 1 .. N : <<j, i>> \in order} = {j \in DOMAIN groups : before(j, i)}
    <3> HIDE DEF before, order
    <3> QED
      BY <1>1, <1>4
  <2> HIDE DEF before, order
  <2> QED
    BY <2>1
<1>7. /\ \A i, j \in 1 .. N : places[i] = places[j] => i = j
      /\ \A i \in 1 .. N : places[i] \in 1 .. N
      /\ \A k \in 1 .. N : \E i \in 1 .. N : places[i] = k
  <2> HIDE DEF order, places
  <2>1. places = Places(order, N)
    BY DEF places, Places
  <2>2. Numbering(Places(order, N), N)
    BY <1>1, <1>5, PlacesAreTaken
  <2> QED
    BY <2>1, <2>2 DEF Numbering
<1> HIDE DEF place, places, order
<1>8. ASSUME NEW k \in 1 .. N PROVE from(k) \in 1 .. N /\ places[from(k)] = k
  <2>0. PICK i \in 1 .. N : places[i] = k
    BY <1>7
  <2>1. i \in DOMAIN groups /\ place(i) = k
    BY <1>1, <1>6, <2>0
  <2>2. from(k) \in DOMAIN groups /\ place(from(k)) = k
    BY <2>1
  <2> QED
    BY <1>1, <1>6, <2>2
<1>9. \A i \in 1 .. N : places[i] \in 1 .. N /\ from(places[i]) = i
  BY <1>7, <1>8
<1> HIDE DEF from
<1>10. IsList(all) /\ DOMAIN all = 1 .. N /\ \A k \in 1 .. N : all[k] = groups[from(k)]
  <2>1. all = [k \in 1 .. N |-> all[k]]
    BY <1>2
  <2> QED
    BY <1>1, <1>2, <2>1, ListIs
<1>11. ToSet(all) = ToSet(groups)
  <2>1. ToSet(all) = {all[k] : k \in 1 .. N} /\ ToSet(groups) = {groups[i] : i \in 1 .. N}
    BY <1>1, <1>10, ListIs
  <2>2. \A k \in 1 .. N : \E i \in 1 .. N : all[k] = groups[i]
    BY <1>8, <1>10
  <2>3. \A i \in 1 .. N : \E k \in 1 .. N : all[k] = groups[i]
    BY <1>9, <1>10
  <2> QED
    BY <2>1, <2>2, <2>3
<1>12. ASSUME Apart(groups) PROVE Apart(all)
  <2> SUFFICES ASSUME NEW i \in 1 .. N, NEW j \in 1 .. N, all[i].names \cap all[j].names # {}
               PROVE  i = j
    BY <1>10 DEF Apart
  <2>1. from(i) = from(j)
    BY <1>1, <1>8, <1>10, <1>12 DEF Apart
  <2> QED
    BY <1>8, <2>1
<1> QED
  BY <1>10, <1>11, <1>12 DEF all

\* What is merged before any donor: the topic's own groups.
OwnMerged(formals, own) == [missing |-> Missing(formals, own), groups |-> own]

LEMMA MergeStarts ==
  ASSUME NEW formals, NEW own, IsList(own), Apart(own), NEW from
  PROVE  OwnMerged(formals, own) \in Merging(formals, own, from)
<1> DEFINE S == Portions(formals, own, from)
<1>1. ToSet(own) \subseteq S
  BY DEF Portions
<1>2. own \in Seq(S)
  <2> HIDE DEF S
  <2> QED
    BY <1>1, ListIs
<1>3. Missing(formals, own) \in SUBSET ToSet(formals)
  BY DEF Missing
<1> QED
  BY <1>2, <1>3 DEF Merging, OwnMerged

\* The asks of a topic are about lists of groups.
Asking(asks, from) ==
  \A k \in DOMAIN asks : IsList(asks[k].params) /\ ToSet(asks[k].params) \subseteq from

\* The fold over the requests.
MergeSteps(merged, formals, own, last, asks) ==
  /\ merged[0] = OwnMerged(formals, own)
  /\ MergeParams(formals, own, last, asks) = [merged[last] EXCEPT !.groups = Arranged(formals, @)]
  /\ \A k \in 1 .. last :
       merged[k] = IF IsFirstAsk(asks, k) THEN TakeGroups(merged[k - 1], asks, k) ELSE merged[k - 1]

LEMMA MergeParamsSteps ==
  ASSUME NEW formals, NEW own, IsList(own), Apart(own), NEW from, NEW last \in Nat,
         NEW asks, Asking(asks, from)
  PROVE  \E merged \in [0 .. last -> Merging(formals, own, from)] :
           MergeSteps(merged, formals, own, last, asks)
<1> DEFINE N == last
           R == Merging(formals, own, from)
           start == OwnMerged(formals, own)
           F == [p \in R \X (1 .. N) |->
                   IF IsFirstAsk(asks, p[2]) THEN TakeGroups(p[1], asks, p[2]) ELSE p[1]]
           Is(g) == g = [k \in 0 .. N |->
             IF k = 0 THEN start
             ELSE IF IsFirstAsk(asks, k) THEN TakeGroups(g[k - 1], asks, k) ELSE g[k - 1]]
           a == CHOOSE h : Is(h)
<1>0. MergeParams(formals, own, last, asks) = [a[N] EXCEPT !.groups = Arranged(formals, @)]
  BY DEF MergeParams, OwnMerged
<1>1. \A acc \in R : \A k : IsFirstAsk(asks, k) => TakeGroups(acc, asks, k) \in R
  BY GroupsTaken DEF Asking, IsFirstAsk
<1> HIDE DEF R
<1>2. F \in Steps(R, N) /\ start \in R
  BY <1>1, MergeStarts DEF Steps, R
<1> HIDE DEF start
<1>3. PICK g \in [0 .. N -> R] :
        g[0] = start /\ \A n \in 1 .. N : g[n] = F[<<g[n - 1], n>>]
  <2> HIDE DEF F
  <2>1. \E g : IsFold(g, R, N, start, F)
    BY <1>2, FoldExists
  <2> QED
    BY <2>1 DEF IsFold
<1>4. ASSUME NEW n \in 1 .. N
      PROVE  g[n] = IF IsFirstAsk(asks, n) THEN TakeGroups(g[n - 1], asks, n) ELSE g[n - 1]
  <2>1. n - 1 \in 0 .. N
    OBVIOUS
  <2>2. g[n - 1] \in R
    BY <1>3, <2>1
  <2> QED
    BY <1>3, <2>2
<1>5. Is(g)
  <2>1. \A n \in 0 .. N : g[n] = IF n = 0 THEN start
          ELSE IF IsFirstAsk(asks, n) THEN TakeGroups(g[n - 1], asks, n) ELSE g[n - 1]
    BY <1>3, <1>4
  <2>2. g = [n \in 0 .. N |-> g[n]]
    BY <1>3
  <2> QED
    BY <2>1, <2>2
<1>6. Is(a)
  BY <1>5
<1> HIDE DEF a
<1>8. a[0] = start /\ \A n \in 1 .. N :
        a[n] = IF IsFirstAsk(asks, n) THEN TakeGroups(a[n - 1], asks, n) ELSE a[n - 1]
  BY <1>6
<1>9. \A n \in 0 .. N : a[n] \in R
  <2> DEFINE K == {n \in 0 .. N : a[n] \in R}
  <2>1. 0 \in K
    BY <1>2, <1>8
  <2>2. \A n \in 1 .. N : n - 1 \in K => n \in K
    BY <1>1, <1>8
  <2>3. \A n \in 0 .. N : n \in K
    <3> HIDE DEF K
    <3> QED
      BY <2>1, <2>2, UpToBound, Zenon
  <2> QED
    BY <2>3
<1>10. a \in [0 .. N -> R]
  <2>1. a = [n \in 0 .. N |-> a[n]]
    BY <1>6
  <2> QED
    BY <1>9, <2>1
<1> QED
  BY <1>0, <1>8, <1>10 DEF R, start, MergeSteps

\* Every formal is in one group or missing, and each group is the topic's own or
\* taken from a donor for the parameters it was about there.
LEMMA ParamsMerged ==
  ASSUME NEW formals, IsList(formals), NEW own, IsList(own), Apart(own), NEW from,
         NEW last \in Nat, NEW asks, Asking(asks, from)
  PROVE  LET m == MergeParams(formals, own, last, asks) IN
         /\ m.missing = Missing(formals, m.groups) /\ IsList(m.groups) /\ Apart(m.groups)
         /\ ToSet(m.groups) \subseteq Portions(formals, own, from)
<1> DEFINE m == MergeParams(formals, own, last, asks)
<1>1. PICK merged \in [0 .. last -> Merging(formals, own, from)] :
        MergeSteps(merged, formals, own, last, asks)
  BY MergeParamsSteps
<1>2. PICK acc \in Merging(formals, own, from) :
        m = [acc EXCEPT !.groups = Arranged(formals, @)]
  BY <1>1 DEF MergeSteps
<1>3. /\ acc.missing = Missing(formals, acc.groups) /\ Apart(acc.groups)
      /\ IsList(acc.groups) /\ ToSet(acc.groups) \subseteq Portions(formals, own, from)
  BY ListIs DEF Merging
<1>4. m.missing = acc.missing /\ m.groups = Arranged(formals, acc.groups)
  BY <1>2 DEF Merging
<1> HIDE DEF m
<1>5. IsList(m.groups) /\ ToSet(m.groups) = ToSet(acc.groups) /\ Apart(m.groups)
  BY <1>3, <1>4, ArrangedIs
<1>6. Missing(formals, m.groups) = Missing(formals, acc.groups)
  BY <1>5 DEF Missing, Documented
<1> QED
  BY <1>3, <1>4, <1>5, <1>6 DEF m

\* Of two that ask the same, the later is not heard.
Repeating(asks, more) ==
  /\ DOMAIN asks \subseteq DOMAIN more /\ \A k \in DOMAIN asks : asks[k] = more[k]
  /\ \A i \in DOMAIN more : i \in Nat /\ \E j \in DOMAIN asks : j <= i /\ asks[j] = more[i]

LEMMA RepeatsAreLater ==
  ASSUME NEW asks, NEW more, Repeating(asks, more)
  PROVE  /\ \A k : IsFirstAsk(asks, k) <=> IsFirstAsk(more, k)
         /\ \A donor, g : Offered(asks, donor, g) <=> Offered(more, donor, g)
<1>1. \A k \in DOMAIN asks : k \in DOMAIN more /\ more[k] = asks[k] /\ k \in Nat
  BY DEF Repeating
<1>2. \A i \in DOMAIN more : \E j \in DOMAIN asks : j <= i /\ asks[j] = more[i]
  BY DEF Repeating
<1>3. \A i \in DOMAIN more : i \in Nat
  BY DEF Repeating
<1>4. ASSUME NEW k, IsFirstAsk(asks, k) PROVE IsFirstAsk(more, k)
  <2>1. k \in DOMAIN more /\ more[k] = asks[k] /\ Valid(more[k]) /\ k \in Nat
    BY <1>1, <1>4 DEF IsFirstAsk
  <2>2. ASSUME NEW i \in DOMAIN more, i < k, Valid(more[i]) PROVE more[i].donor # more[k].donor
    <3>1. PICK j \in DOMAIN asks : j <= i /\ asks[j] = more[i]
      BY <1>2
    <3>2. j < k /\ Valid(asks[j])
      BY <1>1, <1>3, <2>1, <2>2, <3>1
    <3> QED
      BY <1>4, <2>1, <3>1, <3>2 DEF IsFirstAsk
  <2> QED
    BY <2>1, <2>2 DEF IsFirstAsk
<1>5. ASSUME NEW k, IsFirstAsk(more, k) PROVE IsFirstAsk(asks, k)
  <2>1. k \in DOMAIN more /\ Valid(more[k]) /\ k \in Nat
    BY <1>3, <1>5 DEF IsFirstAsk
  <2>2. PICK j \in DOMAIN asks : j <= k /\ asks[j] = more[k]
    BY <1>2, <2>1
  <2>3. j \in DOMAIN more /\ more[j] = more[k] /\ j \in Nat
    BY <1>1, <2>2
  <2>4. ~ (j < k)
    BY <1>5, <2>1, <2>3 DEF IsFirstAsk
  <2>5. j = k
    BY <2>1, <2>2, <2>3, <2>4
  <2>6. \A i \in DOMAIN asks : i < k /\ Valid(asks[i]) => asks[i].donor # asks[k].donor
    BY <1>1, <1>5, <2>2, <2>5 DEF IsFirstAsk
  <2> QED
    BY <2>1, <2>2, <2>5, <2>6 DEF IsFirstAsk
<1>6. ASSUME NEW donor, NEW g PROVE Offered(asks, donor, g) <=> Offered(more, donor, g)
  <2> DEFINE mine(q) == {k \in DOMAIN q : Valid(q[k]) /\ q[k].donor = donor}
  <2>1. \A k \in mine(asks) : k \in mine(more) /\ more[k] = asks[k]
    BY <1>1
  <2>2. \A i \in mine(more) : \E j \in mine(asks) : asks[j] = more[i]
    BY <1>2
  <2>3. \A q : Offered(q, donor, g) <=>
           \/ \E k \in mine(q) : ~q[k].filtered
           \/ g.names \subseteq UNION {Wanted(q[k]) : k \in mine(q)}
    BY DEF Offered
  <2> HIDE DEF mine
  <2>4. UNION {Wanted(asks[k]) : k \in mine(asks)} = UNION {Wanted(more[k]) : k \in mine(more)}
    BY <2>1, <2>2
  <2>5. (\E k \in mine(asks) : ~asks[k].filtered) <=> \E k \in mine(more) : ~more[k].filtered
    BY <2>1, <2>2
  <2> QED
    BY <2>3, <2>4, <2>5
<1> QED
  BY <1>4, <1>5, <1>6

\* And so nothing more is merged.
LEMMA RepeatsMergeNothing ==
  ASSUME NEW formals, NEW own, IsList(own), Apart(own), NEW from, NEW last \in Nat,
         NEW asks, NEW more, Asking(asks, from), Asking(more, from), Repeating(asks, more)
  PROVE  MergeParams(formals, own, last, asks) = MergeParams(formals, own, last, more)
<1> DEFINE R == Merging(formals, own, from)
<1>1. PICK a \in [0 .. last -> R] : MergeSteps(a, formals, own, last, asks)
  BY MergeParamsSteps
<1>2. PICK b \in [0 .. last -> R] : MergeSteps(b, formals, own, last, more)
  BY MergeParamsSteps
<1>3. ASSUME NEW k, IsFirstAsk(asks, k), NEW acc \in R
      PROVE  TakeGroups(acc, asks, k) = TakeGroups(acc, more, k)
  <2>1. k \in DOMAIN asks /\ asks[k] = more[k]
    BY <1>3 DEF IsFirstAsk, Repeating
  <2>2. IsList(asks[k].params) /\ ToSet(asks[k].params) \subseteq from
    BY <2>1 DEF Asking
  <2>3. \A g : Offered(asks, asks[k].donor, g) <=> Offered(more, asks[k].donor, g)
    BY RepeatsAreLater
  <2> QED
    BY <2>1, <2>2, <2>3, GroupsTakenAlike
<1>4. \A k : IsFirstAsk(asks, k) <=> IsFirstAsk(more, k)
  BY RepeatsAreLater
<1> HIDE DEF R
<1> DEFINE K == {n \in 0 .. last : a[n] = b[n]}
<1>5. 0 \in K
  BY <1>1, <1>2 DEF MergeSteps
<1>6. ASSUME NEW n \in 1 .. last, n - 1 \in K PROVE n \in K
  <2>1. a[n - 1] = b[n - 1] /\ n - 1 \in 0 .. last /\ n \in 0 .. last
    BY <1>6
  <2>2. a[n - 1] \in R
    BY <2>1
  <2>3. /\ a[n] = IF IsFirstAsk(asks, n) THEN TakeGroups(a[n - 1], asks, n) ELSE a[n - 1]
        /\ b[n] = IF IsFirstAsk(more, n) THEN TakeGroups(b[n - 1], more, n) ELSE b[n - 1]
    BY <1>1, <1>2 DEF MergeSteps
  <2>4. a[n] = b[n]
    BY <1>3, <1>4, <2>1, <2>2, <2>3
  <2> QED
    BY <2>1, <2>4
<1>7. \A n \in 0 .. last : n \in K
  <2> HIDE DEF K
  <2> QED
    BY <1>5, <1>6, UpToBound, Zenon
<1>8. a[last] = b[last]
  BY <1>7
<1> QED
  BY <1>1, <1>2, <1>8 DEF MergeSteps

-----------------------------------------------------------------------------
(* The parameters of a topic *)

\* What the requests of the source ask for, repetitions included.
AsksOf(t) ==
  [i \in Givers(t, "params") |->
     [donor |-> DonorOf(t, i), params |-> Content(DonorOf(t, i)).params,
      filtered |-> pkg[t].requests[i].filtered, selectors |-> pkg[t].requests[i].selectors]]
Offers(t) == UNION {ToSet(Content(DonorOf(t, i)).params) : i \in Givers(t, "params")}

\* The group is about the parameters it was written for.
Original(g) ==
  LET written == IF g.writer \in Topics THEN LocalOnly(g.writer).params
                 ELSE ExternalDocs[g.writer - NumTopics].params IN
  \E w \in ToSet(written) : Bases(g.names) = Bases(w.names)

\* A topic's own groups.
LEMMA OwnParams ==
  ASSUME SceneInv, NEW t \in Topics
  PROVE  LET own == LocalOnly(t).params IN
         IsList(own) /\ Apart(own) /\ \A g \in ToSet(own) : g.writer = t /\ Original(g)
<1> DEFINE own == LocalOnly(t).params
<1>1. own = [i \in DOMAIN pkg[t].params |-> [names |-> pkg[t].params[i], writer |-> t]]
  BY DEF LocalOnly
<1> HIDE DEF own
<1>2. IsList(own)
  <2>1. PICK n \in Nat : DOMAIN pkg[t].params = 1 .. n
    BY OwnLists, ListIs
  <2>2. own = [i \in 1 .. n |-> own[i]]
    BY <1>1, <2>1
  <2> QED
    BY <2>2, ListIs
<1>3. Apart(own)
  BY <1>1, OwnLists DEF Apart
<1>4. \A g \in ToSet(own) : g.writer = t
  BY <1>1, ListIs
<1>5. \A g \in ToSet(own) : Original(g)
  BY <1>4 DEF Original, own
<1> QED
  BY <1>2, <1>3, <1>4, <1>5 DEF own

\* What is asked of the donors is settled with them.
LEMMA AsksStay ==
  ASSUME Analysed, UNCHANGED <<pkg, edges>>, MemosGrow, NEW t \in Topics, ~OnCycle(t), Settled(t)
  PROVE  AsksOf(t)' = AsksOf(t)
<1>1. /\ Givers(t, "params")' = Givers(t, "params")
      /\ \A i \in Givers(t, "params") : /\ DonorOf(t, i)' = DonorOf(t, i)
                                        /\ Content(DonorOf(t, i))' = Content(DonorOf(t, i))
  BY GiversStay
<1> DEFINE ask(i) == [donor |-> DonorOf(t, i), params |-> Content(DonorOf(t, i)).params,
                      filtered |-> pkg[t].requests[i].filtered,
                      selectors |-> pkg[t].requests[i].selectors]
<1>2. \A i \in Givers(t, "params") : ask(i)' = ask(i)
  BY <1>1
<1>3. AsksOf(t) = [i \in Givers(t, "params") |-> ask(i)]
      /\ AsksOf(t)' = [i \in Givers(t, "params")' |-> ask(i)']
  BY DEF AsksOf
<1> HIDE DEF ask
<1> QED
  BY <1>1, <1>2, <1>3

\* What is asked when a topic is filled is what its requests ask, once each.
LEMMA FillingAsks ==
  ASSUME NEW t, Filling(t)
  PROVE  LET asks == [k \in Giving(t, "params") |-> Ask(t, k)] IN
         Repeating(asks, AsksOf(t)) /\ Asking(asks, Offers(t)) /\ Asking(AsksOf(t), Offers(t))
<1> DEFINE asks == [k \in Giving(t, "params") |-> Ask(t, k)]
           more == AsksOf(t)
<1>1. /\ DOMAIN asks = Giving(t, "params") /\ DOMAIN more = Givers(t, "params")
      /\ \A i \in Givers(t, "params") :
           more[i] = [donor |-> DonorOf(t, i), params |-> Content(DonorOf(t, i)).params,
                      filtered |-> pkg[t].requests[i].filtered,
                      selectors |-> pkg[t].requests[i].selectors]
  BY DEF AsksOf
<1>2. ASSUME NEW k \in Giving(t, "params") PROVE k \in Givers(t, "params") /\ asks[k] = more[k]
  <2>1. /\ k \in Givers(t, "params") /\ donors[k] = DonorOf(t, k)
        /\ normalized[t][k].request = pkg[t].requests[k]
    BY GivingIs DEF Filling, Served
  <2> QED
    BY <1>1, <2>1 DEF Ask
<1>3. ASSUME NEW i \in Givers(t, "params")
      PROVE  i \in Nat /\ \E j \in DOMAIN asks : j <= i /\ asks[j] = more[i]
  <2>1. i \in Nat
    BY PositionsAreNat DEF Givers, Filling, Served, Analysed
  <2>2. PICK j \in Giving(t, "params") :
           /\ j <= i /\ DonorOf(t, j) = DonorOf(t, i)
           /\ pkg[t].requests[j].filtered = pkg[t].requests[i].filtered
           /\ pkg[t].requests[j].selectors = pkg[t].requests[i].selectors
    BY GiversAlike DEF Filling, Served
  <2>3. asks[j] = more[j] /\ j \in Givers(t, "params")
    BY <1>2
  <2>4. more[j] = more[i]
    BY <1>1, <2>2, <2>3
  <2> QED
    BY <1>1, <2>1, <2>2, <2>3, <2>4
<1>4. Asking(more, Offers(t))
  <2>1. \A i \in Givers(t, "params") : IsList(Content(DonorOf(t, i)).params)
    BY DonorLists DEF Filling, Served
  <2>2. \A i \in Givers(t, "params") : ToSet(Content(DonorOf(t, i)).params) \subseteq Offers(t)
    BY DEF Offers
  <2>3. \A i \in Givers(t, "params") : more[i].params = Content(DonorOf(t, i)).params
    BY <1>1
  <2> HIDE DEF more
  <2> QED
    BY <1>1, <2>1, <2>2, <2>3 DEF Asking
<1> HIDE DEF asks, more
<1>5. Repeating(asks, more)
  BY <1>1, <1>2, <1>3 DEF Repeating
<1>6. Asking(asks, Offers(t))
  BY <1>4, <1>5 DEF Asking, Repeating
<1> QED
  BY <1>4, <1>5, <1>6 DEF asks, more

\* Through its donors, what a topic is offered is about what it was written for.
LEMMA OffersAreOriginal ==
  ASSUME NEW t, Filling(t), GroupsStayWhole, NEW w \in Offers(t)
  PROVE  Original(w)
<1>1. PICK i \in Givers(t, "params") : w \in ToSet(Content(DonorOf(t, i)).params)
  BY DEF Offers
<1>2. CASE DonorOf(t, i) \in Topics
  <2>1. DonorOf(t, i) \in DOMAIN memo
    BY <1>2, GiversAreNeeded DEF Givers, Filling, Served
  <2> QED
    BY <1>1, <1>2, <2>1 DEF Content, GroupsStayWhole, Original
<1>3. CASE DonorOf(t, i) \notin Topics
  <2>1. PICK e \in Externals :
           /\ DonorOf(t, i) = NumTopics + Canonical[e]
           /\ DonorOf(t, i) - NumTopics = Canonical[e]
           /\ Content(DonorOf(t, i)) = ExternalDocs[Canonical[e]]
    BY <1>3, HelpContent DEF Filling, Served
  <2>2. w \in ToSet(ExternalDocs[Canonical[e]].params) /\ w.writer = DonorOf(t, i)
    <3>1. PICK n \in DOMAIN ExternalDocs[Canonical[e]].params : w = ExternalDocs[Canonical[e]].params[n]
      BY <1>1, <2>1, ListIs
    <3> QED
      BY <1>1, <2>1, <3>1, ListsAssumption
  <2>3. w \in ToSet(ExternalDocs[w.writer - NumTopics].params) /\ w.writer \notin Topics
    BY <1>3, <2>1, <2>2
  <2> QED
    BY <2>3 DEF Original
<1> QED
  BY <1>2, <1>3

\* What the parameters of a filled topic are.
LEMMA ParamsFilled ==
  ASSUME NEW t, Filling(t), GroupsStayWhole
  PROVE  LET m == MergedParams(t) IN
         /\ m.missing = Missing(pkg[t].formals, m.groups) /\ IsList(m.groups) /\ Apart(m.groups)
         /\ \A g \in ToSet(m.groups) :
              Original(g) /\ (g.writer # t => g.names \subseteq ToSet(pkg[t].formals))
         /\ "params" \notin Suppressed(pkg[t].requests) =>
              m.groups = MergeParams(pkg[t].formals, LocalOnly(t).params, Len(pkg[t].requests),
                                     AsksOf(t)).groups
<1> DEFINE m == MergedParams(t)
           own == LocalOnly(t).params
           formals == pkg[t].formals
           last == Len(pkg[t].requests)
           asks == [k \in Giving(t, "params") |-> Ask(t, k)]
<1>1. t \in Topics /\ SceneInv
  BY DEF Filling, Served, Analysed
<1>2. IsList(own) /\ Apart(own) /\ \A g \in ToSet(own) : g.writer = t /\ Original(g)
  BY <1>1, OwnParams
<1>3. IsList(formals) /\ last \in Nat
  <2>1. IsList(pkg[t].requests)
    BY <1>1, RequestAssumption, Zenon DEF SceneInv, IsList
  <2> QED
    BY <1>1, <2>1, OwnLists, ListIs
<1>4. CASE "params" \in Suppressed(pkg[t].requests)
  <2>1. m = [groups |-> own, missing |-> Missing(formals, own)]
    BY <1>4 DEF MergedParams
  <2>2. m.groups = own /\ m.missing = Missing(formals, own)
    BY <2>1
  <2> HIDE DEF m
  <2> QED
    BY <1>2, <1>4, <2>2 DEF m
<1>5. CASE "params" \notin Suppressed(pkg[t].requests)
  <2>1. m = MergeParams(formals, own, last, asks)
    BY <1>5 DEF MergedParams
  <2>2. Repeating(asks, AsksOf(t)) /\ Asking(asks, Offers(t)) /\ Asking(AsksOf(t), Offers(t))
    BY FillingAsks
  <2> HIDE DEF asks, own, formals, last, m
  <2>3. m = MergeParams(formals, own, last, AsksOf(t))
    BY <1>2, <1>3, <2>1, <2>2, RepeatsMergeNothing
  <2>4. /\ m.missing = Missing(formals, m.groups) /\ IsList(m.groups) /\ Apart(m.groups)
        /\ ToSet(m.groups) \subseteq Portions(formals, own, Offers(t))
    BY <1>2, <1>3, <2>1, <2>2, ParamsMerged
  <2>5. ASSUME NEW g \in Portions(formals, own, Offers(t))
        PROVE  Original(g) /\ (g.writer # t => g.names \subseteq ToSet(formals))
    <3>1. CASE g \in ToSet(own)
      BY <1>2, <3>1
    <3>2. CASE g \notin ToSet(own)
      <4>1. PICK w \in Offers(t) : w.writer = g.writer /\ Bases(w.names) = Bases(g.names)
        BY <3>2 DEF Portions
      <4>2. g.names \subseteq ToSet(formals)
        BY <3>2 DEF Portions
      <4>3. Original(w)
        BY OffersAreOriginal
      <4> QED
        BY <4>1, <4>2, <4>3 DEF Original
    <3> QED
      BY <3>1, <3>2
  <2> QED
    BY <2>3, <2>4, <2>5 DEF m, formals, own, last
<1> QED
  BY <1>4, <1>5

\* Each conjunct of ParametersAreWhole, topic by topic.
WholeParams(t, params) == \A g \in ToSet(params) : Original(g)
OnceParams(t, params) ==
  Apart(params) /\ \A g \in ToSet(params) : g.writer # t => g.names \subseteq ToSet(pkg[t].formals)
DueParams(t, params) ==
  ~OnCycle(t) /\ "params" \notin Suppressed(pkg[t].requests) =>
    params = MergeParams(pkg[t].formals, LocalOnly(t).params, Len(pkg[t].requests), AsksOf(t)).groups

LEMMA ParamsAreDue ==
  /\ GroupsStayWhole <=> \A t \in DOMAIN memo : WholeParams(t, memo[t].params)
  /\ MissingInv /\ DOMAIN memo \subseteq Topics =>
       (FormalsOnce <=> \A t \in DOMAIN memo : OnceParams(t, memo[t].params))
  /\ RepeatsAddNothing <=> \A t \in DOMAIN memo : DueParams(t, memo[t].params)
<1>1. GroupsStayWhole <=> \A t \in DOMAIN memo : WholeParams(t, memo[t].params)
  BY DEF GroupsStayWhole, WholeParams, Original
<1>2. RepeatsAddNothing <=> \A t \in DOMAIN memo : DueParams(t, memo[t].params)
  BY Zenon DEF RepeatsAddNothing, DueParams, AsksOf
<1>3. ASSUME MissingInv, DOMAIN memo \subseteq Topics
      PROVE  FormalsOnce <=> \A t \in DOMAIN memo : OnceParams(t, memo[t].params)
  <2>1. \A t \in DOMAIN memo : ~OnCycle(t) => \A i \in DOMAIN pkg[t].formals :
          pkg[t].formals[i] \in Documented(memo[t].params)
            <=> Report("MissingParam", t, i) \notin diagnostics
    BY <1>3 DEF MissingInv
  <2> QED
    BY <2>1 DEF FormalsOnce, OnceParams, Apart
<1> QED
  BY <1>1, <1>2, <1>3

\* A topic that is resolved has the parameters due to it, and keeps them.
LEMMA ParamsStay ==
  ASSUME SceneInv, StageInv, OrderInv, ExternalInv, FetchInv, ListInv, MissingInv,
         GroupsStayWhole, FormalsOnce, RepeatsAddNothing, [Next]_vars
  PROVE  /\ MissingInv' /\ GroupsStayWhole' /\ FormalsOnce' /\ RepeatsAddNothing'
         /\ \A t \in DOMAIN memo' : IsList(memo'[t].params)
<1>0. ReportsStep /\ UNCHANGED pkg
  BY ReportSteps, PackageKept
<1>1. CASE DOMAIN memo = {} /\ DOMAIN memo' = {}
  <2>1. \A t \in Topics : ~ResolveTopic(t)
    BY <1>1, Zenon DEF ResolveTopic
  <2>2. MissingInv'
    BY <1>0, <1>1, <2>1 DEF MissingInv, ReportsStep, Report
  <2> QED
    BY <1>1, <2>2 DEF GroupsStayWhole, FormalsOnce, RepeatsAddNothing
<1>2. CASE MemoStep
  <2>0. \A t \in DOMAIN memo' : t \in Topics /\ Settled(t)
    BY <1>2 DEF MemoStep
  <2>1. \A t : OnCycle(t)' = OnCycle(t) /\ LocalOnly(t)' = LocalOnly(t)
    BY <1>2, GraphStays DEF MemoStep, LocalOnly, OwnSections
  <2>2. ASSUME NEW t \in DOMAIN memo', ~OnCycle(t) PROVE AsksOf(t)' = AsksOf(t)
    BY <1>2, <2>0, <2>2, AsksStay DEF MemoStep
  <2>3. \A t \in DOMAIN memo :
          /\ IsList(memo[t].params) /\ WholeParams(t, memo[t].params)
          /\ OnceParams(t, memo[t].params) /\ DueParams(t, memo[t].params)
    <3>1. DOMAIN memo \subseteq Topics
      BY <1>2, ResolvedAreSettled DEF MemoStep
    <3> QED
      BY <3>1, ParamsAreDue DEF ListInv
  <2>4. ASSUME NEW t \in DOMAIN memo'
        PROVE  LET params == memo'[t].params IN
               /\ IsList(params) /\ WholeParams(t, params) /\ OnceParams(t, params)
               /\ DueParams(t, params)
               /\ \A i \in DOMAIN pkg[t].formals : Report("MissingParam", t, i) \in diagnostics' <=>
                    ~OnCycle(t) /\ pkg[t].formals[i] \notin Documented(params)
    <3>1. CASE t \in DOMAIN memo
      <4>1. memo'[t] = memo[t] /\ ~ResolveTopic(t)
        BY <1>2, <2>0, <3>1, ServedIs DEF MemoStep, MemosGrow
      <4>2. /\ IsList(memo[t].params) /\ WholeParams(t, memo[t].params)
            /\ OnceParams(t, memo[t].params) /\ DueParams(t, memo[t].params)
        BY <2>3, <3>1
      <4>3. \A i \in DOMAIN pkg[t].formals : Report("MissingParam", t, i) \in diagnostics' <=>
              ~OnCycle(t) /\ pkg[t].formals[i] \notin Documented(memo[t].params)
        BY <1>0, <2>0, <3>1, <4>1 DEF MissingInv, ReportsStep
      <4> QED
        BY <4>1, <4>2, <4>3
    <3>2. CASE t \notin DOMAIN memo /\ OnCycle(t) /\ memo'[t] = LocalOnly(t)
      <4>1. ~ResolveTopic(t)
        BY <2>0, <3>2, ServedIs
      <4>2. \A i \in DOMAIN pkg[t].formals : Report("MissingParam", t, i) \notin diagnostics'
        BY <1>0, <2>0, <3>2, <4>1 DEF MissingInv, ReportsStep
      <4>3. /\ IsList(LocalOnly(t).params) /\ WholeParams(t, LocalOnly(t).params)
            /\ OnceParams(t, LocalOnly(t).params) /\ DueParams(t, LocalOnly(t).params)
        BY <2>0, <3>2, OwnParams DEF WholeParams, OnceParams, DueParams
      <4> QED
        BY <3>2, <4>2, <4>3
    <3>3. CASE t \notin DOMAIN memo /\ ~OnCycle(t) /\ ResolveTopic(t) /\ Served(t)
      <4> DEFINE m == MergedParams(t)
      <4>1. memo'[t].params = m.groups
        BY <3>3, Zenon DEF ResolveTopic
      <4>2. /\ m.missing = Missing(pkg[t].formals, m.groups) /\ IsList(m.groups)
            /\ WholeParams(t, m.groups) /\ OnceParams(t, m.groups) /\ DueParams(t, m.groups)
        BY <3>3, ParamsFilled DEF Filling, WholeParams, OnceParams, DueParams
      <4> HIDE DEF m
      <4>3. ASSUME NEW i \in DOMAIN pkg[t].formals
            PROVE  Report("MissingParam", t, i) \in diagnostics' <=>
                     pkg[t].formals[i] \notin Documented(m.groups)
        <5>1. Report("MissingParam", t, i) \in diagnostics' <=> pkg[t].formals[i] \in m.missing
          BY <1>0, <2>0, <3>3 DEF MissingInv, ReportsStep, m
        <5>2. pkg[t].formals[i] \in ToSet(pkg[t].formals)
          BY ListIs
        <5> QED
          BY <4>2, <5>1, <5>2 DEF Missing
      <4> QED
        BY <3>3, <4>1, <4>2, <4>3
    <3> QED
      BY <1>2, <3>1, <3>2, <3>3 DEF MemoStep
  <2>5. GroupsStayWhole'
    BY <2>1, <2>4 DEF GroupsStayWhole, WholeParams, Original
  <2>6. MissingInv'
    <3>1. ASSUME NEW t \in Topics, t \notin DOMAIN memo',
                 NEW i \in DOMAIN pkg[t].formals
          PROVE  Report("MissingParam", t, i) \notin diagnostics'
      <4>1. ~ResolveTopic(t) /\ t \notin DOMAIN memo
        BY <1>2, <3>1, ZenonT(30) DEF ResolveTopic, MemoStep, MemosGrow
      <4> QED
        BY <1>0, <4>1 DEF MissingInv, ReportsStep
    <3> QED
      BY <1>0, <2>1, <2>4, <3>1 DEF MissingInv, Report
  <2>7. FormalsOnce'
    BY <1>0, <2>1, <2>4 DEF FormalsOnce, OnceParams, Apart, Report
  <2>8. RepeatsAddNothing'
    BY <1>0, <2>1, <2>2, <2>4, Zenon DEF RepeatsAddNothing, DueParams, AsksOf
  <2> QED
    BY <2>4, <2>5, <2>6, <2>7, <2>8
<1> QED
  BY <1>1, <1>2, MemoSteps

-----------------------------------------------------------------------------
(* The invariant *)

\* The resolver starts with nothing resolved.
LEMMA InitInv == Init => ResolverInv
<1> SUFFICES ASSUME Init PROVE ResolverInv
  OBVIOUS
<1>1. DOMAIN memo = {} /\ DOMAIN externalMemo = {} /\ pc = "prepare" /\ diagnostics = {}
  BY DEF Init
<1>2. SceneInv /\ StageInv /\ OrderInv
  BY <1>1 DEF Init, SceneInv, StageInv, OrderInv
<1>3. ExternalInv
  BY <1>1 DEF Init, ExternalInv
<1>4. FetchInv /\ ComplaintInv /\ CycleInv /\ DonorsAreResolved
  BY <1>1 DEF Init, FetchInv, ComplaintInv, CycleInv, DonorsAreResolved
<1>5. ProseComesFromFirstDonor
  BY <1>1, ProseIsDue
<1> QED
  BY <1>2, <1>3, <1>4, <1>5 DEF ResolverInv

\* Every step of the resolver keeps the invariant.
LEMMA StepInv == ResolverInv /\ [Next]_vars => ResolverInv'
  BY SceneStays, StageStays, OrderStays, ExternalStays, FetchStays, ComplaintsStay, CyclesStay,
     ResolvedStays, ProseStays DEF ResolverInv

\* The resolver keeps its invariant, whatever the package and the provider.
THEOREM Resolution == Spec => []ResolverInv
  BY InitInv, StepInv, PTL DEF Spec

\* Both memos serve whoever asks: the order of the components has every local
\* donor resolved before it is looked up, and the provider is asked each name
\* at most once, and never when the policy forbids it.
THEOREM BothMemosServe == Spec => []MemosServe
<1>1. ResolverInv => MemosServe
  BY DEF ResolverInv, MemosServe, ExternalInv, ExternalsAskedOnce
<1> QED
  BY <1>1, Resolution, PTL

\* A request that could give something and is not served is reported, once, and
\* no other is; every cycle is reported once, at a request that is part of it.
THEOREM SilenceIsImpossible == Spec => []NothingIsLostInSilence
<1>1. ASSUME ResolverInv PROVE RequestsAreHeard
  <2> USE DEF ResolverInv
  <2> SUFFICES ASSUME NEW t \in DOMAIN memo, ~OnCycle(t), NEW i \in DOMAIN pkg[t].requests
               PROVE  LET reports == Complaints(t, i) IN
                 /\ Needed(t, i) /\ DonorOf(t, i) = Nobody => \E d \in reports : reports = {d}
                 /\ ~Needed(t, i) => \A d \in reports : d.code = "Duplicate"
                 /\ DonorOf(t, i) # Nobody => \A d \in reports : d.code = "Duplicate"
    BY <1>1 DEF RequestsAreHeard
  <2>1. Analysed
    <3>1. DOMAIN memo # {} => memo # <<>>
      OBVIOUS
    <3> QED
      BY <1>1, <3>1 DEF StageInv, Analysed
  <2>2. t \in Topics /\ pc # "prepare" /\ t # current
    <3>1. pc \in {"cycles", "resolve", "done"}
      BY <2>1 DEF Analysed
    <3> QED
      BY <1>1, <3>1 DEF OrderInv
  <2>3. Handled(t) = DOMAIN normalized[t]
    BY <2>2 DEF Handled
  <2>4. Complaints(t, i) =
          IF IsDuplicate(t, i) THEN {Report("Duplicate", t, i)}
          ELSE IF i \in DOMAIN normalized[t] /\ pkg[t].requests[i].to # "suppress"
                  /\ DonorOf(t, i) = Nobody
          THEN {Report(Fault(t, i), t, i)} ELSE {}
    BY <1>1, <2>2, <2>3 DEF ComplaintInv
  <2>5. /\ Needed(t, i) /\ ~IsDuplicate(t, i) => i \in DOMAIN normalized[t]
        /\ Needed(t, i) => pkg[t].requests[i].to # "suppress"
        /\ i \in DOMAIN normalized[t] /\ pkg[t].requests[i].to # "suppress" => Needed(t, i)
    BY <1>1, <2>2, NormalizedIs DEF Needed
  <2> QED
    BY <2>4, <2>5, OtherReports
<1>2. ASSUME ResolverInv PROVE CyclesAreReported
  <2> USE DEF ResolverInv
  <2> SUFFICES ASSUME pc \in {"resolve", "done"}, NEW C \in Classes(edges)
               PROVE  LET reports == CycleReports(C) IN
                 /\ IsCyclic(edges, C) <=> reports # {}
                 /\ \A d, e \in reports : d = e
                 /\ \A d \in reports : DonorOf(d.topic, d.at) \in C
    BY <1>2 DEF CyclesAreReported
  <2>1. Analysed
    BY <1>2 DEF Analysed
  <2>2. CycleReports(C) = IF IsCyclic(edges, C)
                          THEN {Report("Cycle", r[1], r[2]) : r \in FirstCycleRequest(C)} ELSE {}
    BY <1>2 DEF CycleInv
  <2>3. CASE IsCyclic(edges, C)
    <3>1. PICK t \in C : \E i \in DOMAIN normalized[t] :
            /\ FirstCycleRequest(C) = {<<t, i>>}
            /\ Leads(t, i).to = "local" /\ Leads(t, i).donor \in C
      BY <2>1, <2>3, OneFirstRequest
    <3>2. PICK i \in DOMAIN normalized[t] :
            /\ FirstCycleRequest(C) = {<<t, i>>}
            /\ Leads(t, i).to = "local" /\ Leads(t, i).donor \in C
      BY <3>1
    <3>3. CycleReports(C) = {Report("Cycle", t, i)}
      BY <2>2, <2>3, <3>2
    <3>4. DonorOf(t, i) \in C
      BY <3>2, DonorOfIs
    <3> QED
      BY <2>3, <3>3, <3>4, OtherReports
  <2>4. CASE ~IsCyclic(edges, C)
    BY <2>2, <2>4
  <2> QED
    BY <2>3, <2>4
<1>3. ResolverInv => NothingIsLostInSilence
  BY <1>1, <1>2 DEF NothingIsLostInSilence
<1> QED
  BY <1>3, Resolution, PTL

\* Each field of a resolved topic is its own, or that of the first donor that
\* has it once it is resolved itself, or nothing; a topic on a cycle inherits
\* nothing.
THEOREM FirstDonorGives == Spec => []ProseComesFromFirstDonor
<1>1. ResolverInv => ProseComesFromFirstDonor
  BY DEF ResolverInv
<1> QED
  BY <1>1, Resolution, PTL

\* The lists of a topic resolved are those of the first donors of their titles
\* and names; nothing is resolved at the start.
LEMMA InitLists == Init => ListsInv
<1> SUFFICES ASSUME Init PROVE ListsInv
  OBVIOUS
<1>1. DOMAIN memo = {} /\ diagnostics = {}
  BY DEF Init
<1>2. ListInv /\ MissingInv /\ GroupsStayWhole /\ FormalsOnce /\ RepeatsAddNothing
  BY <1>1 DEF ListInv, MissingInv, GroupsStayWhole, FormalsOnce, RepeatsAddNothing
<1>3. SectionsComeFromFirstDonor
  BY <1>1, SectionsAreDue
<1> QED
  BY <1>2, <1>3 DEF ListsInv

LEMMA StepLists == ResolverInv /\ ListsInv /\ [Next]_vars => ListsInv'
<1> SUFFICES ASSUME ResolverInv, ListsInv, [Next]_vars PROVE ListsInv'
  OBVIOUS
<1>1. /\ SceneInv /\ StageInv /\ OrderInv /\ ExternalInv /\ FetchInv /\ ListInv /\ MissingInv
      /\ SectionsComeFromFirstDonor /\ GroupsStayWhole /\ FormalsOnce /\ RepeatsAddNothing
  BY DEF ResolverInv, ListsInv
<1>2. SectionsComeFromFirstDonor' /\ \A t \in DOMAIN memo' : IsList(memo'[t].sections)
  BY <1>1, SectionsStay
<1>3. /\ MissingInv' /\ GroupsStayWhole' /\ FormalsOnce' /\ RepeatsAddNothing'
      /\ \A t \in DOMAIN memo' : IsList(memo'[t].params)
  BY <1>1, ParamsStay
<1>4. ListInv'
  BY <1>2, <1>3 DEF ListInv
<1> QED
  BY <1>2, <1>3, <1>4 DEF ListsInv

\* The lists of a resolved topic, its sections and its parameters, stay those
\* that its own text and its donors call for.
THEOREM ListsAreKept == Spec => []ListsInv
  BY InitLists, StepLists, Resolution, PTL DEF Spec

\* A resolved topic has one section of each title: its own first one, or the one
\* of the first request for all sections, or of the first request by title.
THEOREM FirstSectionGives == Spec => []SectionsComeFromFirstDonor
<1>1. ListsInv => SectionsComeFromFirstDonor
  BY DEF ListsInv
<1> QED
  BY <1>1, ListsAreKept, PTL

\* Every formal is documented by one group or reported, a description keeps the
\* parameters it was written for through any chain of donors, and a request
\* made twice changes nothing.
THEOREM DescriptionsStayWhole == Spec => []ParametersAreWhole
<1>1. ListsInv => ParametersAreWhole
  BY DEF ListsInv, ParametersAreWhole
<1> QED
  BY <1>1, ListsAreKept, PTL
=============================================================================
