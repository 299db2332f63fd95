----------------------------- MODULE FoldFacts -----------------------------
(***************************************************************************)
(* Facts that proofs about recursive functions rest on: a set of numbers   *)
(* that is not empty has a least member, so what holds of 0 and of every   *)
(* next number holds up to any bound, a fold over a list has a value after *)
(* each of its steps, and a function may be defined by its own values at   *)
(* smaller arguments.                                                      *)
(***************************************************************************)
EXTENDS Naturals, NaturalsInduction, WellFoundedInduction, TLAPS

\* A set of naturals that is not empty has a least member.
LEMMA LeastExists ==
  ASSUME NEW K \in SUBSET Nat, K # {}
  PROVE  \E m \in K : \A j \in K : m <= j
<1> DEFINE R == {s \in Nat \X Nat : s[1] < s[2]}
<1>1. IsWellFoundedOn(R, Nat)
  BY NatLessThanWellFounded DEF OpToRel
<1>2. PICK m \in K : \A j \in K : <<j, m>> \notin R
  BY <1>1, WFMin
<1>3. ASSUME NEW j \in K PROVE m <= j
  <2>1. j \in Nat /\ m \in Nat /\ ~ (j < m)
    BY <1>2
  <2> QED
    BY <2>1
<1> QED
  BY <1>3

\* Induction up to a bound, over the set of what has been shown.
LEMMA UpToBound ==
  ASSUME NEW N \in Nat, NEW K, 0 \in K, \A n \in 1 .. N : n - 1 \in K => n \in K
  PROVE  \A n \in 0 .. N : n \in K
<1> SUFFICES ASSUME NEW n \in 0 .. N, n \notin K PROVE FALSE
  OBVIOUS
<1> DEFINE Left == {k \in 0 .. N : k \notin K}
<1>1. Left \in SUBSET Nat /\ Left # {}
  OBVIOUS
<1>2. PICK k \in Left : \A j \in Left : k <= j
  BY <1>1, LeastExists
<1>3. k \in 1 .. N /\ k - 1 \in 0 .. N /\ ~ (k <= k - 1)
  BY <1>2
<1>4. k - 1 \in K
  BY <1>2, <1>3
<1> QED
  BY <1>2, <1>3, <1>4

\* What N steps of a fold give.
Steps(R, N) == [R \X (1 .. N) -> R]
IsFold(g, R, N, start, F) ==
  g \in [0 .. N -> R] /\ g[0] = start /\ \A n \in 1 .. N : g[n] = F[<<g[n - 1], n>>]

\* A fold, step by step, is a function.
LEMMA FoldExists ==
  ASSUME NEW N \in Nat, NEW R, NEW start \in R, NEW F \in Steps(R, N)
  PROVE  \E g : IsFold(g, R, N, start, F)
<1> DEFINE Is(g, n) == /\ g \in [0 .. n -> R] /\ g[0] = start
                       /\ \A k \in 1 .. n : g[k] = F[<<g[k - 1], k>>]
           Good(n) == \E g : Is(g, n)
           K == {n \in 0 .. N : Good(n)}
<1>0. F \in [R \X (1 .. N) -> R]
  BY DEF Steps
<1>1. Good(0)
  <2> DEFINE g == [k \in 0 .. 0 |-> start]
  <2>1. g \in [0 .. 0 -> R] /\ g[0] = start /\ 1 .. 0 = {}
    OBVIOUS
  <2> QED
    BY <2>1
<1>2. ASSUME NEW n \in 1 .. N, Good(n - 1) PROVE Good(n)
  <2>1. PICK h : Is(h, n - 1)
    BY <1>2
  <2> DEFINE g == [k \in 0 .. n |-> IF k = n THEN F[<<h[n - 1], n>>] ELSE h[k]]
  <2>2. n \in Nat /\ n # 0 /\ n - 1 \in 0 .. n - 1 /\ h[n - 1] \in R
    BY <2>1
  <2>3. g \in [0 .. n -> R]
    <3>1. F[<<h[n - 1], n>>] \in R
      BY <1>0, <2>2
    <3>2. \A k \in 0 .. n : k # n => k \in 0 .. n - 1
      BY <2>2
    <3> QED
      BY <2>1, <3>1, <3>2
  <2>4. g[0] = start
    BY <2>1, <2>2
  <2>5. ASSUME NEW k \in 1 .. n PROVE g[k] = F[<<g[k - 1], k>>]
    <3>1. k - 1 \in 0 .. n /\ k - 1 # n /\ g[k - 1] = h[k - 1]
      BY <2>2
    <3>2. CASE k = n
      BY <3>1, <3>2
    <3>3. CASE k # n
      <4>1. k \in 1 .. n - 1 /\ k \in 0 .. n
        BY <2>2, <3>3
      <4> QED
        BY <2>1, <3>1, <3>3, <4>1
    <3> QED
      BY <3>2, <3>3
  <2> HIDE DEF g
  <2> QED
    BY <2>3, <2>4, <2>5
<1> HIDE DEF Good
<1>3. 0 \in K
  BY <1>1
<1>4. \A n \in 1 .. N : n - 1 \in K => n \in K
  BY <1>2
<1>5. \A n \in 0 .. N : n \in K
  <2> HIDE DEF K
  <2> QED
    BY <1>3, <1>4, UpToBound, Zenon
<1> QED
  BY <1>5 DEF Good, IsFold

\* F says what a function has at an argument from the values it has at the
\* arguments of a smaller size, and looks at no other.
IsLocal(F, D, R, size) ==
  \A f, g \in [D -> R] : \A x \in D :
    (\A y \in D : size[y] < size[x] => f[y] = g[y]) => F[<<f, x>>] = F[<<g, x>>]
IsRecursion(F, D, R, size) ==
  size \in [D -> Nat] /\ F \in [[D -> R] \X D -> R] /\ IsLocal(F, D, R, size)
\* f is defined by F at every argument of size n or less.
DefinedTo(f, F, D, R, size, n) ==
  f \in [D -> R] /\ \A x \in D : size[x] <= n => f[x] = F[<<f, x>>]

\* There is such a function up to any size, whatever is left undefined.
LEMMA DefinedToExists ==
  ASSUME NEW D, NEW R, NEW r0 \in R, NEW size, NEW F, IsRecursion(F, D, R, size), NEW N \in Nat
  PROVE  \E f : DefinedTo(f, F, D, R, size, N)
<1> USE DEF IsRecursion
<1> DEFINE Good(n) == \E f : DefinedTo(f, F, D, R, size, n)
           K == {n \in 0 .. N : Good(n)}
           next(f) == [x \in D |-> F[<<f, x>>]]
<1>1. \A f \in [D -> R] : next(f) \in [D -> R]
  OBVIOUS
<1>2. Good(0)
  <2> DEFINE any == [x \in D |-> r0]
             f == next(any)
  <2>1. any \in [D -> R]
    OBVIOUS
  <2>2. f \in [D -> R]
    BY <1>1, <2>1
  <2>3. ASSUME NEW x \in D, size[x] <= 0 PROVE f[x] = F[<<f, x>>]
    <3>1. \A y \in D : ~ (size[y] < size[x])
      BY <2>3
    <3>2. F[<<any, x>>] = F[<<f, x>>]
      <4> HIDE DEF any, f
      <4> QED
        BY <2>1, <2>2, <3>1 DEF IsLocal
    <3> QED
      BY <3>2
  <2> HIDE DEF f
  <2> QED
    BY <2>2, <2>3 DEF DefinedTo
<1>3. ASSUME NEW n \in 1 .. N, Good(n - 1) PROVE Good(n)
  <2>1. PICK f : DefinedTo(f, F, D, R, size, n - 1)
    BY <1>3
  <2> DEFINE g == next(f)
  <2>2. f \in [D -> R] /\ g \in [D -> R]
    BY <1>1, <2>1 DEF DefinedTo
  <2>3. ASSUME NEW x \in D, size[x] <= n PROVE g[x] = F[<<g, x>>]
    <3>1. ASSUME NEW y \in D, size[y] < size[x] PROVE f[y] = g[y]
      <4>1. size[y] <= n - 1
        BY <2>3, <3>1
      <4> QED
        BY <2>1, <4>1 DEF DefinedTo
    <3>2. F[<<f, x>>] = F[<<g, x>>]
      <4> HIDE DEF g
      <4> QED
        BY <2>2, <3>1 DEF IsLocal
    <3> QED
      BY <3>2
  <2> HIDE DEF g
  <2> QED
    BY <2>2, <2>3 DEF DefinedTo
<1> HIDE DEF Good
<1>4. 0 \in K
  BY <1>2
<1>5. \A n \in 1 .. N : n - 1 \in K => n \in K
  BY <1>3
<1>6. \A n \in 0 .. N : n \in K
  <2> HIDE DEF K
  <2> QED
    BY <1>4, <1>5, UpToBound, Zenon
<1> QED
  BY <1>6 DEF Good

\* Two of them agree as far as both are defined.
Agrees(F, D, R, size) ==
  \A m, n \in Nat : \A f, g \in [D -> R] :
    m <= n /\ DefinedTo(f, F, D, R, size, m) /\ DefinedTo(g, F, D, R, size, n) =>
      \A x \in D : size[x] <= m => f[x] = g[x]
LEMMA DefinedToAgrees ==
  ASSUME NEW D, NEW R, NEW size, NEW F, IsRecursion(F, D, R, size)
  PROVE  Agrees(F, D, R, size)
<1> SUFFICES ASSUME NEW m \in Nat, NEW n \in Nat, NEW f \in [D -> R], NEW g \in [D -> R],
                    m <= n, DefinedTo(f, F, D, R, size, m), DefinedTo(g, F, D, R, size, n),
                    NEW x \in D, size[x] <= m, f[x] # g[x]
             PROVE  FALSE
  BY DEF Agrees
<1> USE DEF IsRecursion
<1> DEFINE K == {k \in 0 .. m : \E y \in D : size[y] = k /\ f[y] # g[y]}
<1>1. K \in SUBSET Nat /\ K # {}
  OBVIOUS
<1>2. PICK k \in K : \A j \in K : k <= j
  BY <1>1, LeastExists
<1>3. PICK y \in D : size[y] = k /\ f[y] # g[y]
  BY <1>2
<1>4. ASSUME NEW z \in D, size[z] < size[y] PROVE f[z] = g[z]
  <2>1. size[z] \in 0 .. m /\ ~ (k <= size[z])
    BY <1>2, <1>3, <1>4
  <2> QED
    BY <1>2, <2>1
<1>6. F[<<f, y>>] = F[<<g, y>>]
  BY <1>4 DEF IsLocal
<1>7. size[y] <= m /\ size[y] <= n
  BY <1>2, <1>3
<1> QED
  BY <1>3, <1>6, <1>7 DEF DefinedTo

\* So there is one that is defined everywhere.
DefinedBy(f, F, D, R) == f \in [D -> R] /\ \A x \in D : f[x] = F[<<f, x>>]
LEMMA RecursionExists ==
  ASSUME NEW D, NEW R, NEW r0 \in R, NEW size, NEW F, IsRecursion(F, D, R, size)
  PROVE  \E f : DefinedBy(f, F, D, R)
<1> DEFINE To(n) == CHOOSE f : DefinedTo(f, F, D, R, size, n)
           h == [x \in D |-> To(size[x])[x]]
<1>1. ASSUME NEW n \in Nat PROVE DefinedTo(To(n), F, D, R, size, n)
  <2>1. \E f : DefinedTo(f, F, D, R, size, n)
    BY DefinedToExists
  <2> QED
    BY <2>1
<1> HIDE DEF To
<1>2. \A n \in Nat : To(n) \in [D -> R]
  BY <1>1 DEF DefinedTo
<1>3. h \in [D -> R]
  BY <1>2 DEF IsRecursion
<1>4. Agrees(F, D, R, size)
  BY DefinedToAgrees
<1> USE DEF IsRecursion
<1>5. ASSUME NEW x \in D PROVE h[x] = F[<<h, x>>]
  <2> DEFINE s == To(size[x])
  <2>1. size[x] \in Nat /\ DefinedTo(s, F, D, R, size, size[x])
    BY <1>1
  <2>2. ASSUME NEW y \in D, size[y] < size[x] PROVE h[y] = s[y]
    <3>1. size[y] \in Nat /\ size[y] <= size[x] /\ size[y] <= size[y]
      BY <2>2
    <3>2. DefinedTo(To(size[y]), F, D, R, size, size[y])
      BY <1>1, <3>1
    <3> DEFINE u == To(size[y])
    <3>3. DefinedTo(u, F, D, R, size, size[y])
      BY <3>2
    <3>4. \A z \in D : size[z] <= size[y] => u[z] = s[z]
      <4>1. PICK m \in Nat : m = size[y]
        BY <3>1
      <4>2. PICK n \in Nat : n = size[x]
        BY <2>1
      <4> HIDE DEF s, u, h
      <4>3. DefinedTo(u, F, D, R, size, m) /\ DefinedTo(s, F, D, R, size, n) /\ m <= n
        BY <2>1, <3>1, <3>3, <4>1, <4>2
      <4>4. u \in [D -> R] /\ s \in [D -> R]
        BY <4>3 DEF DefinedTo
      <4>5. \A z \in D : size[z] <= m => u[z] = s[z]
        BY <1>4, <4>1, <4>2, <4>3, <4>4, SMTT(30) DEF Agrees
      <4> QED
        BY <4>1, <4>5
    <3>5. u[y] = s[y]
      <4> HIDE DEF s, u, h
      <4> QED
        BY <3>1, <3>4
    <3> QED
      BY <3>5
  <2>3. s[x] = F[<<s, x>>] /\ s \in [D -> R]
    <3> HIDE DEF s
    <3> QED
      BY <2>1 DEF DefinedTo
  <2>4. F[<<h, x>>] = F[<<s, x>>]
    <3> HIDE DEF s, h
    <3> QED
      BY <1>3, <2>2, <2>3 DEF IsLocal
  <2> QED
    BY <2>3, <2>4
<1> HIDE DEF h
<1> QED
  BY <1>3, <1>5 DEF DefinedBy
=============================================================================
