-------------------------- MODULE NamespaceProofs --------------------------
(* Proofs about Namespace.  Whatever the code of a package is, in any       *)
(* number of files and assignments, what the analyzer remembers of a name   *)
(* is what is certain of it under every order of loading.  Whatever its     *)
(* blocks ask of NAMESPACE comes to a directive or a report, and what it    *)
(* imports is what they ask of other packages; what its code registers is   *)
(* what R would register.                                                   *)
EXTENDS Namespace, FoldFacts, FiniteSetTheorems, SequenceTheorems, TLAPS

-----------------------------------------------------------------------------
(* What runs before what *)

\* The facts of a code and their files.
LEMMA CodeTypes ==
  ASSUME NEW c \in Code
  PROVE  /\ DOMAIN c.facts \subseteq Nat
         /\ \A i \in DOMAIN c.facts : c.facts[i].file \in Files /\ c.facts[i].value \in Values
         /\ c.collate \in BOOLEAN /\ c.opaque \subseteq Files
<1>1. c.facts \in Seq(Fact) /\ c.collate \in BOOLEAN /\ c.opaque \in SUBSET Files
  BY DEF Code
<1>2. DOMAIN c.facts \subseteq Nat /\ \A i \in DOMAIN c.facts : c.facts[i] \in Fact
  BY <1>1
<1> QED
  BY <1>1, <1>2 DEF Fact

\* An assignment that precedes another one is evaluated first, however the
\* files are loaded.
LEMMA PrecedesIsCertain ==
  ASSUME NEW c \in Code, NEW t \in DOMAIN c.facts, NEW a \in DOMAIN c.facts, Precedes(c, t, a)
  PROVE  EvaluatedFirst(c, LoadOrders(c), t, a)
<1>1. c.facts[t].file \in Files /\ c.facts[a].file \in Files
  BY CodeTypes
<1> QED
  BY <1>1 DEF Precedes, EvaluatedFirst, LoadOrders

\* One that does not comes later, or at the same time, in some order.
LEMMA OtherwiseIsUncertain ==
  ASSUME NEW c \in Code, NEW t \in DOMAIN c.facts, NEW a \in DOMAIN c.facts,
         EvaluatedFirst(c, LoadOrders(c), t, a)
  PROVE  Precedes(c, t, a)
<1> DEFINE from == c.facts[t].file
           to == c.facts[a].file
           ByName == [f \in Files |-> f]
           Backwards == [f \in Files |-> NumFiles + 1 - f]
           Late == [f \in Files |-> IF f = from THEN NumFiles + 1 ELSE f]
           Early == [f \in Files |-> IF f = to THEN 0 ELSE f]
<1>1. from \in Files /\ to \in Files /\ c.collate \in BOOLEAN /\ t \in Nat /\ a \in Nat
  BY CodeTypes
<1>2. Files = 1 .. NumFiles /\ NumFiles \in Nat
  BY NumFilesAssumption DEF Files
<1>3. ByName \in LoadOrders(c)
  BY <1>2 DEF LoadOrders
<1>4. c.collate => Backwards \in LoadOrders(c)
  <2>1. Backwards \in [Files -> 0 .. NumFiles + 1]
    BY <1>2
  <2>2. \A f, g \in Files : Backwards[f] = Backwards[g] => f = g
    BY <1>2
  <2> QED
    BY <2>1, <2>2 DEF LoadOrders
<1>5. from \in c.opaque => Late \in LoadOrders(c)
  <2>1. Late \in [Files -> 0 .. NumFiles + 1]
    BY <1>2
  <2>2. \A f, g \in Files : Late[f] = Late[g] => f = g
    BY <1>2
  <2>3. from \in c.opaque => \A f, g \in Files \ c.opaque : f < g => Late[f] < Late[g]
    BY <1>2
  <2> QED
    BY <2>1, <2>2, <2>3 DEF LoadOrders
<1>6. to \in c.opaque => Early \in LoadOrders(c)
  <2>1. Early \in [Files -> 0 .. NumFiles + 1]
    BY <1>2
  <2>2. \A f, g \in Files : Early[f] = Early[g] => f = g
    BY <1>2
  <2>3. to \in c.opaque => \A f, g \in Files \ c.opaque : f < g => Early[f] < Early[g]
    BY <1>2
  <2> QED
    BY <2>1, <2>2, <2>3 DEF LoadOrders
<1>7. \A o \in LoadOrders(c) : o[from] < o[to] \/ (from = to /\ t < a)
  BY DEF EvaluatedFirst
<1>8. CASE from = to
  <2>1. ByName[from] = ByName[to] /\ ByName[from] \in Nat
    BY <1>1, <1>2, <1>8
  <2> QED
    BY <1>3, <1>7, <1>8, <2>1 DEF Precedes
<1>9. CASE from # to
  <2>1. from < to
    BY <1>1, <1>3, <1>7, <1>9
  <2>2. ~ c.collate
    <3>1. Backwards[from] = NumFiles + 1 - from /\ Backwards[to] = NumFiles + 1 - to
      BY <1>1
    <3>2. ~ (NumFiles + 1 - from < NumFiles + 1 - to)
      BY <1>1, <1>2, <2>1
    <3> QED
      BY <1>4, <1>7, <1>9, <3>1, <3>2
  <2>3. from \notin c.opaque
    <3>1. Late[from] = NumFiles + 1 /\ Late[to] = to
      BY <1>1, <1>9
    <3>2. ~ (NumFiles + 1 < to)
      BY <1>1, <1>2
    <3> QED
      BY <1>5, <1>7, <1>9, <3>1, <3>2
  <2>4. to \notin c.opaque
    <3>1. Early[from] = from /\ Early[to] = 0
      BY <1>1, <1>9
    <3>2. ~ (from < 0)
      BY <1>1, <1>2
    <3> QED
      BY <1>6, <1>7, <1>9, <3>1, <3>2
  <2> QED
    BY <1>9, <2>1, <2>2, <2>3, <2>4 DEF Precedes
<1> QED
  BY <1>8, <1>9

\* binding_precedes_alias and target_precedes_alias are exact: they hold of
\* an assignment and an alias exactly when every order in which the files may
\* be loaded evaluates the assignment first, for any number of files.
THEOREM PrecedenceIsExact ==
  \A c \in Code : \A t, a \in DOMAIN c.facts :
    Precedes(c, t, a) <=> EvaluatedFirst(c, LoadOrders(c), t, a)
  BY PrecedesIsCertain, OtherwiseIsUncertain

-----------------------------------------------------------------------------
(* What names mean *)

\* Precedence has no cycles.
LEMMA PrecedenceIsStrict ==
  ASSUME NEW c \in Code, NEW t \in DOMAIN c.facts, NEW a \in DOMAIN c.facts,
         NEW b \in DOMAIN c.facts
  PROVE  /\ ~ Precedes(c, a, a)
         /\ Precedes(c, t, a) /\ Precedes(c, a, b) => Precedes(c, t, b)
<1>1. /\ t \in Nat /\ a \in Nat /\ b \in Nat
      /\ c.facts[t].file \in Nat /\ c.facts[a].file \in Nat /\ c.facts[b].file \in Nat
  BY CodeTypes, NumFilesAssumption DEF Files
<1> QED
  BY <1>1 DEF Precedes

\* The copies are the aliases that stand for an assignment.
LEMMA CopiesAre ==
  ASSUME NEW c \in Code
  PROVE  \A a, t \in DOMAIN c.facts : <<a, t>> \in Copies(c) <=> StandsFor(c, a, t)
<1> SUFFICES ASSUME NEW a \in DOMAIN c.facts, NEW t \in DOMAIN c.facts
             PROVE  <<a, t>> \in Copies(c) <=> StandsFor(c, a, t)
  OBVIOUS
<1>1. Precedes(c, t, a) <=> EvaluatedFirst(c, LoadOrders(c), t, a)
  BY PrecedenceIsExact
<1>2. <<a, t>> \in Copies(c) <=>
        /\ c.facts[a].value = "alias"
        /\ FactsOf(c, c.facts[a].target) = {t}
        /\ EvaluatedFirst(c, LoadOrders(c), t, a)
  BY DEF Copies
<1> QED
  BY <1>1, <1>2 DEF StandsFor

\* An alias means what it follows means.
LEMMA FollowedMeans ==
  ASSUME code \in Code, NEW n, NEW m, NEW r, CanFollow(n, m), Means(code, m, r)
  PROVE  Means(code, n, r)
<1>1. PICK a \in DOMAIN code.facts, t \in DOMAIN code.facts :
        FactsOf(code, n) = {a} /\ StandsFor(code, a, t) /\ code.facts[t].name = m
  BY DEF CanFollow
<1>2. FactsOf(code, m) = {t}
  BY <1>1 DEF StandsFor, FactsOf
<1>3. <<a, t>> \in Copies(code)
  BY <1>1, CopiesAre
<1>4. PICK u \in DOMAIN code.facts : /\ ComesFrom(code, Copies(code), t, u)
                                     /\ \A e \in Copies(code) : e[1] # u
                                     /\ r = OwnMeaning(code, u)
  BY <1>2 DEF Means
<1>5. ComesFrom(code, Copies(code), a, u)
  BY <1>3, <1>4 DEF ComesFrom
<1> QED
  BY <1>1, <1>4, <1>5 DEF Means

\* A name that follows none means what its own assignment says.
LEMMA OwnMeans ==
  ASSUME code \in Code, NEW n, ~ \E i \in DOMAIN code.facts : CanFollow(n, code.facts[i].target)
  PROVE  Means(code, n, OwnResolution(n))
<1>1. CASE \E i \in DOMAIN code.facts : FactsOf(code, n) = {i}
  <2>1. PICK i \in DOMAIN code.facts : FactsOf(code, n) = {i}
    BY <1>1
  <2>2. (CHOOSE j \in DOMAIN code.facts : FactsOf(code, n) = {j}) = i
    BY <2>1
  <2>3. OwnResolution(n) = OwnMeaning(code, i)
    BY <1>1, <2>2 DEF OwnResolution
  <2>4. \A e \in Copies(code) : e[1] # i
    <3> SUFFICES ASSUME NEW e \in Copies(code), e[1] = i PROVE FALSE
      OBVIOUS
    <3>1. PICK t \in DOMAIN code.facts : e = <<i, t>>
      BY DEF Copies
    <3>2. StandsFor(code, i, t)
      BY <3>1, CopiesAre
    <3>3. code.facts[t].name = code.facts[i].target
      BY <3>2 DEF StandsFor, FactsOf
    <3> QED
      BY <2>1, <3>2, <3>3 DEF CanFollow
  <2>5. ComesFrom(code, Copies(code), i, i)
    BY DEF ComesFrom
  <2> QED
    BY <2>1, <2>3, <2>4, <2>5 DEF Means
<1>2. CASE ~ \E i \in DOMAIN code.facts : FactsOf(code, n) = {i}
  BY <1>2 DEF Means, OwnResolution
<1> QED
  BY <1>1, <1>2

-----------------------------------------------------------------------------
(* The analyzer *)

\* m and n each have one assignment, and that of m precedes that of n.
Before(m, n) ==
  \E a, t \in DOMAIN code.facts :
    FactsOf(code, n) = {a} /\ FactsOf(code, m) = {t} /\ Precedes(code, t, a)

\* Each call under way follows its alias, whose assignment comes before that
\* of every caller; a call that has an answer has that of its alias.
AnalyzerInv ==
  /\ code \in Code
  /\ \E S : chain \in Seq(S)
  /\ \A k \in 1 .. Len(chain) - 1 : CanFollow(chain[k], chain[k + 1])
  /\ \A i, j \in 1 .. Len(chain) : i < j => Before(chain[j], chain[i])
  /\ chain # <<>> /\ answer # NoAnswer => \E m : CanFollow(Top, m) /\ Means(code, m, answer)
  /\ MemoIsMeaning

\* The guard against cycles is never met.
LEMMA NoCycle ==
  ASSUME AnalyzerInv, chain # <<>>
  PROVE  Top \notin Visited
<1>1. Len(chain) \in Nat /\ Len(chain) > 0
  BY DEF AnalyzerInv
<1>2. ASSUME NEW k \in 1 .. Len(chain) - 1, chain[k] = Top PROVE FALSE
  <2>1. Before(Top, Top)
    BY <1>1, <1>2 DEF AnalyzerInv, Top
  <2>2. PICK a \in DOMAIN code.facts, t \in DOMAIN code.facts :
          FactsOf(code, Top) = {a} /\ FactsOf(code, Top) = {t} /\ Precedes(code, t, a)
    BY <2>1 DEF Before
  <2>3. a = t
    BY <2>2
  <2> QED
    BY <2>2, <2>3, PrecedenceIsStrict DEF AnalyzerInv
<1> QED
  BY <1>2 DEF Visited

\* A sequence that is not empty, without its last element.
LEMMA Shortened ==
  ASSUME NEW S, NEW s \in Seq(S), s # <<>>
  PROVE  /\ Len(s) \in Nat \ {0} /\ SubSeq(s, 1, Len(s) - 1) \in Seq(S)
         /\ Len(SubSeq(s, 1, Len(s) - 1)) = Len(s) - 1
         /\ \A k \in 1 .. Len(s) - 1 : SubSeq(s, 1, Len(s) - 1)[k] = s[k]
<1>1. Len(s) \in Nat \ {0} /\ DOMAIN s = 1 .. Len(s)
  BY EmptySeq, LenProperties
<1>2. \A k \in 1 .. Len(s) - 1 : s[k] \in S
  BY <1>1, ElementOfSeq
<1> QED
  BY <1>1, <1>2, SubSeqProperties

\* When the innermost call returns, the calls that are left are in order, and
\* the innermost of them follows the one that returns.
LEMMA Returns ==
  ASSUME AnalyzerInv, chain # <<>>, chain' = Callers, code' = code, MemoIsMeaning',
         Means(code, Top, answer')
  PROVE  AnalyzerInv'
<1>1. PICK S : chain \in Seq(S)
  BY DEF AnalyzerInv
<1>2. Len(chain) \in Nat /\ Len(chain) > 0
  BY <1>1
<1>3. /\ chain' \in Seq(S) /\ Len(chain') = Len(chain) - 1
      /\ \A k \in 1 .. Len(chain) - 1 : chain'[k] = chain[k]
  BY <1>1, Shortened DEF Callers
<1>4. /\ \A n, m : CanFollow(n, m)' = CanFollow(n, m)
      /\ \A n, m : Before(n, m)' = Before(n, m)
  BY DEF CanFollow, Before
<1>5. ASSUME NEW k \in 1 .. Len(chain') - 1
      PROVE  CanFollow(chain[k], chain[k + 1])'
  <2>1. k \in 1 .. Len(chain) - 1 /\ k + 1 \in 1 .. Len(chain) - 1
    BY <1>2, <1>3
  <2>2. CanFollow(chain[k], chain[k + 1])
    BY <2>1 DEF AnalyzerInv
  <2> QED
    BY <1>3, <1>4, <2>1, <2>2
<1>6. ASSUME NEW i \in 1 .. Len(chain'), NEW j \in 1 .. Len(chain'), i < j
      PROVE  Before(chain[j], chain[i])'
  <2>1. i \in 1 .. Len(chain) - 1 /\ j \in 1 .. Len(chain) - 1
    BY <1>2, <1>3
  <2>2. i \in 1 .. Len(chain) /\ j \in 1 .. Len(chain)
    BY <1>2, <2>1
  <2>3. Before(chain[j], chain[i])
    BY <1>6, <2>2 DEF AnalyzerInv
  <2> QED
    BY <1>3, <1>4, <2>1, <2>3
<1>7. ASSUME chain' # <<>>
      PROVE  \E m : CanFollow(Top, m)' /\ Means(code, m, answer)'
  <2>1. Len(chain') \in Nat \ {0}
    BY <1>3, <1>7, EmptySeq
  <2>2. Len(chain) - 1 \in 1 .. Len(chain) - 1 /\ Len(chain) - 1 + 1 = Len(chain)
    BY <1>2, <1>3, <2>1
  <2>3. CanFollow(chain[Len(chain) - 1], Top)
    BY <2>2 DEF AnalyzerInv, Top
  <2>4. Top' = chain[Len(chain) - 1]
    BY <1>3, <2>2 DEF Top
  <2>5. PICK n, m : n = chain[Len(chain) - 1] /\ m = Top
    OBVIOUS
  <2>6. CanFollow(Top, m)'
    BY <1>4, <2>3, <2>4, <2>5
  <2>7. Means(code, m, answer)'
    BY <2>5
  <2> QED
    BY <2>6, <2>7
<1>8. (code \in Code)' /\ (\E T : chain \in Seq(T))'
  BY <1>3 DEF AnalyzerInv
<1> QED
  BY <1>5, <1>6, <1>7, <1>8 DEF AnalyzerInv

\* What is remembered of a name is what it means, after a name is remembered
\* with what it means.
LEMMA Remembers ==
  ASSUME MemoIsMeaning, code' = code, NEW n, NEW r, Means(code, n, r), Remember(n, r)
  PROVE  MemoIsMeaning'
<1>1. \A m, q : Means(code, m, q)' <=> Means(code, m, q)
  BY DEF Means
<1>2. ASSUME NEW m \in DOMAIN memo' PROVE Means(code, m, memo'[m])
  <2>1. m \in DOMAIN memo \cup {n} /\ memo'[m] = IF m = n THEN r ELSE memo[m]
    BY <1>2 DEF Remember
  <2>2. CASE m = n
    BY <2>1, <2>2
  <2>3. CASE m # n
    BY <2>1, <2>3 DEF MemoIsMeaning
  <2> QED
    BY <2>2, <2>3
<1> QED
  BY <1>1, <1>2 DEF MemoIsMeaning

\* The invariant does not look at the question under analysis, and what it
\* says of an answer is nothing when there is none.
LEMMA Unanswered ==
  ASSUME AnalyzerInv, UNCHANGED <<code, memo, chain>>, answer' = answer \/ answer' = NoAnswer
  PROVE  AnalyzerInv'
<1>1. /\ \A n, m : CanFollow(n, m)' = CanFollow(n, m)
      /\ \A n, m : Before(n, m)' = Before(n, m)
      /\ \A n, r : Means(code, n, r)' = Means(code, n, r)
  BY DEF CanFollow, Before, Means
<1>2. MemoIsMeaning'
  BY <1>1 DEF AnalyzerInv, MemoIsMeaning
<1>3. (\A k \in 1 .. Len(chain) - 1 : CanFollow(chain[k], chain[k + 1]))'
  BY <1>1 DEF AnalyzerInv
<1>4. (\A i, j \in 1 .. Len(chain) : i < j => Before(chain[j], chain[i]))'
  BY <1>1 DEF AnalyzerInv
<1>5. (chain # <<>> /\ answer # NoAnswer => \E m : CanFollow(Top, m) /\ Means(code, m, answer))'
  <2> SUFFICES ASSUME chain' # <<>>, answer' # NoAnswer'
               PROVE  \E m : CanFollow(Top, m)' /\ Means(code, m, answer)'
    OBVIOUS
  <2>1. answer' = answer
    BY DEF NoAnswer
  <2>2. PICK m : CanFollow(Top, m) /\ Means(code, m, answer)
    BY <2>1 DEF AnalyzerInv, NoAnswer
  <2>3. Top' = Top
    BY DEF Top
  <2>4. CanFollow(Top, m)' /\ Means(code, m, answer)'
    BY <1>1, <2>1, <2>2, <2>3
  <2> QED
    BY <2>4
<1> QED
  BY <1>2, <1>3, <1>4, <1>5 DEF AnalyzerInv

\* A question starts with one call.
LEMMA Asks ==
  ASSUME AnalyzerInv, NEW n, Resolve(n), code' = code
  PROVE  AnalyzerInv'
<1>1. chain' = <<n>> /\ answer' = NoAnswer /\ memo' = memo
  BY DEF Resolve
<1>2. chain' \in Seq({n}) /\ Len(chain') = 1
  BY <1>1
<1>3. \A m, r : Means(code, m, r)' = Means(code, m, r)
  BY DEF Means
<1>4. MemoIsMeaning'
  BY <1>1, <1>3 DEF AnalyzerInv, MemoIsMeaning
<1>5. \A k \in 1 .. Len(chain') - 1 : FALSE
  BY <1>2
<1>6. \A i, j \in 1 .. Len(chain') : ~ (i < j)
  BY <1>2
<1>7. (code \in Code)' /\ (\E T : chain \in Seq(T))' /\ answer' = NoAnswer'
  BY <1>1, <1>2 DEF AnalyzerInv, NoAnswer
<1> QED
  BY <1>4, <1>5, <1>6, <1>7 DEF AnalyzerInv

\* A call that can follow its alias makes a call for it, which every call
\* under way comes after.
LEMMA Follows ==
  ASSUME AnalyzerInv, Follow
  PROVE  AnalyzerInv'
<1>1. PICK i \in DOMAIN code.facts :
        /\ CanFollow(Top, code.facts[i].target)
        /\ chain' = Append(chain, code.facts[i].target)
  BY DEF Follow
<1>2. PICK n, m : n = Top /\ m = code.facts[i].target
  OBVIOUS
<1>3. CanFollow(n, m) /\ chain' = Append(chain, m)
  BY <1>1, <1>2
<1>4. Before(m, n)
  <2>1. PICK a \in DOMAIN code.facts, t \in DOMAIN code.facts :
          FactsOf(code, n) = {a} /\ StandsFor(code, a, t) /\ code.facts[t].name = m
    BY <1>3 DEF CanFollow
  <2>2. FactsOf(code, m) = {t} /\ Precedes(code, t, a)
    BY <2>1 DEF StandsFor, FactsOf
  <2> QED
    BY <2>1, <2>2 DEF Before
<1>5. UNCHANGED <<code, memo, answer>> /\ answer = NoAnswer /\ chain # <<>>
  BY DEF Follow, Enter, Resolving
<1>6. PICK S : chain \in Seq(S)
  BY DEF AnalyzerInv
<1>7. chain \in Seq(S \cup {m}) /\ m \in S \cup {m}
  BY <1>6, SeqMonotonic
<1>8. /\ chain' \in Seq(S \cup {m}) /\ Len(chain') = Len(chain) + 1
      /\ \A k \in 1 .. Len(chain) : chain'[k] = chain[k]
      /\ chain'[Len(chain) + 1] = m
  BY <1>3, <1>7, AppendProperties
<1>9. Len(chain) \in Nat \ {0} /\ chain[Len(chain)] = n
  BY <1>2, <1>5, <1>6, Shortened DEF Top
<1>10. /\ \A p, q : CanFollow(p, q)' = CanFollow(p, q)
       /\ \A p, q : Before(p, q)' = Before(p, q)
       /\ \A p, r : Means(code, p, r)' = Means(code, p, r)
  BY <1>5 DEF CanFollow, Before, Means
<1>11. ASSUME NEW k \in 1 .. Len(chain') - 1 PROVE CanFollow(chain[k], chain[k + 1])'
  <2>1. k \in 1 .. Len(chain) /\ chain'[k] = chain[k]
    BY <1>8, <1>9
  <2>2. CASE k = Len(chain)
    BY <1>3, <1>8, <1>9, <1>10, <2>1, <2>2
  <2>3. CASE k # Len(chain)
    <3>1. k \in 1 .. Len(chain) - 1 /\ k + 1 \in 1 .. Len(chain)
      BY <1>9, <2>1, <2>3
    <3>2. CanFollow(chain[k], chain[k + 1]) /\ chain'[k + 1] = chain[k + 1]
      BY <1>8, <3>1 DEF AnalyzerInv
    <3> QED
      BY <1>10, <2>1, <3>2
  <2> QED
    BY <2>2, <2>3
<1>12. ASSUME NEW k \in 1 .. Len(chain), NEW p, p = chain[k] PROVE Before(m, p)
  <2>1. CASE k = Len(chain)
    BY <1>4, <1>9, <1>12, <2>1
  <2>2. CASE k # Len(chain)
    <3>1. k < Len(chain) /\ Len(chain) \in 1 .. Len(chain)
      BY <1>9, <2>2
    <3>2. Before(n, p)
      BY <1>9, <1>12, <3>1 DEF AnalyzerInv
    <3>3. PICK a \in DOMAIN code.facts, t \in DOMAIN code.facts :
            FactsOf(code, p) = {a} /\ FactsOf(code, n) = {t} /\ Precedes(code, t, a)
      BY <3>2 DEF Before
    <3>4. PICK b \in DOMAIN code.facts, u \in DOMAIN code.facts :
            FactsOf(code, n) = {b} /\ FactsOf(code, m) = {u} /\ Precedes(code, u, b)
      BY <1>4 DEF Before
    <3>5. b = t
      BY <3>3, <3>4
    <3>6. Precedes(code, u, a)
      BY <3>3, <3>4, <3>5, PrecedenceIsStrict DEF AnalyzerInv
    <3> QED
      BY <3>3, <3>4, <3>6 DEF Before
  <2> QED
    BY <2>1, <2>2
<1>13. ASSUME NEW k \in 1 .. Len(chain'), NEW j \in 1 .. Len(chain'), k < j
       PROVE  Before(chain[j], chain[k])'
  <2>1. k \in 1 .. Len(chain) /\ chain'[k] = chain[k]
    BY <1>8, <1>9, <1>13
  <2>2. CASE j = Len(chain) + 1
    BY <1>8, <1>10, <1>12, <2>1, <2>2
  <2>3. CASE j # Len(chain) + 1
    <3>1. j \in 1 .. Len(chain) /\ chain'[j] = chain[j]
      BY <1>8, <1>9, <2>3
    <3>2. Before(chain[j], chain[k])
      BY <1>13, <2>1, <3>1 DEF AnalyzerInv
    <3> QED
      BY <1>10, <2>1, <3>1, <3>2
  <2> QED
    BY <2>2, <2>3
<1>14. MemoIsMeaning'
  BY <1>5, <1>10 DEF AnalyzerInv, MemoIsMeaning
<1>15. (code \in Code)' /\ (\E T : chain \in Seq(T))' /\ answer' = NoAnswer
  BY <1>5, <1>8 DEF AnalyzerInv
<1> QED
  BY <1>11, <1>13, <1>14, <1>15 DEF AnalyzerInv, NoAnswer

\* A call that ends returns what its name means, and the memo stays true.
LEMMA Answers ==
  ASSUME AnalyzerInv, Recall \/ Conclude \/ Settle
  PROVE  /\ chain # <<>> /\ chain' = Callers /\ code' = code
         /\ MemoIsMeaning' /\ Means(code, Top, answer')
<1>1. code \in Code /\ MemoIsMeaning
  BY DEF AnalyzerInv
<1>2. CASE Recall
  <2>1. /\ chain # <<>> /\ chain' = Callers /\ UNCHANGED <<code, memo>>
        /\ Top \in DOMAIN memo \/ Top \in Visited
        /\ answer' = IF Top \in DOMAIN memo THEN memo[Top] ELSE "unknown"
    BY <1>2 DEF Recall, Resolving
  <2>2. Top \in DOMAIN memo
    BY <2>1, NoCycle
  <2>3. Means(code, Top, answer')
    BY <1>1, <2>1, <2>2 DEF MemoIsMeaning
  <2>4. MemoIsMeaning'
    <3>1. \A n, r : Means(code, n, r)' = Means(code, n, r)
      BY <2>1 DEF Means
    <3> QED
      BY <1>1, <2>1, <3>1 DEF MemoIsMeaning
  <2> QED
    BY <2>1, <2>3, <2>4
<1>3. CASE Conclude
  <2>1. /\ chain # <<>> /\ chain' = Callers /\ code' = code
        /\ ~ \E i \in DOMAIN code.facts : CanFollow(Top, code.facts[i].target)
        /\ answer' = OwnResolution(Top) /\ Remember(Top, OwnResolution(Top))
    BY <1>3 DEF Conclude, Enter, Resolving
  <2>2. Means(code, Top, OwnResolution(Top))
    BY <1>1, <2>1, OwnMeans
  <2>3. MemoIsMeaning'
    BY <1>1, <2>1, <2>2, Remembers
  <2> QED
    BY <2>1, <2>2, <2>3
<1>4. CASE Settle
  <2>1. /\ chain # <<>> /\ answer # NoAnswer /\ Remember(Top, answer)
        /\ chain' = Callers /\ UNCHANGED <<code, answer>>
    BY <1>4 DEF Settle
  <2>2. PICK m : CanFollow(Top, m) /\ Means(code, m, answer)
    BY <2>1 DEF AnalyzerInv
  <2>3. Means(code, Top, answer)
    BY <1>1, <2>2, FollowedMeans
  <2>4. MemoIsMeaning'
    BY <1>1, <2>1, <2>3, Remembers
  <2>5. Means(code, Top, answer')
    BY <2>1, <2>3
  <2> QED
    BY <2>1, <2>4, <2>5
<1> QED
  BY <1>2, <1>3, <1>4

\* So it hands its caller what its alias means.
LEMMA Ends ==
  ASSUME AnalyzerInv, Recall \/ Conclude \/ Settle
  PROVE  AnalyzerInv'
  BY Answers, Returns

\* An analysis starts with a question, or with none.
LEMMA Analyses ==
  ASSUME AnalyzerInv, NEW n, Analyze(n)
  PROVE  AnalyzerInv'
<1>1. CASE Len(n) > 1
  BY <1>1, Asks DEF Analyze
<1>2. CASE ~ (Len(n) > 1)
  BY <1>2, Unanswered DEF Analyze
<1> QED
  BY <1>1, <1>2

-----------------------------------------------------------------------------
(* The steps *)

\* The analyzer keeps its invariant.
LEMMA AnalyzerKeeps ==
  ASSUME AnalyzerInv, AnalyzerStep
  PROVE  AnalyzerInv'
<1>1. CASE Recall \/ Conclude \/ Settle
  BY <1>1, Ends
<1>2. CASE Follow
  BY <1>2, Follows
<1>3. CASE WeighObject
  BY <1>3, Unanswered DEF WeighObject
<1>4. CASE AskLocal
  <2>1. Resolve(Candidate.generic) /\ code' = code
    BY <1>4 DEF AskLocal
  <2>2. PICK n : n = Candidate.generic
    OBVIOUS
  <2>3. Resolve(n)
    BY <2>1, <2>2 DEF Resolve
  <2> QED
    BY <2>1, <2>3, Asks
<1>5. CASE AskInstalled
  BY <1>5, Unanswered DEF AskInstalled
<1>6. CASE WeighGeneric
  BY <1>6, Unanswered DEF WeighGeneric
<1>7. CASE GiveUp
  BY <1>7, Unanswered DEF GiveUp
<1> QED
  BY <1>1, <1>2, <1>3, <1>4, <1>5, <1>6, <1>7 DEF AnalyzerStep

\* A step that leaves the analyzer alone keeps its invariant.
LEMMA Untouched ==
  ASSUME AnalyzerInv, UNCHANGED analyzer
  PROVE  AnalyzerInv'
  BY Unanswered DEF analyzer

\* A new analyzer remembers nothing, and no call of it is under way.
LEMMA Starts ==
  ASSUME code \in Code, NewAnalyzer
  PROVE  AnalyzerInv
<1>1. memo = <<>> /\ chain = <<>> /\ answer = NoAnswer
  BY DEF NewAnalyzer
<1>2. chain \in Seq({}) /\ Len(chain) = 0
  BY <1>1
<1>3. DOMAIN memo = {}
  BY <1>1
<1>4. (\A k \in 1 .. Len(chain) - 1 : FALSE) /\ (\A i, j \in 1 .. Len(chain) : FALSE)
  BY <1>2
<1>5. MemoIsMeaning
  BY <1>3 DEF MemoIsMeaning
<1> QED
  BY <1>1, <1>2, <1>4, <1>5 DEF AnalyzerInv

\* The analyzer that each owner makes is new.
LEMMA Renews ==
  ASSUME AnalyzerInv, NEW generics, Renew(generics)
  PROVE  AnalyzerInv'
<1>1. memo' = <<>> /\ chain' = <<>> /\ answer' = NoAnswer /\ code' = code
  BY DEF Renew
<1>2. chain' \in Seq({}) /\ Len(chain') = 0
  BY <1>1
<1>3. DOMAIN memo' = {}
  BY <1>1
<1>4. (\A k \in 1 .. Len(chain') - 1 : FALSE) /\ (\A i, j \in 1 .. Len(chain') : FALSE)
  BY <1>2
<1>5. MemoIsMeaning'
  BY <1>3 DEF MemoIsMeaning
<1>6. (code \in Code)' /\ (\E T : chain \in Seq(T))' /\ ~ (chain # <<>>)'
  BY <1>1, <1>2 DEF AnalyzerInv
<1> QED
  BY <1>4, <1>5, <1>6 DEF AnalyzerInv

\* Every step of the program keeps the invariant of the analyzer.
LEMMA StepKeeps ==
  ASSUME AnalyzerInv, [Next]_vars
  PROVE  AnalyzerInv'
<1>1. CASE ExtractCall
  BY <1>1, Untouched DEF ExtractCall
<1>2. CASE TrackS7
  BY <1>2, Untouched DEF TrackS7
<1>3. CASE ValidateTarget
  BY <1>3, Untouched DEF ValidateTarget
<1>4. CASE MergeBlock
  BY <1>4, Untouched DEF MergeBlock
<1>5. CASE SkipUsage
  BY <1>5, Untouched DEF SkipUsage
<1>6. CASE ClassifyUsage
  <2>1. PICK n : n = usages[at].object
    OBVIOUS
  <2>2. Analyze(n)
    BY <1>6, <2>1 DEF ClassifyUsage, Analyze, Resolve
  <2> QED
    BY <2>2, Analyses
<1>7. CASE TakeUsageVerdict
  BY <1>7, Unanswered DEF TakeUsageVerdict, Dismiss
<1>8. CASE NameReexport
  BY <1>8, Untouched DEF NameReexport
<1>9. CASE CollectTag
  BY <1>9, Untouched DEF CollectTag
<1>10. CASE AskExport
  <2>1. PICK n : n = Object(BlockOf(requests[at]))
    OBVIOUS
  <2>2. Analyze(n)
    BY <1>10, <2>1 DEF AskExport, Analyze, Resolve
  <2> QED
    BY <2>2, Analyses
<1>11. CASE TakeExportVerdict
  BY <1>11, Unanswered DEF TakeExportVerdict, Dismiss
<1>12. CASE AskFunction
  <2>1. PICK n : n = Object(BlockOf(requests[at]))
    OBVIOUS
  <2>2. Resolve(n) /\ code' = code
    BY <1>12, <2>1 DEF AskFunction, Resolve
  <2> QED
    BY <2>2, Asks
<1>13. CASE TakeFunctionAnswer
  BY <1>13, Unanswered DEF TakeFunctionAnswer, Dismiss
<1>14. CASE Render
  BY <1>14, Untouched DEF Render
<1>15. CASE EndStage
  <2>1. CASE stage' \in {"reclassify", "reexport"}
    BY <1>15, <2>1, Renews DEF EndStage
  <2>2. CASE stage' \notin {"reclassify", "reexport"}
    BY <1>15, <2>2, Untouched DEF EndStage
  <2> QED
    BY <2>1, <2>2
<1>16. CASE Analyzer
  BY <1>16, AnalyzerKeeps DEF Analyzer
<1>17. CASE Built \/ UNCHANGED vars
  BY <1>17, Untouched DEF Built, vars
<1> QED
  BY <1>1, <1>2, <1>3, <1>4, <1>5, <1>6, <1>7, <1>8, <1>9, <1>10, <1>11, <1>12,
     <1>13, <1>14, <1>15, <1>16, <1>17 DEF Next

\* Whatever the code of a package is and whatever has been asked before, what
\* the analyzer remembers of a name is what is certain of it under every
\* order in which the files may be loaded (S3Analyzer::resolve).
THEOREM MemoSafe == Spec => []MemoIsMeaning
<1>1. Init => AnalyzerInv
  <2> SUFFICES ASSUME Init PROVE AnalyzerInv
    OBVIOUS
  <2>1. code \in Code /\ NewAnalyzer
    BY FamiliesAssumption DEF Init
  <2> QED
    BY <2>1, Starts
<1>2. AnalyzerInv /\ [Next]_vars => AnalyzerInv'
  BY StepKeeps
<1>3. AnalyzerInv => MemoIsMeaning
  BY DEF AnalyzerInv
<1> QED
  BY <1>1, <1>2, <1>3, PTL DEF Spec

-----------------------------------------------------------------------------
(* Requests and what becomes of them *)

Request == [tag : Tag, block : Nat]
Member == [package : STRING, member : Names]
\* The items of a stage that are done.
IsMerged(i) == stage \in {"classify", "reclassify", "reexport", "collect", "render", "done"} \/ (stage = "merge" /\ i < at)
IsRenamed(i) == stage \in {"collect", "render", "done"} \/ (stage = "reexport" /\ i < at)
IsCollected(k) == stage \in {"render", "done"} \/ (stage = "collect" /\ k < at)

StageNames ==
  {"extract", "track", "validate", "merge", "classify", "reclassify", "reexport", "collect", "render", "done"}

\* What the stages pass on is of the blocks and their tags.
InputInv ==
  /\ stage \in StageNames /\ at \in Nat \ {0}
  /\ input.here \in Names /\ input.blocks \in Seq(Block)
  /\ \A b \in Range(input.blocks) : IsBlockOf(b, code)
  /\ requests \in Seq(Request)
  /\ \A r \in Range(requests) :
       r.block \in DOMAIN input.blocks /\ r.tag \in Range(BlockOf(r).tags)
  /\ reexports \in Seq(Member)

\* The re-exports are those of the documented blocks that are merged.
MemberOf(b) == [package |-> b.package, member |-> b.member]
MergeInv ==
  Range(reexports) =
    {MemberOf(input.blocks[i]) :
       i \in {i \in DOMAIN input.blocks : /\ IsMerged(i)
                                         /\ IsReexport(input.blocks[i]) /\ input.blocks[i].documented}}

\* What tag t asks to be imported from another package, and what directives
\* import from where.
Asked(t) ==
  IF t.kind = "importFrom" /\ Len(t.words) > 1 /\ AllDecode(t.words) /\ ~IsHere(t.words[1])
  THEN {<<t.words[1].name, t.words[j].name>> : j \in 2 .. Len(t.words)} ELSE {}
Imported(D) ==
  UNION {{<<l.of.name, w.name>> : w \in Range(l.names)} : l \in {l \in D : l.kind = "importFrom"}}
NoneOfItself(D) == \A l \in D : l.kind = "import" /\ ~HasComma(l.names) => ~IsHere(l.names[1])
NamedBy(x) == Directive("importFrom", Named(<<x.package>>), <<Named(x.member)>>)

\* Request k has led to a directive or a report, or need not.
IsAnswered(k) ==
  \/ SaidOf(k) # {} \/ IsNull(requests[k].tag)
  \/ \E r \in reports : r.stage = "collect" /\ r.at = k
  \/ k \in BareExports /\ \E r \in reports :
       /\ r.stage = "collect" /\ r.what = "unresolved-s3-export" /\ r.at < k
       /\ Object(BlockOf(requests[r.at])) = Object(BlockOf(requests[k]))

\* The stages in which there are no directives yet.
IsEarly == stage \in {"extract", "track", "validate", "merge", "classify", "reclassify"}

\* A directive is that of a request that is collected, or the import of a
\* re-export.
ComesFromSome(d) ==
  \/ d.from \in DOMAIN requests /\ IsCollected(d.from)
  \/ d.from = NoRequest /\ \E i \in DOMAIN reexports :
       <<reexports[i].package>> # input.here /\ d.says = NamedBy(reexports[i])

\* Re-export i has its import.
IsNamed(i) ==
  IsRenamed(i) /\ <<reexports[i].package>> # input.here
    => [from |-> NoRequest, says |-> NamedBy(reexports[i])] \in directives

\* Request k has been dealt with.
IsDealt(k) ==
  Imported(SaidOf(k)) = Asked(requests[k].tag) /\ NoneOfItself(SaidOf(k)) /\ IsAnswered(k)

\* Object n has a report.
IsWarned(n) ==
  \E r \in reports :
    /\ r.stage = "collect" /\ r.what = "unresolved-s3-export"
    /\ r.at \in DOMAIN requests /\ IsCollected(r.at)
    /\ Object(BlockOf(requests[r.at])) = n

CollectInv ==
  /\ IsEarly => directives = {} /\ warned = {}
  /\ \A d \in directives : ComesFromSome(d)
  /\ \A i \in DOMAIN reexports : IsNamed(i)
  /\ \A k \in DOMAIN requests : IsCollected(k) => IsDealt(k)
  /\ \A n \in warned : IsWarned(n)

\* What is under analysis is the object of the request at hand.
AskInv ==
  /\ stage \in {"extract", "track", "validate", "merge", "reexport"} => object = NoName
  /\ stage = "collect" /\ object # NoName =>
       at \in DOMAIN requests /\ AsksExport(requests[at]) /\ object = Object(BlockOf(requests[at]))
  /\ verdict \in {"none", "export", "method", "unresolved"}

-----------------------------------------------------------------------------
(* Tags *)

\* Only @exportS3Method reads a package in a word.
IsBare(tag) == tag.kind # "exportS3Method" => \A w \in Range(tag.words) : w.package = ""

\* A word keeps its name when it is written out.
LEMMA RenderedName ==
  ASSUME NEW w \in Words
  PROVE  /\ Rendered(w) \in [package : STRING, name : Names, spelling : {"plain", "quoted"}]
         /\ Rendered(w).name = w.name /\ Rendered(w).package = w.package
         /\ Rendered(w).spelling # "comma"
         /\ IsHere(Rendered(w)) <=> IsHere(w)
  BY DEF Rendered, Words, IsHere

\* A directive of one word for each of W.
LEMMA EachIs ==
  ASSUME NEW kind, NEW of, NEW W, NEW l \in Each(kind, of, W)
  PROVE  l.kind = kind /\ \E w \in W : l.names = <<Rendered(w)>>
  BY DEF Each, Directive

\* Kinds of directives that are no imports import nothing.
LEMMA ImportsNothing ==
  ASSUME NEW D, \A l \in D : l.kind \notin {"import", "importFrom"}
  PROVE  Imported(D) = {} /\ NoneOfItself(D)
  BY DEF Imported, NoneOfItself

\* The members of a sequence.
LEMMA Members ==
  ASSUME NEW S, NEW s \in Seq(S)
  PROVE  /\ Range(s) \subseteq S
         /\ Range(s) = {s[i] : i \in 1 .. Len(s)}
         /\ s # <<>> => Len(s) >= 1 /\ s[1] \in Range(s)
         /\ Len(s) \in Nat /\ (s = <<>> => Len(s) = 0)
<1>1. Len(s) \in Nat /\ DOMAIN s = 1 .. Len(s) /\ \A i \in 1 .. Len(s) : s[i] \in S
  BY LenProperties, ElementOfSeq
<1>2. s # <<>> => Len(s) >= 1
  BY <1>1, EmptySeq
<1>3. Range(s) = {s[i] : i \in 1 .. Len(s)}
  BY <1>1 DEF Range
<1>4. s # <<>> => 1 \in 1 .. Len(s)
  BY <1>1, <1>2
<1>5. s = <<>> => Len(s) = 0
  BY EmptySeq
<1> QED
  BY <1>1, <1>2, <1>3, <1>4, <1>5

\* What is made of an @import is never the package itself, and it is reported
\* when it is.
LEMMA ImportLowered ==
  ASSUME NEW ws \in Seq(Words)
  PROVE  /\ Imported(LoweredImport(ws).says) = {}
         /\ NoneOfItself(LoweredImport(ws).says)
         /\ LoweredImport(ws).says # {} \/ LoweredImport(ws).reports # {}
<1> DEFINE kept == {w \in Range(ws) : ~IsHere(w)}
<1>1. CASE HasComma(ws)
  <2> DEFINE l == Directive("import", NoWord, ws)
  <2>1. LoweredImport(ws).says = {l}
    BY <1>1 DEF LoweredImport, Lower
  <2>2. l.kind = "import" /\ HasComma(l.names)
    BY <1>1 DEF Directive
  <2> HIDE DEF l
  <2> QED
    BY <2>1, <2>2 DEF Imported, NoneOfItself
<1>2. CASE ~HasComma(ws) /\ (ws = <<>> \/ ~AllDecode(ws))
  <2>1. LoweredImport(ws) = Invalid
    BY <1>2 DEF LoweredImport
  <2> QED
    BY <2>1 DEF Invalid, Imported, NoneOfItself
<1>3. CASE ~HasComma(ws) /\ ws # <<>> /\ AllDecode(ws)
  <2>1. LoweredImport(ws) = [says |-> Each("import", NoWord, kept),
                             reports |-> IF kept = Range(ws) THEN {} ELSE {"self-import"}]
    BY <1>3 DEF LoweredImport
  <2>2. Range(ws) \subseteq Words /\ Range(ws) # {}
    BY <1>3, Members
  <2>3. \A l \in Each("import", NoWord, kept) : l.kind = "import" /\ ~IsHere(l.names[1])
    <3> SUFFICES ASSUME NEW l \in Each("import", NoWord, kept)
                 PROVE  l.kind = "import" /\ ~IsHere(l.names[1])
      OBVIOUS
    <3>1. PICK w \in kept : l.kind = "import" /\ l.names = <<Rendered(w)>>
      BY EachIs
    <3> QED
      BY <2>2, <3>1, RenderedName
  <2>4. \A w \in kept : Directive("import", NoWord, <<Rendered(w)>>) \in Each("import", NoWord, kept)
    BY DEF Each
  <2>5. Each("import", NoWord, kept) # {} \/ kept # Range(ws)
    BY <2>2, <2>4
  <2> HIDE DEF kept
  <2> QED
    BY <2>1, <2>3, <2>5 DEF Imported, NoneOfItself
<1> QED
  BY <1>1, <1>2, <1>3

\* What is made of an @importFrom asks of another package what the tag asks.
LEMMA FromLowered ==
  ASSUME NEW kind \in {"importFrom", "importClassesFrom", "importMethodsFrom"},
         NEW ws \in Seq(Words)
  PROVE  LET lowered == LoweredFrom(kind, ws) IN
         /\ Imported(lowered.says) = Asked([kind |-> kind, words |-> ws])
         /\ NoneOfItself(lowered.says)
         /\ lowered.says # {} \/ lowered.reports # {}
<1> DEFINE lowered == LoweredFrom(kind, ws)
           asked == Asked([kind |-> kind, words |-> ws])
<1>1. Len(ws) \in Nat /\ Range(ws) = {ws[i] : i \in 1 .. Len(ws)} /\ Range(ws) \subseteq Words
  BY Members, LenProperties
<1>2. CASE Len(ws) < 2
  <2>1. lowered = Invalid /\ asked = {}
    BY <1>1, <1>2 DEF LoweredFrom, Asked
  <2> QED
    BY <2>1 DEF Invalid, Imported, NoneOfItself
<1>3. CASE Len(ws) >= 2
  <2>1. /\ ws # <<>> /\ Head(ws) = ws[1] /\ Tail(ws) \in Seq(Words)
        /\ Len(Tail(ws)) = Len(ws) - 1
        /\ \A i \in 1 .. Len(ws) - 1 : Tail(ws)[i] = ws[i + 1]
    BY <1>1, <1>3, HeadTailProperties, EmptySeq
  <2>2. Range(Tail(ws)) = {ws[j] : j \in 2 .. Len(ws)}
    <3>1. Range(Tail(ws)) = {Tail(ws)[i] : i \in 1 .. Len(ws) - 1}
      BY <2>1, Members
    <3>2. \A i \in 1 .. Len(ws) - 1 : i + 1 \in 2 .. Len(ws) /\ Tail(ws)[i] = ws[i + 1]
      BY <1>1, <2>1
    <3>3. \A j \in 2 .. Len(ws) : j - 1 \in 1 .. Len(ws) - 1 /\ Tail(ws)[j - 1] = ws[j]
      BY <1>1, <2>1
    <3> QED
      BY <3>1, <3>2, <3>3
  <2>3. Range(ws) = {ws[1]} \cup Range(Tail(ws)) /\ ws[2] \in Range(Tail(ws))
    <3>1. 1 .. Len(ws) = {1} \cup 2 .. Len(ws) /\ 2 \in 2 .. Len(ws)
      BY <1>1, <1>3
    <3> QED
      BY <1>1, <2>2, <3>1
  <2>4. AllDecode(ws) <=> Decodes(ws[1]) /\ AllDecode(Tail(ws))
    BY <2>3 DEF AllDecode
  <2>5. CASE ~(AllDecode(ws) /\ ~IsHere(ws[1]))
    <3>1. lowered = Invalid \/ lowered = SelfImport
      BY <1>3, <2>1, <2>4, <2>5, <1>1 DEF LoweredFrom
    <3>2. asked = {}
      BY <2>5 DEF Asked
    <3> HIDE DEF lowered, asked
    <3>3. Imported({}) = {} /\ NoneOfItself({})
      BY ImportsNothing
    <3>4. lowered.says = {} /\ lowered.reports # {}
      <4>1. Invalid.says = {} /\ Invalid.reports # {} /\ SelfImport.says = {} /\ SelfImport.reports # {}
        BY DEF Invalid, SelfImport
      <4> QED
        BY <3>1, <4>1
    <3>5. /\ Imported(lowered.says) = asked /\ NoneOfItself(lowered.says)
          /\ lowered.says # {} \/ lowered.reports # {}
      BY <3>2, <3>3, <3>4
    <3> QED
      BY <3>5 DEF lowered, asked
  <2>6. CASE AllDecode(ws) /\ ~IsHere(ws[1]) /\ kind = "importFrom"
    <3> DEFINE l == Directive("importFrom", Rendered(ws[1]), AllRendered(Tail(ws)))
    <3>1. lowered.says = {l}
      BY <1>1, <1>3, <2>1, <2>4, <2>6 DEF LoweredFrom, Lower
    <3>2. l.kind = "importFrom" /\ l.of.name = ws[1].name
      BY <1>1, <2>3, RenderedName DEF Directive
    <3>3. l.names = AllRendered(Tail(ws))
      BY DEF Directive
    <3>4. Range(l.names) = {Rendered(w) : w \in Range(Tail(ws))}
      <4> DEFINE rest == Tail(ws)
      <4> HIDE DEF rest
      <4>1. Range(AllRendered(rest)) = {Rendered(w) : w \in Range(rest)}
        BY DEF Range, AllRendered
      <4> QED
        BY <3>3, <4>1 DEF rest
    <3>5. Imported({l}) = {<<l.of.name, w.name>> : w \in Range(l.names)}
      BY <3>2 DEF Imported
    <3>6. NoneOfItself({l})
      BY <3>2 DEF NoneOfItself
    <3>7. asked = {<<ws[1].name, ws[j].name>> : j \in 2 .. Len(ws)}
      BY <1>1, <1>3, <2>6 DEF Asked
    <3>8. \A w \in Range(Tail(ws)) : Rendered(w).name = w.name
      BY <1>1, <2>3, RenderedName
    <3> HIDE DEF l, lowered, asked
    <3>9. Imported({l}) = {<<ws[1].name, w.name>> : w \in Range(Tail(ws))}
      <4> DEFINE rest == Range(Tail(ws))
                 from == ws[1].name
      <4>1. Imported({l}) = {<<from, w.name>> : w \in {Rendered(w) : w \in rest}}
        BY <3>2, <3>4, <3>5
      <4>2. \A w \in rest : Rendered(w).name = w.name
        BY <3>8
      <4> HIDE DEF rest, from
      <4>3. {<<from, w.name>> : w \in {Rendered(w) : w \in rest}} = {<<from, w.name>> : w \in rest}
        BY <4>2
      <4> QED
        BY <4>1, <4>3 DEF rest, from
    <3>10. asked = {<<ws[1].name, w.name>> : w \in Range(Tail(ws))}
      BY <2>2, <3>7
    <3> QED
      BY <3>1, <3>6, <3>9, <3>10 DEF lowered, asked
  <2>7. CASE AllDecode(ws) /\ ~IsHere(ws[1]) /\ kind # "importFrom"
    <3> DEFINE D == Each(kind, Rendered(ws[1]), Range(Tail(ws)))
    <3>1. lowered.says = D
      BY <1>1, <1>3, <2>1, <2>4, <2>7 DEF LoweredFrom, Lower
    <3>2. asked = {}
      BY <2>7 DEF Asked
    <3>3. \A l \in D : l.kind = kind
      BY EachIs
    <3>4. Directive(kind, Rendered(ws[1]), <<Rendered(ws[2])>>) \in D
      BY <2>3 DEF Each
    <3> HIDE DEF D
    <3>5. Imported(D) = {} /\ NoneOfItself(D)
      BY <2>7, <3>3, ImportsNothing
    <3> QED
      BY <3>1, <3>2, <3>4, <3>5
  <2> QED
    BY <2>5, <2>6, <2>7
<1> QED
  BY <1>1, <1>2, <1>3

\* What a tag comes to leads to directives of kinds K, and to one or a report.
LeadsTo(x, K) == (\A l \in x.says : l.kind \in K) /\ (x.says # {} \/ x.reports # {})

\* What the ways of lowering words lead to.
LEMMA Leads ==
  ASSUME NEW K, NEW kind \in K
  PROVE  /\ LeadsTo(Invalid, K) /\ LeadsTo(SelfImport, K)
         /\ \A of, ns : LeadsTo(Lower({Directive(kind, of, ns)}), K)
         /\ \A of, W : W # {} => LeadsTo(Lower(Each(kind, of, W)), K)
         /\ \A g, c : kind = "S3method" => LeadsTo(Lower(S3Method(g, c)), K)
<1>1. LeadsTo(Invalid, K) /\ LeadsTo(SelfImport, K)
  <2>1. Invalid.says = {} /\ Invalid.reports # {} /\ SelfImport.says = {} /\ SelfImport.reports # {}
    BY DEF Invalid, SelfImport
  <2> QED
    BY <2>1 DEF LeadsTo
<1>2. \A D : Lower(D).says = D
  BY DEF Lower
<1>3. \A of, ns : Directive(kind, of, ns).kind = kind
  BY DEF Directive
<1>4. \A l : l.kind = kind => LeadsTo(Lower({l}), K)
  BY <1>2 DEF LeadsTo
<1>5. \A of, W : W # {} => LeadsTo(Lower(Each(kind, of, W)), K)
  <2>1. \A of, W : W # {} => Each(kind, of, W) # {}
    BY DEF Each
  <2>2. \A of, W : \A l \in Each(kind, of, W) : l.kind = kind
    BY EachIs
  <2> QED
    BY <1>2, <2>1, <2>2 DEF LeadsTo
<1>6. \A g, c : kind = "S3method" => LeadsTo(Lower(S3Method(g, c)), K)
  BY <1>3, <1>4 DEF S3Method
<1> QED
  BY <1>1, <1>3, <1>4, <1>5, <1>6

\* Words of their own lead to a directive each.
LEMMA NamesLowered ==
  ASSUME NEW K, NEW kind \in K, NEW ws \in Seq(Words)
  PROVE  LeadsTo(LoweredNames(kind, ws), K)
<1>1. ws # <<>> => Range(ws) # {}
  BY Members
<1>2. LeadsTo(Invalid, K) /\ (ws # <<>> => LeadsTo(Lower(Each(kind, NoWord, Range(ws))), K))
  BY <1>1, Leads
<1> QED
  BY <1>2 DEF LoweredNames

\* A @useDynLib leads to one directive, or one for each routine.
LEMMA LibraryLowered ==
  ASSUME NEW ws \in Seq(Words)
  PROVE  LeadsTo(LoweredLibrary(ws), {"useDynLib"})
<1> DEFINE K == {"useDynLib"}
<1>1. ws # <<>> => Range(ws) # {}
  BY Members
<1>2. ws # <<>> /\ Len(ws) # 1 => Range(Tail(ws)) # {}
  <2> SUFFICES ASSUME ws # <<>>, Len(ws) # 1 PROVE Range(Tail(ws)) # {}
    OBVIOUS
  <2>1. Len(ws) \in Nat /\ Len(ws) >= 1
    BY Members
  <2>2. Tail(ws) \in Seq(Words) /\ Len(Tail(ws)) = Len(ws) - 1
    BY HeadTailProperties
  <2>3. Len(Tail(ws)) # 0
    BY <2>1, <2>2
  <2>4. Tail(ws) # <<>>
    <3>1. Len(<<>>) = 0
      OBVIOUS
    <3> QED
      BY <2>3, <3>1, Zenon
  <2> QED
    BY <2>2, <2>4, Members
<1>3. /\ LeadsTo(Invalid, K) /\ LeadsTo(Lower({Directive("useDynLib", NoWord, ws)}), K)
      /\ ws # <<>> => LeadsTo(Lower(Each("useDynLib", NoWord, Range(ws))), K)
      /\ ws # <<>> /\ Len(ws) # 1 =>
           LeadsTo(Lower(Each("useDynLib", Rendered(Head(ws)), Range(Tail(ws)))), K)
  BY <1>1, <1>2, Leads
<1> HIDE DEF K
<1>4. LeadsTo(LoweredLibrary(ws), K)
  BY <1>3 DEF LoweredLibrary
<1> QED
  BY <1>4 DEF K

\* The kinds of what is exported.
MethodKinds == {"export", "S3method"}

\* An @exportS3Method leads to methods, exports or nothing, and so do the other
\* tags that ask for methods.
LEMMA MethodLowered ==
  ASSUME NEW b
  PROVE  /\ LeadsTo(LoweredBare(b), MethodKinds)
         /\ \A w, n : LeadsTo(LoweredDerived(w, n), MethodKinds)
         /\ \A ws : \/ LeadsTo(LoweredS3Method(b, ws), MethodKinds)
                   \/ /\ IsNull([kind |-> "exportS3Method", words |-> ws])
                      /\ LoweredS3Method(b, ws) = Lower({})
<1>1. /\ LeadsTo(Invalid, MethodKinds)
      /\ \A g, c : LeadsTo(Lower(S3Method(g, c)), MethodKinds)
      /\ \A w : LeadsTo(Lower(Each("export", NoWord, {w})), MethodKinds)
  BY Leads DEF MethodKinds
<1>2. LeadsTo(LoweredBare(b), MethodKinds)
  BY <1>1 DEF LoweredBare
<1>3. \A w, n : LeadsTo(LoweredDerived(w, n), MethodKinds)
  BY <1>1 DEF LoweredDerived
<1>4. ASSUME NEW ws
      PROVE  \/ LeadsTo(LoweredS3Method(b, ws), MethodKinds)
             \/ /\ IsNull([kind |-> "exportS3Method", words |-> ws])
                /\ LoweredS3Method(b, ws) = Lower({})
  <2> DEFINE null == IsNull([kind |-> "exportS3Method", words |-> ws])
             x == LoweredS3Method(b, ws)
  <2> HIDE DEF null, x
  <2>1. CASE Len(ws) = 2
    <3>1. x = Lower(S3Method(ws[1], ws[2]))
      BY <2>1 DEF x, LoweredS3Method
    <3> QED
      BY <3>1, <1>1 DEF x
  <2>2. CASE Len(ws) # 2 /\ null
    <3>1. x = Lower({})
      BY <2>2 DEF x, null, LoweredS3Method
    <3> QED
      BY <3>1, <2>2 DEF x, null
  <2>3. CASE Len(ws) # 2 /\ ~null /\ Len(ws) = 1 /\ IsFunctionBlock(b)
    <3>1. x = LoweredDerived(ws[1], Object(b))
      BY <2>3 DEF x, null, LoweredS3Method
    <3> QED
      BY <3>1, <1>3 DEF x
  <2>4. CASE Len(ws) # 2 /\ ~null /\ ~(Len(ws) = 1 /\ IsFunctionBlock(b))
    <3>1. x = Invalid
      BY <2>4 DEF x, null, LoweredS3Method
    <3> QED
      BY <3>1, <1>1 DEF x
  <2> QED
    BY <2>1, <2>2, <2>3, <2>4
<1> QED
  BY <1>2, <1>3, <1>4

\* What tag comes to imports what it asks, nothing of the package itself, and
\* is nothing only for NULL.
TagIs(b, tag) ==
  /\ Imported(Lowered(b, tag).says) = Asked(tag)
  /\ NoneOfItself(Lowered(b, tag).says)
  /\ Lowered(b, tag).says # {} \/ Lowered(b, tag).reports # {} \/ IsNull(tag)

\* A tag that does not import leads to what imports nothing.
LEMMA OtherTagIs ==
  ASSUME NEW b, NEW tag \in Tag, NEW K, K \cap {"import", "importFrom"} = {},
         tag.kind # "importFrom",
         \/ LeadsTo(Lowered(b, tag), K)
         \/ IsNull(tag) /\ Lowered(b, tag) = Lower({})
  PROVE  TagIs(b, tag)
<1> DEFINE x == Lowered(b, tag)
<1>1. Asked(tag) = {}
  BY DEF Asked
<1>2. Lower({}).says = {}
  BY DEF Lower
<1> HIDE DEF x
<1>3. CASE LeadsTo(x, K)
  <2>1. \A l \in x.says : l.kind \notin {"import", "importFrom"}
    BY <1>3 DEF LeadsTo
  <2>2. Imported(x.says) = {} /\ NoneOfItself(x.says)
    BY <2>1, ImportsNothing
  <2> QED
    BY <1>1, <1>3, <2>2 DEF x, TagIs, LeadsTo
<1>4. CASE IsNull(tag) /\ x = Lower({})
  <2>1. x.says = {}
    BY <1>2, <1>4
  <2>2. Imported(x.says) = {} /\ NoneOfItself(x.says)
    BY <2>1, ImportsNothing
  <2> QED
    BY <1>1, <1>4, <2>2 DEF x, TagIs
<1> QED
  BY <1>3, <1>4 DEF x

\* What a tag is lowered to imports what the tag asks and nothing of the
\* package itself, and no tag but NULL comes to nothing.
LEMMA TagLowered ==
  ASSUME NEW b, NEW tag \in Tag, tag.kind = "exportMethod" => tag.words # <<>>
  PROVE  TagIs(b, tag)
<1> DEFINE ws == tag.words
           x == Lowered(b, tag)
<1>1. ws \in Seq(Words) /\ tag.kind \in TagKindNames
  BY DEF Tag
<1>2. ASSUME NEW kind \in {"export", "exportPattern", "exportClass", "exportMethod"},
             tag.kind = kind, x = LoweredNames(kind, ws)
      PROVE  TagIs(b, tag)
  <2>1. LeadsTo(x, {kind})
    BY <1>1, <1>2, NamesLowered
  <2> QED
    BY <1>2, <2>1, OtherTagIs
<1>3. ASSUME tag.kind # "importFrom", x = Invalid
      PROVE  TagIs(b, tag)
  <2>1. LeadsTo(Invalid, {"export"})
    BY Leads
  <2> QED
    BY <1>3, <2>1, OtherTagIs
<1>4. CASE tag.kind = "export"
  <2>1. ws # <<>> => x = LoweredNames("export", ws)
    BY <1>4 DEF Lowered
  <2>2. ws = <<>> => x = LoweredBare(b)
    BY <1>4 DEF Lowered
  <2>3. ws = <<>> => TagIs(b, tag)
    BY <1>4, <2>2, MethodLowered, OtherTagIs DEF MethodKinds
  <2> QED
    BY <1>2, <1>4, <2>1, <2>3
<1>5. CASE tag.kind = "import"
  <2>1. x = LoweredImport(ws)
    BY <1>5 DEF Lowered
  <2>2. Asked(tag) = {}
    BY <1>5 DEF Asked
  <2> HIDE DEF x
  <2>3. /\ Imported(x.says) = {} /\ NoneOfItself(x.says)
        /\ x.says # {} \/ x.reports # {}
    BY <1>1, <2>1, ImportLowered
  <2> QED
    BY <2>2, <2>3 DEF x, TagIs
<1>6. CASE tag.kind \in {"importFrom", "importClassesFrom", "importMethodsFrom"}
  <2>1. x = LoweredFrom(tag.kind, ws)
    BY <1>6 DEF Lowered
  <2>2. Asked(tag) = Asked([kind |-> tag.kind, words |-> ws])
    BY DEF Asked
  <2> HIDE DEF x
  <2>3. /\ Imported(x.says) = Asked(tag) /\ NoneOfItself(x.says)
        /\ x.says # {} \/ x.reports # {}
    BY <1>1, <1>6, <2>1, <2>2, FromLowered
  <2> QED
    BY <2>3 DEF x, TagIs
<1>7. CASE tag.kind = "useDynLib"
  <2>1. x = LoweredLibrary(ws)
    BY <1>7 DEF Lowered
  <2> QED
    BY <1>1, <1>7, <2>1, LibraryLowered, OtherTagIs
<1>8. CASE tag.kind = "rawNamespace"
  <2>1. x = Invalid \/ x = Lower({Directive("raw", NoWord, ws)})
    BY <1>8 DEF Lowered
  <2>2. LeadsTo(Invalid, {"raw"}) /\ LeadsTo(Lower({Directive("raw", NoWord, ws)}), {"raw"})
    BY Leads
  <2>3. LeadsTo(x, {"raw"})
    BY <2>1, <2>2
  <2> QED
    BY <1>8, <2>3, OtherTagIs
<1>9. CASE tag.kind \in {"exportPattern", "exportMethod"}
  <2>1. tag.kind = "exportMethod" => ws # <<>>
    OBVIOUS
  <2>2. x = LoweredNames(tag.kind, ws)
    BY <1>9, <2>1 DEF Lowered
  <2> QED
    BY <1>2, <1>9, <2>2
<1>10. CASE tag.kind = "exportClass"
  <2>1. x = Invalid \/ x = LoweredNames(tag.kind, ws)
    BY <1>10 DEF Lowered
  <2> QED
    BY <1>2, <1>3, <1>10, <2>1
<1>11. CASE tag.kind = "exportS3Method"
  <2>1. x = LoweredS3Method(b, ws)
    BY <1>11 DEF Lowered
  <2>2. IsNull([kind |-> "exportS3Method", words |-> ws]) <=> IsNull(tag)
    BY <1>11 DEF IsNull
  <2> QED
    BY <1>11, <2>1, <2>2, MethodLowered, OtherTagIs DEF MethodKinds
<1> QED
  BY <1>1, <1>4, <1>5, <1>6, <1>7, <1>8, <1>9, <1>10, <1>11 DEF TagKindNames
-----------------------------------------------------------------------------
(* The stages *)

\* The stage after each.
LEMMA FollowingIs ==
  /\ Following("extract") = "track" /\ Following("track") = "validate"
  /\ Following("validate") = "merge" /\ Following("merge") = "classify"
  /\ Following("classify") = "reclassify" /\ Following("reclassify") = "reexport"
  /\ Following("reexport") = "collect" /\ Following("collect") = "render"
<1>1. DOMAIN Stages = 1 .. 10
  BY DEF Stages
<1>2. /\ Stages[1] = "extract" /\ Stages[2] = "track" /\ Stages[3] = "validate"
      /\ Stages[4] = "merge" /\ Stages[5] = "classify" /\ Stages[6] = "reclassify"
      /\ Stages[7] = "reexport" /\ Stages[8] = "collect" /\ Stages[9] = "render" /\ Stages[10] = "done"
  BY DEF Stages
<1> DEFINE Number(s) == CHOOSE k \in DOMAIN Stages : Stages[k] = s
<1>3. \A k \in 1 .. 10 : Number(Stages[k]) = k
  <2> SUFFICES ASSUME NEW k \in 1 .. 10 PROVE Number(Stages[k]) = k
    OBVIOUS
  <2>1. \A j \in 1 .. 10 : Stages[j] = Stages[k] => j = k
    BY <1>2
  <2>2. Number(Stages[k]) \in 1 .. 10 /\ Stages[Number(Stages[k])] = Stages[k]
    BY <1>1
  <2> QED
    BY <2>1, <2>2
<1>4. \A s : Following(s) = Stages[1 + Number(s)]
  BY DEF Following
<1> HIDE DEF Number
<1> QED
  BY <1>2, <1>3, <1>4

\* A stage has an item for each of what it goes through.
LEMMA ItemsAre ==
  /\ Items("merge") = Len(input.blocks) /\ Items("reexport") = Len(reexports)
  /\ Items("collect") = Len(requests) /\ Items("extract") = Len(input.calls)
  /\ Items("track") = Len(code.facts)
  /\ Items("classify") = Len(usages) /\ Items("reclassify") = Len(usages)
  BY DEF Items, ClassifyStages

\* A step may go on to the next item or stage, or stay.
Stays == UNCHANGED <<stage, at>>

\* What a step leaves alone, whatever else it does.
LEMMA CodeStays ==
  ASSUME [Next]_vars
  PROVE  UNCHANGED <<code, input>> /\ (Stays \/ Advance \/ EndStage \/ Render)
<1>1. CASE ExtractCall \/ TrackS7 \/ ValidateTarget \/ MergeBlock \/ SkipUsage \/ NameReexport \/ CollectTag
  BY <1>1 DEF ExtractCall, TrackS7, ValidateTarget, MergeBlock, SkipUsage, NameReexport, CollectTag,
              Advance, analyzer
<1>2. CASE ClassifyUsage \/ AskExport
  BY <1>2 DEF ClassifyUsage, AskExport, Analyze, Stays
<1>3. CASE TakeUsageVerdict \/ TakeExportVerdict \/ TakeFunctionAnswer
  BY <1>3 DEF TakeUsageVerdict, TakeExportVerdict, TakeFunctionAnswer, Dismiss, Advance
<1>4. CASE AskFunction
  BY <1>4 DEF AskFunction, Stays
<1>5. CASE Render \/ EndStage
  BY <1>5 DEF Render, EndStage, Renew, analyzer
<1>6. CASE Analyzer
  BY <1>6 DEF Analyzer, AnalyzerStep, Recall, Follow, Conclude, Settle, WeighObject, AskLocal,
              AskInstalled, WeighGeneric, GiveUp, Stays
<1>7. CASE Built \/ UNCHANGED vars
  BY <1>7 DEF Built, vars, analyzer, Stays
<1> QED
  BY <1>1, <1>2, <1>3, <1>4, <1>5, <1>6, <1>7 DEF Next

\* Requests and re-exports come from the blocks, and later steps leave them
\* alone; directives come once they are complete.
LEMMA ModelStays ==
  ASSUME [Next]_vars
  PROVE  /\ MergeBlock \/ UNCHANGED <<requests, reexports>>
         /\ \/ NameReexport \/ CollectTag \/ TakeExportVerdict \/ TakeFunctionAnswer
            \/ UNCHANGED <<directives, warned>> /\ (reports \subseteq reports')
         /\ \/ NameReexport \/ CollectTag \/ TakeExportVerdict \/ TakeFunctionAnswer \/ Stays
            \/ EndStage \/ Render
            \/ stage \in {"extract", "track", "validate", "merge", "classify", "reclassify"} /\ Advance
<1>1. CASE ExtractCall \/ TrackS7 \/ ValidateTarget \/ MergeBlock \/ SkipUsage \/ NameReexport \/ CollectTag
  BY <1>1 DEF ExtractCall, TrackS7, ValidateTarget, MergeBlock, SkipUsage, NameReexport, CollectTag,
              model, result, Busy, Classifying, ClassifyStages
<1>2. CASE ClassifyUsage \/ AskExport \/ AskFunction \/ Analyzer
  BY <1>2 DEF ClassifyUsage, AskExport, AskFunction, Analyzer, Stays, model, result
<1>3. CASE TakeUsageVerdict \/ TakeExportVerdict \/ TakeFunctionAnswer
  BY <1>3 DEF TakeUsageVerdict, TakeExportVerdict, TakeFunctionAnswer, model, result, Busy, Classifying,
              ClassifyStages
<1>5. CASE Render \/ EndStage
  BY <1>5 DEF Render, EndStage, model, result
<1>7. CASE Built \/ UNCHANGED vars
  BY <1>7 DEF Built, vars, model, result, Stays
<1> QED
  BY <1>1, <1>2, <1>3, <1>5, <1>7 DEF Next
-----------------------------------------------------------------------------
(* What the stages pass on *)

\* The members of a sequence that grows.
LEMMA Grown ==
  ASSUME NEW S, NEW s \in Seq(S), NEW e \in S
  PROVE  /\ Append(s, e) \in Seq(S)
         /\ Range(Append(s, e)) = Range(s) \cup {e}
         /\ DOMAIN s \subseteq DOMAIN Append(s, e)
         /\ \A i \in DOMAIN s : Append(s, e)[i] = s[i]
<1>1. Len(s) \in Nat /\ DOMAIN s = 1 .. Len(s)
  BY LenProperties
<1>2. /\ Append(s, e) \in Seq(S) /\ Len(Append(s, e)) = Len(s) + 1
      /\ \A i \in 1 .. Len(s) : Append(s, e)[i] = s[i]
      /\ Append(s, e)[Len(s) + 1] = e
  BY AppendProperties
<1>3. DOMAIN Append(s, e) = 1 .. Len(s) + 1
  BY <1>2, LenProperties
<1>4. 1 .. Len(s) + 1 = (1 .. Len(s)) \cup {Len(s) + 1}
  BY <1>1
<1> DEFINE t == Append(s, e)
<1> HIDE DEF t
<1>5. Range(t) = {t[i] : i \in 1 .. Len(s)} \cup {t[Len(s) + 1]}
  BY <1>3, <1>4 DEF Range, t
<1>6. {t[i] : i \in 1 .. Len(s)} = Range(s)
  BY <1>1, <1>2 DEF Range, t
<1> QED
  BY <1>1, <1>2, <1>3, <1>4, <1>5, <1>6 DEF t

\* The members of two sequences in a row.
LEMMA Joined ==
  ASSUME NEW S, NEW s \in Seq(S), NEW t \in Seq(S)
  PROVE  s \o t \in Seq(S) /\ Range(s \o t) = Range(s) \cup Range(t)
<1>1. /\ Len(s) \in Nat /\ DOMAIN s = 1 .. Len(s)
      /\ Len(t) \in Nat /\ DOMAIN t = 1 .. Len(t)
  BY LenProperties
<1>2. /\ s \o t \in Seq(S) /\ Len(s \o t) = Len(s) + Len(t)
      /\ \A i \in 1 .. Len(s) + Len(t) :
           (s \o t)[i] = IF i <= Len(s) THEN s[i] ELSE t[i - Len(s)]
  BY ConcatProperties
<1>3. DOMAIN (s \o t) = 1 .. Len(s) + Len(t)
  BY <1>2, LenProperties
<1> DEFINE u == s \o t
<1>4. /\ u \in Seq(S) /\ DOMAIN u = 1 .. Len(s) + Len(t)
      /\ \A i \in 1 .. Len(s) + Len(t) : u[i] = IF i <= Len(s) THEN s[i] ELSE t[i - Len(s)]
  BY <1>2, <1>3
<1> HIDE DEF u
<1>5. Range(u) \subseteq Range(s) \cup Range(t)
  <2> SUFFICES ASSUME NEW i \in 1 .. Len(s) + Len(t) PROVE u[i] \in Range(s) \cup Range(t)
    BY <1>4 DEF Range
  <2>1. CASE i <= Len(s)
    BY <1>1, <1>4, <2>1 DEF Range
  <2>2. CASE i > Len(s)
    <3>1. i - Len(s) \in 1 .. Len(t) /\ u[i] = t[i - Len(s)]
      BY <1>1, <1>4, <2>2
    <3> QED
      BY <1>1, <3>1 DEF Range
  <2> QED
    BY <1>1, <2>1, <2>2
<1>6. Range(s) \subseteq Range(u)
  <2> SUFFICES ASSUME NEW i \in 1 .. Len(s) PROVE s[i] \in Range(u)
    BY <1>1 DEF Range
  <2>1. i \in 1 .. Len(s) + Len(t) /\ u[i] = s[i]
    BY <1>1, <1>4
  <2> QED
    BY <1>4, <2>1 DEF Range
<1>7. Range(t) \subseteq Range(u)
  <2> SUFFICES ASSUME NEW i \in 1 .. Len(t) PROVE t[i] \in Range(u)
    BY <1>1 DEF Range
  <2>1. i + Len(s) \in 1 .. Len(s) + Len(t) /\ u[i + Len(s)] = t[i]
    BY <1>1, <1>4
  <2> QED
    BY <1>4, <2>1 DEF Range
<1>8. Range(u) = Range(s) \cup Range(t)
  BY <1>5, <1>6, <1>7
<1> QED
  BY <1>4, <1>8 DEF u

\* A step goes to a stage, and there to an item.
LEMMA StageKept ==
  ASSUME InputInv, [Next]_vars
  PROVE  stage' \in StageNames /\ at' \in Nat \ {0}
<1>1. stage \in StageNames /\ at \in Nat \ {0}
  BY DEF InputInv
<1>2. CASE Stays \/ Advance
  BY <1>1, <1>2 DEF Stays, Advance
<1>3. CASE EndStage
  <2>1. stage \notin {"render", "done"} /\ stage' = Following(stage) /\ at' = 1
    BY <1>3 DEF EndStage
  <2> QED
    BY <1>1, <2>1, FollowingIs DEF StageNames
<1>4. CASE Render
  BY <1>1, <1>4 DEF Render, StageNames
<1> QED
  BY <1>2, <1>3, <1>4, CodeStays

\* What stages pass on stays in the blocks and tags it came from.
LEMMA InputKeeps ==
  ASSUME InputInv, [Next]_vars
  PROVE  InputInv'
<1>1. stage' \in StageNames /\ at' \in Nat \ {0} /\ UNCHANGED <<code, input>>
  BY StageKept, CodeStays
<1>2. /\ input'.here \in Names /\ input'.blocks \in Seq(Block)
      /\ \A b \in Range(input'.blocks) : IsBlockOf(b, code')
  BY <1>1 DEF InputInv
<1>3. CASE UNCHANGED <<requests, reexports>>
  BY <1>1, <1>2, <1>3 DEF InputInv, BlockOf
<1>4. CASE MergeBlock
  <2> DEFINE b == input.blocks[at]
             new == [k \in DOMAIN b.tags |-> [tag |-> b.tags[k], block |-> at]]
  <2>1. at \in DOMAIN input.blocks /\ at \in Nat /\ b \in Block
    <3>1. at <= Len(input.blocks)
      BY <1>4, ItemsAre DEF MergeBlock, Busy
    <3> QED
      BY <3>1, LenProperties, ElementOfSeq DEF InputInv
  <2>2. b.tags \in Seq(Tag) /\ b.package \in STRING /\ b.member \in Names
    BY <2>1 DEF Block
  <2> HIDE DEF b
  <2>3. /\ Len(b.tags) \in Nat /\ DOMAIN b.tags = 1 .. Len(b.tags)
        /\ \A k \in DOMAIN b.tags : b.tags[k] \in Tag
    BY <2>2, LenProperties, ElementOfSeq
  <2>4. new \in Seq(Request)
    BY <2>1, <2>3 DEF Request
  <2>5. Range(new) = {[tag |-> b.tags[k], block |-> at] : k \in DOMAIN b.tags}
    BY DEF Range
  <2>6. requests' = requests \o new
    BY <1>4 DEF MergeBlock, b
  <2> HIDE DEF new
  <2>7. requests' \in Seq(Request) /\ Range(requests') = Range(requests) \cup Range(new)
    BY <2>4, <2>6, Joined DEF InputInv
  <2>8. \A r \in Range(requests') :
          r.block \in DOMAIN input.blocks /\ r.tag \in Range(input.blocks[r.block].tags)
    <3>1. \A r \in Range(requests) :
            r.block \in DOMAIN input.blocks /\ r.tag \in Range(input.blocks[r.block].tags)
      BY DEF InputInv, BlockOf
    <3>2. ASSUME NEW r \in Range(new)
          PROVE  r.block \in DOMAIN input.blocks /\ r.tag \in Range(input.blocks[r.block].tags)
      <4>1. PICK k \in DOMAIN b.tags : r = [tag |-> b.tags[k], block |-> at]
        BY <2>5
      <4>2. b.tags[k] \in Range(b.tags)
        BY DEF Range
      <4> QED
        BY <2>1, <4>1, <4>2 DEF b
    <3> QED
      BY <2>7, <3>1, <3>2
  <2>9. \/ reexports' = reexports
        \/ reexports' = Append(reexports, [package |-> b.package, member |-> b.member])
    BY <1>4 DEF MergeBlock, b
  <2>10. reexports' \in Seq(Member)
    <3> DEFINE e == [package |-> b.package, member |-> b.member]
    <3>1. e \in Member
      BY <2>2 DEF Member
    <3> HIDE DEF e
    <3>2. Append(reexports, e) \in Seq(Member)
      BY <3>1, Grown DEF InputInv
    <3> QED
      BY <2>9, <3>2 DEF InputInv, e
  <2> QED
    BY <1>1, <1>2, <2>7, <2>8, <2>10 DEF InputInv, BlockOf
<1> QED
  BY <1>3, <1>4, ModelStays
-----------------------------------------------------------------------------
(* The re-exports *)

\* Only a merge of block i marks it as merged; the same for the others.
LEMMA MarksStay ==
  ASSUME InputInv, [Next]_vars
  PROVE  /\ ~(stage = "merge" /\ Advance) =>
              \A i \in DOMAIN input.blocks : IsMerged(i)' <=> IsMerged(i)
         /\ ~(stage = "reexport" /\ Advance) =>
              \A i \in DOMAIN reexports : IsRenamed(i)' <=> IsRenamed(i)
         /\ ~(stage = "collect" /\ Advance) =>
              \A k \in DOMAIN requests : IsCollected(k)' <=> IsCollected(k)
<1>1. /\ stage \in StageNames /\ at \in Nat \ {0}
      /\ DOMAIN input.blocks = 1 .. Len(input.blocks) /\ Len(input.blocks) \in Nat
      /\ DOMAIN reexports = 1 .. Len(reexports) /\ Len(reexports) \in Nat
      /\ DOMAIN requests = 1 .. Len(requests) /\ Len(requests) \in Nat
  BY LenProperties DEF InputInv
<1>2. CASE Stays
  BY <1>2 DEF Stays, IsMerged, IsRenamed, IsCollected
<1>3. CASE Advance
  BY <1>1, <1>3 DEF Advance, StageNames, IsMerged, IsRenamed, IsCollected
<1>4. CASE Render
  BY <1>1, <1>4 DEF Render, IsMerged, IsRenamed, IsCollected
<1>5. CASE EndStage
  <2>1. stage \notin {"render", "done"} /\ stage' = Following(stage) /\ at' = 1 /\ at > Items(stage)
    BY <1>5 DEF EndStage
  <2>2. CASE stage \in {"extract", "track", "validate"}
    BY <1>1, <2>1, <2>2, FollowingIs DEF IsMerged, IsRenamed, IsCollected
  <2>3. CASE stage = "merge"
    BY <1>1, <2>1, <2>3, FollowingIs, ItemsAre DEF IsMerged, IsRenamed, IsCollected
  <2>4. CASE stage \in {"classify", "reclassify"}
    BY <1>1, <2>1, <2>4, FollowingIs DEF IsMerged, IsRenamed, IsCollected
  <2>5. CASE stage = "reexport"
    BY <1>1, <2>1, <2>5, FollowingIs, ItemsAre DEF IsMerged, IsRenamed, IsCollected
  <2>6. CASE stage = "collect"
    BY <1>1, <2>1, <2>6, FollowingIs, ItemsAre DEF IsMerged, IsRenamed, IsCollected
  <2> QED
    BY <1>1, <2>1, <2>2, <2>3, <2>4, <2>5, <2>6 DEF StageNames
<1> QED
  BY <1>2, <1>3, <1>4, <1>5, CodeStays

\* A step keeps the re-exports those of the merged blocks.
LEMMA MergeKeeps ==
  ASSUME InputInv, MergeInv, [Next]_vars
  PROVE  MergeInv'
<1> DEFINE Is(i) == IsReexport(input.blocks[i]) /\ input.blocks[i].documented
           Of(i) == MemberOf(input.blocks[i])
<1>1. UNCHANGED <<code, input>>
  BY CodeStays
<1>2. Range(reexports) = {Of(i) : i \in {i \in DOMAIN input.blocks : IsMerged(i) /\ Is(i)}}
  BY DEF MergeInv
<1>3. Range(reexports') = {Of(i) : i \in {i \in DOMAIN input.blocks : IsMerged(i)' /\ Is(i)}} => MergeInv'
  BY <1>1 DEF MergeInv, MemberOf, IsReexport
<1>4. CASE ~MergeBlock
  <2>1. reexports' = reexports
    BY <1>4, ModelStays
  <2>2. ~(stage = "merge" /\ Advance)
    <3>1. CASE ExtractCall \/ TrackS7 \/ ValidateTarget \/ SkipUsage \/ NameReexport \/ CollectTag
      BY <3>1 DEF ExtractCall, TrackS7, ValidateTarget, SkipUsage, NameReexport, CollectTag, Busy, Classifying,
                  ClassifyStages
    <3>2. CASE TakeUsageVerdict \/ TakeExportVerdict \/ TakeFunctionAnswer
      BY <3>2 DEF TakeUsageVerdict, TakeExportVerdict, TakeFunctionAnswer, Busy, Classifying, ClassifyStages
    <3>3. CASE Stays
      BY <3>3 DEF Stays, Advance, InputInv
    <3>4. CASE EndStage \/ Render
      <4>1. EndStage => at > Items(stage) /\ at' = 1
        BY DEF EndStage
      <4>2. Render => stage # "merge"
        BY DEF Render
      <4> QED
        BY <3>4, <4>1, <4>2 DEF Advance, InputInv
    <3>5. CASE ClassifyUsage \/ AskExport \/ AskFunction \/ Analyzer
      BY <3>3, <3>5 DEF ClassifyUsage, AskExport, AskFunction, Analyzer, Stays
    <3>6. CASE Built \/ UNCHANGED vars
      BY <3>3, <3>6 DEF Built, vars, Stays
    <3> QED
      BY <1>4, <3>1, <3>2, <3>4, <3>5, <3>6 DEF Next
  <2>3. \A i \in DOMAIN input.blocks : IsMerged(i)' <=> IsMerged(i)
    BY <2>2, MarksStay
  <2> HIDE DEF Is, Of
  <2> QED
    BY <1>2, <1>3, <2>1, <2>3
<1>5. CASE MergeBlock
  <2>1. stage = "merge" /\ at <= Len(input.blocks) /\ at' = at + 1 /\ stage' = stage
    BY <1>5, ItemsAre DEF MergeBlock, Busy, Advance
  <2>2. at \in DOMAIN input.blocks /\ DOMAIN input.blocks \subseteq Nat /\ at \in Nat
    BY <2>1, LenProperties DEF InputInv
  <2>3. \A i \in DOMAIN input.blocks : IsMerged(i)' <=> IsMerged(i) \/ i = at
    BY <2>1, <2>2 DEF IsMerged
  <2>4. reexports' = IF Is(at) /\ ~ \E x \in Range(reexports) : /\ x.package = input.blocks[at].package
                                                                /\ x.member = input.blocks[at].member
                     THEN Append(reexports, Of(at)) ELSE reexports
    BY <1>5 DEF MergeBlock, MemberOf
  <2>5. Of(at) \in Member
    <3>1. input.blocks[at] \in Block
      BY <2>2, ElementOfSeq, LenProperties DEF InputInv
    <3> QED
      BY <3>1 DEF MemberOf, Block, Member
  <2>6. Is(at) => Range(reexports') = Range(reexports) \cup {Of(at)}
    <3>1. ASSUME Is(at), NEW x \in Range(reexports), x.package = input.blocks[at].package,
                 x.member = input.blocks[at].member
          PROVE  Range(reexports') = Range(reexports) \cup {Of(at)}
      <4>1. x \in Member
        BY Members DEF InputInv
      <4>2. x = Of(at)
        BY <3>1, <4>1 DEF MemberOf, Member
      <4>3. reexports' = reexports
        BY <2>4, <3>1
      <4> HIDE DEF Of
      <4> QED
        BY <4>2, <4>3
    <3>2. ASSUME Is(at), ~ \E x \in Range(reexports) : /\ x.package = input.blocks[at].package
                                                       /\ x.member = input.blocks[at].member
          PROVE  Range(reexports') = Range(reexports) \cup {Of(at)}
      <4>1. reexports' = Append(reexports, Of(at))
        BY <2>4, <3>2
      <4> HIDE DEF Of
      <4> QED
        BY <4>1, <2>5, Grown DEF InputInv
    <3> HIDE DEF Is, Of
    <3> QED
      BY <3>1, <3>2
  <2>7. ~Is(at) => Range(reexports') = Range(reexports)
    BY <2>4
  <2> HIDE DEF Is, Of
  <2>8. Range(reexports') = {Of(i) : i \in {i \in DOMAIN input.blocks : IsMerged(i)' /\ Is(i)}}
    <3>1. {i \in DOMAIN input.blocks : IsMerged(i)' /\ Is(i)} =
            {i \in DOMAIN input.blocks : IsMerged(i) /\ Is(i)} \cup (IF Is(at) THEN {at} ELSE {})
      BY <2>2, <2>3
    <3> QED
      BY <1>2, <2>6, <2>7, <3>1
  <2> QED
    BY <1>3, <2>8
<1> QED
  BY <1>4, <1>5
-----------------------------------------------------------------------------
(* The object under analysis *)

\* The verdict of an analysis is one of three.
LEMMA VerdictIs ==
  ASSUME AskInv, [Next]_vars
  PROVE  verdict' \in {"none", "export", "method", "unresolved"}
<1>1. verdict \in {"none", "export", "method", "unresolved"}
  BY DEF AskInv
<1>2. CASE ExtractCall \/ TrackS7 \/ ValidateTarget \/ MergeBlock \/ SkipUsage \/ NameReexport \/ CollectTag
  BY <1>1, <1>2 DEF ExtractCall, TrackS7, ValidateTarget, MergeBlock, SkipUsage, NameReexport, CollectTag,
              analyzer
<1>3. CASE ClassifyUsage \/ AskExport
  BY <1>1, <1>3 DEF ClassifyUsage, AskExport, Analyze
<1>4. CASE TakeUsageVerdict \/ TakeExportVerdict \/ TakeFunctionAnswer
  BY <1>4 DEF TakeUsageVerdict, TakeExportVerdict, TakeFunctionAnswer, Dismiss
<1>5. CASE AskFunction
  BY <1>1, <1>5 DEF AskFunction, inquiry
<1>6. CASE Render \/ EndStage
  BY <1>1, <1>6 DEF Render, EndStage, Renew, analyzer
<1>7. CASE Analyzer
  <2>1. CASE WeighObject
    <3>1. \/ verdict' = "export" \/ verdict' = "unresolved" \/ verdict' = "none"
      BY <2>1 DEF WeighObject
    <3> QED
      BY <3>1
  <2>2. CASE Recall \/ Follow \/ Conclude \/ Settle \/ AskLocal \/ AskInstalled \/ WeighGeneric \/ GiveUp
    BY <1>1, <2>2 DEF Recall, Follow, Conclude, Settle, AskLocal, AskInstalled, WeighGeneric, GiveUp, inquiry
  <2> QED
    BY <1>7, <2>1, <2>2 DEF Analyzer, AnalyzerStep
<1>8. CASE Built \/ UNCHANGED vars
  BY <1>1, <1>8 DEF Built, vars, analyzer
<1> QED
  BY <1>2, <1>3, <1>4, <1>5, <1>6, <1>7, <1>8 DEF Next

\* What is asked of a request depends on the blocks and the requests only.
LEMMA SameAsk ==
  ASSUME UNCHANGED <<code, input>>
  PROVE  /\ \A b : Object(b)' = Object(b)
         /\ \A r : BlockOf(r)' = BlockOf(r)
         /\ \A r : AsksExport(r)' <=> AsksExport(r)
<1>1. \A b : Object(b)' = Object(b)
  BY DEF Object, IsReexport
<1>2. \A r : BlockOf(r)' = BlockOf(r)
  BY DEF BlockOf
<1>3. \A r : AsksExport(r)' <=> AsksExport(r)
  BY <1>1, <1>2 DEF AsksExport, Declared, IsReexport, Object, BlockOf
<1> QED
  BY <1>1, <1>2, <1>3

\* The analyzer keeps its object while it works.
LEMMA ObjectStays ==
  ASSUME Analyzer
  PROVE  object' = object /\ Stays
  BY DEF Analyzer, AnalyzerStep, Recall, Follow, Conclude, Settle, WeighObject, AskLocal,
         AskInstalled, WeighGeneric, GiveUp, inquiry, Stays

\* In the stages after the usages, what is under analysis is the object of the
\* request at hand.
LEMMA AskKeeps ==
  ASSUME InputInv, AskInv, [Next]_vars
  PROVE  AskInv'
<1> DEFINE Quiet == {"extract", "track", "validate", "merge", "reexport"}
           Good == /\ stage' \in Quiet => object' = NoName
                   /\ stage' = "collect" /\ object' # NoName =>
                        /\ at' \in DOMAIN requests' /\ AsksExport(requests'[at'])
                        /\ object' = Object(BlockOf(requests'[at']))
<1>1. verdict' \in {"none", "export", "method", "unresolved"} /\ UNCHANGED <<code, input>>
  BY VerdictIs, CodeStays
<1>2. Good => AskInv'
  BY <1>1, SameAsk DEF AskInv
<1>3. /\ stage \in Quiet => object = NoName
      /\ stage = "collect" /\ object # NoName =>
           at \in DOMAIN requests /\ AsksExport(requests[at]) /\ object = Object(BlockOf(requests[at]))
      /\ stage \in StageNames
  BY DEF AskInv, InputInv
<1> HIDE DEF Quiet
<1>4. CASE ExtractCall \/ TrackS7 \/ ValidateTarget \/ MergeBlock \/ SkipUsage
  <2>1. stage' = stage /\ stage # "collect" /\ object' = object
    BY <1>4 DEF ExtractCall, TrackS7, ValidateTarget, MergeBlock, SkipUsage, Advance, Busy, Classifying,
                   ClassifyStages, analyzer
  <2> QED
    BY <1>2, <1>3, <2>1
<1>5. CASE NameReexport \/ CollectTag
  <2>1. stage' = stage /\ object' = object /\ (stage = "reexport" \/ object = NoName)
    BY <1>5 DEF NameReexport, CollectTag, Advance, Busy, Idle, analyzer
  <2> QED
    BY <1>2, <1>3, <2>1 DEF Quiet
<1>6. CASE TakeUsageVerdict \/ TakeExportVerdict \/ TakeFunctionAnswer
  <2>1. object' = NoName
    BY <1>6 DEF TakeUsageVerdict, TakeExportVerdict, TakeFunctionAnswer, Dismiss
  <2> QED
    BY <1>2, <2>1
<1>7. CASE ClassifyUsage
  <2>1. stage' \in {"classify", "reclassify"}
    BY <1>7 DEF ClassifyUsage, Classifying, ClassifyStages, Busy
  <2> QED
    BY <1>2, <2>1 DEF Quiet
<1>8. CASE AskExport
  <2>1. /\ stage' = "collect" /\ at' = at /\ requests' = requests /\ AsksExport(requests[at])
        /\ object' = Object(BlockOf(requests[at])) /\ at <= Len(requests)
    BY <1>8, ItemsAre DEF AskExport, Busy, Analyze, model
  <2>2. at \in DOMAIN requests
    BY <2>1, LenProperties DEF InputInv
  <2> QED
    BY <1>2, <2>1, <2>2 DEF Quiet
<1>9. CASE AskFunction \/ Analyzer \/ Built \/ UNCHANGED vars
  <2>1. object' = object /\ stage' = stage /\ at' = at /\ requests' = requests
    <3>1. Analyzer => object' = object /\ stage' = stage /\ at' = at /\ requests' = requests
      BY ObjectStays DEF Analyzer, model, Stays
    <3>2. AskFunction \/ Built \/ UNCHANGED vars =>
            object' = object /\ stage' = stage /\ at' = at /\ requests' = requests
      BY DEF AskFunction, Built, vars, analyzer, model, inquiry
    <3> QED
      BY <1>9, <3>1, <3>2
  <2> QED
    BY <1>2, <1>3, <2>1
<1>10. CASE Render
  <2>1. stage' = "done"
    BY <1>10 DEF Render
  <2> QED
    BY <1>2, <2>1 DEF Quiet
<1>11. CASE EndStage
  <2>1. /\ stage \notin {"render", "done"} /\ stage' = Following(stage)
        /\ IF stage' \in {"reclassify", "reexport"} THEN Renew(code.installed) ELSE UNCHANGED analyzer
    BY <1>11 DEF EndStage
  <2>2. CASE stage' \in {"reclassify", "reexport"}
    <3>1. object' = NoName
      BY <2>1, <2>2 DEF Renew
    <3> QED
      BY <1>2, <3>1
  <2>3. CASE stage' \notin {"reclassify", "reexport"}
    <3>1. object' = object
      BY <2>1, <2>3 DEF analyzer
    <3>2. stage' \in Quiet \/ stage' = "collect" => stage \in Quiet
      BY <1>3, <2>1, <2>3, FollowingIs DEF StageNames, Quiet
    <3> QED
      BY <1>2, <1>3, <3>1, <3>2
  <2> QED
    BY <2>2, <2>3
<1> QED
  BY <1>4, <1>5, <1>6, <1>7, <1>8, <1>9, <1>10, <1>11 DEF Next
-----------------------------------------------------------------------------
(* The directives *)

\* What is asked and said depends on the package only.
LEMMA SameSay ==
  ASSUME UNCHANGED <<code, input>>
  PROVE  /\ \A w : IsHere(w)' <=> IsHere(w)
         /\ \A t : Asked(t)' = Asked(t)
         /\ \A D : NoneOfItself(D)' <=> NoneOfItself(D)
<1>1. \A w : IsHere(w)' <=> IsHere(w)
  BY DEF IsHere
<1> QED
  BY <1>1 DEF Asked, NoneOfItself, IsHere

\* An answer stays one as directives and reports are added.
LEMMA AnswerStays ==
  ASSUME UNCHANGED <<code, input, requests>>, directives \subseteq directives', reports \subseteq reports',
         NEW k, IsAnswered(k)
  PROVE  IsAnswered(k)'
<1>1. SaidOf(k) \subseteq SaidOf(k)'
  BY DEF SaidOf
<1>2. BareExports' = BareExports
  BY SameAsk DEF BareExports
<1>3. \A r : Object(BlockOf(requests[r]))' = Object(BlockOf(requests[r]))
  BY SameAsk
<1>4. CASE SaidOf(k) # {} \/ IsNull(requests[k].tag)
  BY <1>1, <1>4 DEF IsAnswered
<1>5. CASE \E r \in reports : r.stage = "collect" /\ r.at = k
  <2>1. PICK r \in reports : r.stage = "collect" /\ r.at = k
    BY <1>5
  <2>2. r \in reports'
    BY <2>1
  <2> QED
    BY <2>1, <2>2 DEF IsAnswered
<1>6. CASE k \in BareExports /\ \E r \in reports :
             /\ r.stage = "collect" /\ r.what = "unresolved-s3-export" /\ r.at < k
             /\ Object(BlockOf(requests[r.at])) = Object(BlockOf(requests[k]))
  <2>1. PICK r \in reports :
             /\ r.stage = "collect" /\ r.what = "unresolved-s3-export" /\ r.at < k
             /\ Object(BlockOf(requests[r.at])) = Object(BlockOf(requests[k]))
    BY <1>6
  <2>2. r \in reports' /\ k \in BareExports'
    BY <1>2, <1>6, <2>1
  <2>3. (Object(BlockOf(requests[r.at])) = Object(BlockOf(requests[k])))'
    BY <1>3, <2>1
  <2> QED
    BY <2>1, <2>2, <2>3 DEF IsAnswered
<1> QED
  BY <1>4, <1>5, <1>6 DEF IsAnswered

\* Before the re-exports are named there is nothing to keep.
LEMMA EarlyCollects ==
  ASSUME directives = {}, warned = {}, \A i \in DOMAIN reexports : ~IsRenamed(i),
         \A k \in DOMAIN requests : ~IsCollected(k)
  PROVE  CollectInv
  BY DEF CollectInv, IsNamed

\* A step that only goes on keeps it.
LEMMA CollectFrame ==
  ASSUME InputInv, CollectInv, [Next]_vars, UNCHANGED <<requests, reexports, directives, warned>>,
         reports \subseteq reports', ~IsEarly' \/ IsEarly,
         ~(stage = "reexport" /\ Advance), ~(stage = "collect" /\ Advance)
  PROVE  CollectInv'
<1>1. UNCHANGED <<code, input>>
  BY CodeStays
<1>2. /\ \A i \in DOMAIN reexports : IsRenamed(i)' <=> IsRenamed(i)
      /\ \A k \in DOMAIN requests : IsCollected(k)' <=> IsCollected(k)
  BY MarksStay
<1>3. \A d \in directives : ComesFromSome(d)'
  BY <1>1, <1>2 DEF CollectInv, ComesFromSome
<1>4. \A i \in DOMAIN reexports : IsNamed(i)'
  BY <1>1, <1>2 DEF CollectInv, IsNamed
<1>5. \A k \in DOMAIN requests : IsCollected(k) => IsDealt(k)'
  <2> SUFFICES ASSUME NEW k \in DOMAIN requests, IsCollected(k) PROVE IsDealt(k)'
    OBVIOUS
  <2>1. IsDealt(k)
    BY DEF CollectInv
  <2>2. SaidOf(k)' = SaidOf(k)
    BY DEF SaidOf
  <2>3. IsAnswered(k)'
    BY <1>1, <2>1, AnswerStays DEF IsDealt
  <2> QED
    BY <1>1, <2>1, <2>2, <2>3, SameSay DEF IsDealt, Imported
<1>6. \A n \in warned : IsWarned(n)'
  <2> SUFFICES ASSUME NEW n \in warned PROVE IsWarned(n)'
    OBVIOUS
  <2>1. IsWarned(n)
    BY DEF CollectInv
  <2>2. PICK r \in reports :
    /\ r.stage = "collect" /\ r.what = "unresolved-s3-export"
    /\ r.at \in DOMAIN requests /\ IsCollected(r.at)
    /\ Object(BlockOf(requests[r.at])) = n
    BY <2>1 DEF IsWarned
  <2>3. Object(BlockOf(requests[r.at]))' = n
    BY <1>1, <2>2, SameAsk
  <2>4. r \in reports' /\ r.at \in DOMAIN requests' /\ IsCollected(r.at)'
    BY <1>2, <2>2
  <2> QED
    BY <2>2, <2>3, <2>4 DEF IsWarned
<1>7. IsEarly' => directives' = {} /\ warned' = {}
  BY DEF CollectInv
<1> QED
  BY <1>2, <1>3, <1>4, <1>5, <1>6, <1>7 DEF CollectInv
\* Before and while the blocks are merged, nothing is said.
LEMMA EarlyKeeps ==
  ASSUME InputInv, CollectInv, [Next]_vars, IsEarly
  PROVE  CollectInv'
<1>1. stage \in {"extract", "track", "validate", "merge", "classify", "reclassify"} /\ directives = {} /\ warned = {}
  BY DEF IsEarly, CollectInv
<1>2. directives' = {} /\ warned' = {}
  <2>1. ~NameReexport /\ ~CollectTag /\ ~TakeExportVerdict /\ ~TakeFunctionAnswer
    BY <1>1 DEF NameReexport, CollectTag, TakeExportVerdict, TakeFunctionAnswer, Busy
  <2> QED
    BY <1>1, <2>1, ModelStays
<1>3. \/ stage' \in {"extract", "track", "validate", "merge", "classify", "reclassify"}
      \/ stage' = "reexport" /\ at' = 1
  <2>1. CASE Stays \/ Advance
    BY <1>1, <2>1 DEF Stays, Advance
  <2>2. CASE EndStage
    BY <1>1, <2>2, FollowingIs DEF EndStage
  <2>3. ~Render
    BY <1>1 DEF Render
  <2> QED
    BY <2>1, <2>2, <2>3, CodeStays
<1>4. reexports' \in Seq(Member) /\ requests' \in Seq(Request)
  BY InputKeeps DEF InputInv
<1>5. \A i \in DOMAIN reexports' : ~IsRenamed(i)'
  <2>1. DOMAIN reexports' \subseteq Nat \ {0}
    BY <1>4, LenProperties
  <2> QED
    BY <1>3, <2>1 DEF IsRenamed
<1>6. \A k \in DOMAIN requests' : ~IsCollected(k)'
  BY <1>3 DEF IsCollected
<1> QED
  BY <1>2, <1>5, <1>6 DEF CollectInv, IsNamed

\* The import of a re-export is named, unless it is of the package itself.
LEMMA NameKeeps ==
  ASSUME InputInv, CollectInv, NameReexport
  PROVE  CollectInv'
<1>0. PICK d0 : d0 = [from |-> NoRequest, says |-> NamedBy(reexports[at])]
  OBVIOUS
<1>1. /\ stage = "reexport" /\ at <= Len(reexports) /\ at' = at + 1 /\ stage' = stage
      /\ UNCHANGED <<code, input, requests, reexports, warned>>
      /\ <<reexports[at].package>> = input.here =>
           UNCHANGED directives /\ reports \subseteq reports'
      /\ <<reexports[at].package>> # input.here =>
           directives' = directives \cup {d0} /\ UNCHANGED reports
  BY <1>0, ItemsAre DEF NameReexport, NamedBy, Busy, Advance, analyzer, model
<1>2. at \in Nat \ {0} /\ DOMAIN reexports = 1 .. Len(reexports) /\ Len(reexports) \in Nat
  BY LenProperties DEF InputInv
<1>3. at \in DOMAIN reexports
  BY <1>1, <1>2
<1>4. \A i \in DOMAIN reexports : IsRenamed(i)' <=> IsRenamed(i) \/ i = at
  BY <1>1, <1>2 DEF IsRenamed
<1>5. \A k \in DOMAIN requests : ~IsCollected(k) /\ ~IsCollected(k)'
  BY <1>1 DEF IsCollected
<1>6. directives \subseteq directives' /\ directives' \subseteq directives \cup {d0}
  BY <1>1
<1>7. warned' = {}
  BY <1>1, <1>5 DEF CollectInv, IsWarned
<1>8. \A d \in directives : ComesFromSome(d)'
  BY <1>1, <1>5 DEF CollectInv, ComesFromSome
<1>9. <<reexports[at].package>> # input.here => ComesFromSome(d0)'
  <2>1. PICK i \in DOMAIN reexports : i = at
    BY <1>3
  <2>2. d0.from = NoRequest /\ d0.says = NamedBy(reexports[i])
    BY <1>0, <2>1
  <2> QED
    BY <1>1, <2>1, <2>2 DEF ComesFromSome
<1>10. \A d \in directives' : ComesFromSome(d)'
  BY <1>1, <1>8, <1>9
<1>11. \A i \in DOMAIN reexports' : IsNamed(i)'
  <2> SUFFICES ASSUME NEW i \in DOMAIN reexports, IsRenamed(i)', <<reexports[i].package>> # input.here
               PROVE  [from |-> NoRequest, says |-> NamedBy(reexports[i])] \in directives'
    BY <1>1 DEF IsNamed
  <2>1. CASE i = at
    BY <1>0, <1>1, <2>1
  <2>2. CASE IsRenamed(i)
    BY <1>6, <2>2 DEF CollectInv, IsNamed
  <2> QED
    BY <1>4, <2>1, <2>2
<1>12. ~IsEarly'
  BY <1>1 DEF IsEarly
<1> QED
  BY <1>1, <1>5, <1>7, <1>10, <1>11, <1>12 DEF CollectInv

\* A request is dealt with: it comes to says.
LEMMA DealKeeps ==
  ASSUME InputInv, CollectInv, Busy("collect"), Advance, UNCHANGED <<code, input, requests, reexports>>,
         NEW says, Add(says), Imported(says) = Asked(requests[at].tag), NoneOfItself(says),
         reports \subseteq reports', warned \subseteq warned',
         \/ says # {} \/ IsNull(requests[at].tag)
         \/ \E r \in reports' : r.stage = "collect" /\ r.at = at
         \/ at \in BareExports /\ Object(BlockOf(requests[at])) \in warned,
         \A n \in warned' \ warned : \E r \in reports' :
           /\ r.stage = "collect" /\ r.what = "unresolved-s3-export" /\ r.at = at
           /\ Object(BlockOf(requests[at])) = n
  PROVE  CollectInv'
<1>1. /\ stage = "collect" /\ at <= Len(requests) /\ at' = at + 1 /\ stage' = stage
      /\ directives' = directives \cup {[from |-> at, says |-> s] : s \in says}
  BY ItemsAre DEF Busy, Advance, Add
<1>2. /\ at \in Nat \ {0} /\ DOMAIN requests = 1 .. Len(requests) /\ Len(requests) \in Nat
  BY LenProperties DEF InputInv
<1>3. PICK c : c = at
  OBVIOUS
<1>4. c \in DOMAIN requests /\ c \in Nat \ {0} /\ IsCollected(c)' /\ ~IsCollected(c)
  BY <1>1, <1>2, <1>3 DEF IsCollected
<1>5. /\ \A k \in DOMAIN requests : /\ IsCollected(k)' <=> IsCollected(k) \/ k = c
                                    /\ IsCollected(k) <=> k < c
      /\ \A i \in DOMAIN reexports : IsRenamed(i)' <=> IsRenamed(i)
  BY <1>1, <1>2, <1>3 DEF IsCollected, IsRenamed
<1>6. \A d \in directives : d.from # c
  BY <1>4 DEF CollectInv, ComesFromSome, NoRequest
<1>7. SaidOf(c)' = says
  <2>1. {d \in directives' : d.from = c} = {[from |-> c, says |-> s] : s \in says}
    BY <1>1, <1>3, <1>6
  <2>2. \A s : [from |-> c, says |-> s].says = s
    OBVIOUS
  <2>3. SaidOf(c)' = {d.says : d \in {[from |-> c, says |-> s] : s \in says}}
    BY <2>1 DEF SaidOf
  <2>4. ASSUME NEW s \in says PROVE s \in SaidOf(c)'
    <3>1. [from |-> c, says |-> s] \in {[from |-> c, says |-> t] : t \in says}
      OBVIOUS
    <3> QED
      BY <2>2, <2>3, <3>1
  <2>5. ASSUME NEW s \in SaidOf(c)' PROVE s \in says
    BY <2>2, <2>3
  <2> QED
    BY <2>4, <2>5
<1>8. \A k \in DOMAIN requests : k # c => SaidOf(k)' = SaidOf(k)
  <2> SUFFICES ASSUME NEW k \in DOMAIN requests, k # c PROVE SaidOf(k)' = SaidOf(k)
    OBVIOUS
  <2>1. {d \in directives' : d.from = k} = {d \in directives : d.from = k}
    BY <1>1, <1>3
  <2> QED
    BY <2>1 DEF SaidOf
<1>9. BareExports' = BareExports /\ \A k : Object(BlockOf(requests[k]))' = Object(BlockOf(requests[k]))
  BY SameAsk DEF BareExports
<1>10. IsAnswered(c)'
  <2>1. CASE says # {} \/ IsNull(requests[at].tag)
    BY <1>3, <1>7, <2>1 DEF IsAnswered
  <2>2. CASE \E r \in reports' : r.stage = "collect" /\ r.at = at
    BY <1>3, <2>2 DEF IsAnswered
  <2>3. CASE at \in BareExports /\ Object(BlockOf(requests[at])) \in warned
    <3>1. IsWarned(Object(BlockOf(requests[at])))
      BY <2>3 DEF CollectInv
    <3>2. PICK r \in reports :
            /\ r.stage = "collect" /\ r.what = "unresolved-s3-export"
            /\ r.at \in DOMAIN requests /\ IsCollected(r.at)
            /\ Object(BlockOf(requests[r.at])) = Object(BlockOf(requests[c]))
      BY <1>3, <3>1 DEF IsWarned
    <3>3. r \in reports' /\ r.at < c /\ c \in BareExports'
      BY <1>3, <1>5, <1>9, <2>3, <3>2
    <3>4. Object(BlockOf(requests[r.at]))' = Object(BlockOf(requests[c]))'
      BY <1>9, <3>2
    <3> QED
      BY <3>2, <3>3, <3>4 DEF IsAnswered
  <2> QED
    BY <2>1, <2>2, <2>3
<1>11. \A k \in DOMAIN requests' : IsCollected(k)' => IsDealt(k)'
  <2> SUFFICES ASSUME NEW k \in DOMAIN requests, IsCollected(k)' PROVE IsDealt(k)'
    OBVIOUS
  <2>1. CASE k = c
    BY <1>3, <1>7, <1>10, <2>1, SameSay DEF IsDealt, Imported
  <2>2. CASE k # c
    <3>1. IsDealt(k) /\ SaidOf(k)' = SaidOf(k)
      BY <1>5, <1>8, <2>2 DEF CollectInv
    <3>2. IsAnswered(k)'
      BY <1>1, <3>1, AnswerStays DEF IsDealt
    <3> QED
      BY <3>1, <3>2, SameSay DEF IsDealt, Imported
  <2> QED
    BY <2>1, <2>2
<1>12. \A d \in directives' : ComesFromSome(d)'
  <2>1. \A d \in directives : ComesFromSome(d)'
    BY <1>5 DEF CollectInv, ComesFromSome
  <2>2. \A s \in says : ComesFromSome([from |-> c, says |-> s])'
    BY <1>4 DEF ComesFromSome
  <2> QED
    BY <1>1, <1>3, <2>1, <2>2
<1>13. \A i \in DOMAIN reexports' : IsNamed(i)'
  BY <1>1, <1>5 DEF CollectInv, IsNamed
<1>14. \A n \in warned' : IsWarned(n)'
  <2> SUFFICES ASSUME NEW n \in warned' PROVE IsWarned(n)'
    OBVIOUS
  <2>1. CASE n \in warned
    <3>1. PICK r \in reports :
            /\ r.stage = "collect" /\ r.what = "unresolved-s3-export"
            /\ r.at \in DOMAIN requests /\ IsCollected(r.at)
            /\ Object(BlockOf(requests[r.at])) = n
      BY <2>1 DEF CollectInv, IsWarned
    <3>2. r \in reports' /\ IsCollected(r.at)' /\ Object(BlockOf(requests[r.at]))' = n
      BY <1>5, <1>9, <3>1
    <3> QED
      BY <3>1, <3>2 DEF IsWarned
  <2>2. CASE n \notin warned
    <3>1. PICK r \in reports' :
            /\ r.stage = "collect" /\ r.what = "unresolved-s3-export" /\ r.at = c
            /\ Object(BlockOf(requests[c])) = n
      BY <1>3, <2>2
    <3>2. Object(BlockOf(requests[r.at]))' = n
      BY <1>9, <3>1
    <3> QED
      BY <1>4, <3>1, <3>2 DEF IsWarned
  <2> QED
    BY <2>1, <2>2
<1>15. ~IsEarly'
  BY <1>1 DEF IsEarly
<1> QED
  BY <1>11, <1>12, <1>13, <1>14, <1>15 DEF CollectInv
\* A report of the request at hand.
LEMMA Reported ==
  ASSUME Busy("collect"), NEW S, S # {}, reports' = reports \cup Reports(at, S)
  PROVE  \E r \in reports' : r.stage = "collect" /\ r.at = at
<1>1. PICK w \in S : TRUE
  OBVIOUS
<1>2. Report(at, w) \in reports'
  BY DEF Reports
<1>3. Report(at, w).stage = "collect" /\ Report(at, w).at = at
  BY DEF Report, Busy
<1> QED
  BY <1>2, <1>3

\* The tag of a request, and what is asked by one for an export.
LEMMA RequestIs ==
  ASSUME InputInv, Busy("collect")
  PROVE  /\ requests[at].tag \in Tag
         /\ requests[at].tag.kind = "exportMethod" => requests[at].tag.words # <<>>
         /\ AsksExport(requests[at]) =>
              at \in BareExports /\ Asked(requests[at].tag) = {}
<1>1. at \in DOMAIN requests /\ requests[at] \in Request
  BY ItemsAre, LenProperties, ElementOfSeq DEF InputInv, Busy
<1>2. requests[at] \in Range(requests)
  BY <1>1 DEF Range
<1>3. requests[at].tag \in Range(BlockOf(requests[at]).tags) /\ BlockOf(requests[at]) \in Range(input.blocks)
  BY <1>2 DEF InputInv, BlockOf, Range
<1>4. requests[at].tag.kind = "exportMethod" => requests[at].tag.words # <<>>
  BY <1>3 DEF InputInv, IsBlockOf
<1> QED
  BY <1>1, <1>4 DEF Request, AsksExport, BareExports, Asked

\* A tag that the block settles.
LEMMA TagKeeps ==
  ASSUME InputInv, CollectInv, CollectTag
  PROVE  CollectInv'
<1>1. PICK lowered : lowered = Lowered(BlockOf(requests[at]), requests[at].tag)
  OBVIOUS
<1>2. /\ Busy("collect") /\ Advance /\ UNCHANGED <<code, input, requests, reexports, warned>>
      /\ Add(lowered.says) /\ reports' = reports \cup Reports(at, lowered.reports)
  BY <1>1 DEF CollectTag, Add, Advance, analyzer, model
<1>3. /\ Imported(lowered.says) = Asked(requests[at].tag) /\ NoneOfItself(lowered.says)
      /\ lowered.says # {} \/ lowered.reports # {} \/ IsNull(requests[at].tag)
  BY <1>1, <1>2, RequestIs, TagLowered DEF TagIs
<1>4. \/ lowered.says # {} \/ IsNull(requests[at].tag)
      \/ \E r \in reports' : r.stage = "collect" /\ r.at = at
  BY <1>2, <1>3, Reported
<1>5. PICK says : says = lowered.says
  OBVIOUS
<1> QED
  BY <1>2, <1>3, <1>4, <1>5, DealKeeps DEF Add

\* A tag that waits for what its object is.
LEMMA FunctionKeeps ==
  ASSUME InputInv, CollectInv, TakeFunctionAnswer
  PROVE  CollectInv'
<1>1. PICK lowered : lowered =
        IF answer \in {"function", "generic"}
        THEN LoweredDerived(requests[at].tag.words[1], Object(BlockOf(requests[at]))) ELSE Invalid
  OBVIOUS
<1>2. /\ Busy("collect") /\ Advance /\ UNCHANGED <<code, input, requests, reexports, warned>>
      /\ Add(lowered.says) /\ reports' = reports \cup Reports(at, lowered.reports)
      /\ AsksFunction(requests[at])
  BY <1>1 DEF TakeFunctionAnswer, Add, Advance, Dismiss, model
<1>3. LeadsTo(lowered, MethodKinds)
  BY <1>1, MethodLowered, Leads DEF MethodKinds
<1>4. Asked(requests[at].tag) = {}
  BY <1>2 DEF AsksFunction, Asked
<1>5. Imported(lowered.says) = {} /\ NoneOfItself(lowered.says)
  BY <1>3, ImportsNothing DEF LeadsTo, MethodKinds
<1>6. \/ lowered.says # {}
      \/ \E r \in reports' : r.stage = "collect" /\ r.at = at
  BY <1>2, <1>3, Reported DEF LeadsTo
<1>7. PICK says : says = lowered.says
  OBVIOUS
<1> QED
  BY <1>2, <1>4, <1>5, <1>6, <1>7, DealKeeps DEF Add

\* An export whose object has been analyzed.
LEMMA VerdictKeeps ==
  ASSUME InputInv, CollectInv, AskInv, TakeExportVerdict
  PROVE  CollectInv'
<1>1. PICK says : says = CASE verdict = "export" -> {Directive("export", NoWord, <<Named(object)>>)}
           [] verdict = "method" -> S3Method(Named(Candidate.generic), Named(Candidate.class))
           [] verdict = "unresolved" -> {}
  OBVIOUS
<1>2. /\ Busy("collect") /\ Advance /\ UNCHANGED <<code, input, requests, reexports>>
      /\ Add(says) /\ object # NoName /\ verdict # "none"
      /\ IF verdict = "unresolved" /\ object \notin warned
         THEN warned' = warned \cup {object}
                /\ reports' = reports \cup Reports(at, {"unresolved-s3-export"})
         ELSE UNCHANGED <<warned, reports>>
  BY <1>1 DEF TakeExportVerdict, Add, Advance, Dismiss, model
<1>3. verdict \in {"export", "method", "unresolved"}
  BY <1>2 DEF AskInv
<1>4. /\ verdict = "export" => says = {Directive("export", NoWord, <<Named(object)>>)}
      /\ verdict = "method" => says = S3Method(Named(Candidate.generic), Named(Candidate.class))
      /\ verdict = "unresolved" => says = {}
  BY <1>1
<1>5. /\ \A l \in says : l.kind \notin {"import", "importFrom"}
      /\ verdict # "unresolved" => says # {}
  <2>1. \A k, of, ns : Directive(k, of, ns).kind = k
    BY DEF Directive
  <2>2. CASE verdict = "export"
    BY <1>4, <2>1, <2>2
  <2>3. CASE verdict = "method"
    BY <1>4, <2>1, <2>3 DEF S3Method
  <2>4. CASE verdict = "unresolved"
    BY <1>4, <2>4
  <2> QED
    BY <1>3, <2>2, <2>3, <2>4
<1>6. Imported(says) = {} /\ NoneOfItself(says)
  BY <1>5, ImportsNothing
<1>7. /\ AsksExport(requests[at]) /\ object = Object(BlockOf(requests[at]))
      /\ at \in BareExports /\ Asked(requests[at].tag) = {}
  BY <1>2, RequestIs DEF AskInv, Busy
<1>8. CASE verdict = "unresolved" /\ object \notin warned
  <2>1. Report(at, "unresolved-s3-export") \in reports'
    BY <1>2, <1>8 DEF Reports
  <2>2. /\ Report(at, "unresolved-s3-export").stage = "collect"
        /\ Report(at, "unresolved-s3-export").what = "unresolved-s3-export"
        /\ Report(at, "unresolved-s3-export").at = at
    BY <1>2 DEF Report, Busy
  <2>3. \A n \in warned' \ warned : \E r \in reports' :
          /\ r.stage = "collect" /\ r.what = "unresolved-s3-export" /\ r.at = at
          /\ Object(BlockOf(requests[at])) = n
    BY <1>2, <1>7, <1>8, <2>1, <2>2
  <2> QED
    BY <1>2, <1>6, <1>7, <1>8, <2>1, <2>2, <2>3, DealKeeps
<1>9. CASE ~(verdict = "unresolved" /\ object \notin warned)
  <2>1. UNCHANGED <<warned, reports>>
    BY <1>2, <1>9
  <2>2. says # {} \/ Object(BlockOf(requests[at])) \in warned
    BY <1>5, <1>7, <1>9
  <2> QED
    BY <1>2, <1>6, <1>7, <2>1, <2>2, DealKeeps
<1> QED
  BY <1>8, <1>9

\* A step keeps what is said of the requests and re-exports.
LEMMA CollectKeeps ==
  ASSUME InputInv, CollectInv, AskInv, [Next]_vars
  PROVE  CollectInv'
<1>1. CASE IsEarly
  BY <1>1, EarlyKeeps
<1>2. CASE NameReexport \/ CollectTag \/ TakeFunctionAnswer \/ TakeExportVerdict
  BY <1>2, NameKeeps, TagKeeps, FunctionKeeps, VerdictKeeps
<1>3. CASE ~IsEarly /\ ~(NameReexport \/ CollectTag \/ TakeFunctionAnswer \/ TakeExportVerdict)
  <2>1. ~MergeBlock
    BY <1>3 DEF MergeBlock, Busy, IsEarly
  <2>2. UNCHANGED <<requests, reexports, directives, warned>> /\ reports \subseteq reports'
    BY <1>3, <2>1, ModelStays
  <2>3. Stays \/ EndStage \/ Render
    BY <1>3, ModelStays DEF IsEarly
  <2>4. ~(stage = "reexport" /\ Advance) /\ ~(stage = "collect" /\ Advance)
    <3>1. at \in Nat \ {0}
      BY DEF InputInv
    <3>2. Stays => ~Advance
      BY <3>1 DEF Stays, Advance
    <3>3. EndStage => ~Advance
      BY <3>1 DEF EndStage, Advance
    <3>4. Render => ~Advance
      BY DEF Render, Advance
    <3> QED
      BY <2>3, <3>2, <3>3, <3>4
  <2>5. ~IsEarly'
    <3>1. stage \in {"reexport", "collect", "render", "done"}
      BY <1>3 DEF IsEarly, InputInv, StageNames
    <3>2. CASE Stays
      BY <3>1, <3>2 DEF Stays, IsEarly
    <3>3. CASE EndStage
      BY <3>1, <3>3, FollowingIs DEF EndStage, IsEarly
    <3>4. CASE Render
      BY <3>4 DEF Render, IsEarly
    <3> QED
      BY <2>3, <3>2, <3>3, <3>4
  <2> QED
    BY <1>3, <2>2, <2>4, <2>5, CollectFrame
<1> QED
  BY <1>1, <1>2, <1>3
-----------------------------------------------------------------------------
(* NAMESPACE *)

\* What a request wants imported from another package is what it is asked,
\* as its words have no package.
LEMMA WantedIsAsked ==
  ASSUME InputInv, NEW k \in DOMAIN requests, NEW w
  PROVE  LET t == requests[k].tag
             ofTag == IF t.kind = "importFrom" /\ Len(t.words) > 1 /\ AllDecode(t.words)
                      THEN {<<t.words[1].name, t.words[j].name>> : j \in 2 .. Len(t.words)} ELSE {} IN
         w \in ofTag /\ w[1] # input.here <=> w \in Asked(t)
<1> DEFINE t == requests[k].tag
           all == {<<t.words[1].name, t.words[j].name>> : j \in 2 .. Len(t.words)}
<1>1. /\ requests[k] \in Request /\ requests[k].block \in DOMAIN input.blocks
      /\ t \in Range(BlockOf(requests[k]).tags)
  BY LenProperties, ElementOfSeq DEF InputInv, Range
<1>2. IsBlockOf(BlockOf(requests[k]), code)
  BY <1>1 DEF InputInv, BlockOf, Range
<1>3. t.kind = "importFrom" => \A x \in Range(t.words) : x.package = ""
  BY <1>1, <1>2 DEF IsBlockOf
<1>4. t \in Tag
  BY <1>1 DEF Request
<1>5. t.words \in Seq(Words)
  BY <1>4 DEF Tag
<1>6. t.kind = "importFrom" /\ Len(t.words) > 1 => (IsHere(t.words[1]) <=> t.words[1].name = input.here)
  <2> SUFFICES ASSUME t.kind = "importFrom", Len(t.words) > 1
               PROVE  IsHere(t.words[1]) <=> t.words[1].name = input.here
    OBVIOUS
  <2>1. t.words[1] \in Range(t.words)
    BY <1>5, Members
  <2> QED
    BY <1>3, <2>1 DEF IsHere
<1>7. \A x \in all : x[1] = t.words[1].name
  OBVIOUS
<1> HIDE DEF t, all
<1>8. CASE t.kind = "importFrom" /\ Len(t.words) > 1 /\ AllDecode(t.words)
  <2>1. Asked(t) = IF ~IsHere(t.words[1]) THEN all ELSE {}
    BY <1>8 DEF Asked, all
  <2>2. w \in all /\ w[1] # input.here <=> w \in Asked(t)
    BY <1>6, <1>7, <1>8, <2>1
  <2> QED
    BY <1>8, <2>2 DEF t, all
<1>9. CASE ~(t.kind = "importFrom" /\ Len(t.words) > 1 /\ AllDecode(t.words))
  <2>1. Asked(t) = {}
    BY <1>9 DEF Asked
  <2> QED
    BY <1>9, <2>1 DEF t
<1> QED
  BY <1>8, <1>9

\* The import of a re-export imports its member.
LEMMA NamedImports ==
  ASSUME NEW x
  PROVE  /\ NamedBy(x).kind = "importFrom" /\ NamedBy(x).of.name = <<x.package>>
         /\ Range(NamedBy(x).names) = {Named(x.member)} /\ Named(x.member).name = x.member
<1>1. \A n : Named(n).name = n
  BY DEF Named, Rendered, Word
<1>2. /\ NamedBy(x).kind = "importFrom" /\ NamedBy(x).of = Named(<<x.package>>)
      /\ NamedBy(x).names = <<Named(x.member)>>
  BY DEF NamedBy, Directive
<1>3. \A e : Range(<<e>>) = {e}
  BY DEF Range
<1> QED
  BY <1>1, <1>2, <1>3

\* What is written is what is said: names are imported by package.
LEMMA RenderedImports ==
  ASSUME Render, NEW w
  PROVE  w \in UNION {{<<p.name, x.name>> : x \in output'.imports[p]} : p \in DOMAIN output'.imports}
         <=> \E d \in directives : d.says.kind = "importFrom" /\ \E x \in Range(d.says.names) :
               w = <<d.says.of.name, x.name>>
<1> DEFINE said == {d.says : d \in directives}
           imports == {d \in said : d.kind = "importFrom"}
           from(p) == UNION {Range(d.names) : d \in {d \in imports : d.of = p}}
           written == [p \in {d.of : d \in imports} |-> from(p)]
<1>1. output'.imports = written
  BY DEF Render
<1>2. DOMAIN written = {d.of : d \in imports} /\ \A p \in {d.of : d \in imports} : written[p] = from(p)
  OBVIOUS
<1>3. \A p, x : x \in from(p) <=> \E d \in imports : d.of = p /\ x \in Range(d.names)
  OBVIOUS
<1>4. \A l : l \in imports <=> \E d \in directives : d.says = l /\ l.kind = "importFrom"
  OBVIOUS
<1> HIDE DEF written, from, imports
<1>5. w \in UNION {{<<p.name, x.name>> : x \in written[p]} : p \in DOMAIN written}
      <=> \E l \in imports : \E x \in Range(l.names) : w = <<l.of.name, x.name>>
  <2>1. ASSUME w \in UNION {{<<p.name, x.name>> : x \in written[p]} : p \in DOMAIN written}
        PROVE  \E l \in imports : \E x \in Range(l.names) : w = <<l.of.name, x.name>>
    <3>1. PICK p \in DOMAIN written : w \in {<<p.name, x.name>> : x \in written[p]}
      BY <2>1
    <3>2. PICK x \in written[p] : w = <<p.name, x.name>>
      BY <3>1
    <3>3. x \in from(p)
      BY <1>2, <3>1, <3>2
    <3>4. PICK l \in imports : l.of = p /\ x \in Range(l.names)
      BY <1>3, <3>3
    <3> QED
      BY <3>2, <3>4
  <2>2. ASSUME NEW l \in imports, NEW x \in Range(l.names), w = <<l.of.name, x.name>>
        PROVE  w \in UNION {{<<p.name, y.name>> : y \in written[p]} : p \in DOMAIN written}
    <3>1. PICK p : p = l.of
      OBVIOUS
    <3>2. p \in DOMAIN written /\ x \in written[p]
      BY <1>2, <1>3, <2>2, <3>1
    <3>3. w \in {<<p.name, y.name>> : y \in written[p]}
      BY <2>2, <3>1, <3>2
    <3> QED
      BY <3>2, <3>3
  <2> QED
    BY <2>1, <2>2
<1> QED
  BY <1>1, <1>4, <1>5
\* What is written, once every request and re-export is dealt with, is what
\* was asked.
LEMMA RenderUnites ==
  ASSUME InputInv, MergeInv, CollectInv, [Next]_vars, Render
  PROVE  ImportsAreUnited'
<1> DEFINE ofTag(t) == IF t.kind = "importFrom" /\ Len(t.words) > 1 /\ AllDecode(t.words)
                       THEN {<<t.words[1].name, t.words[j].name>> : j \in 2 .. Len(t.words)} ELSE {}
           tags == UNION {ofTag(requests[k].tag) : k \in DOMAIN requests}
           blocks == {<<<<b.package>>, b.member>> :
                        b \in {b \in Range(input.blocks) : IsReexport(b) /\ b.documented}}
           wanted == {w \in tags \cup blocks : w[1] # input.here}
           written == UNION {{<<p.name, w.name>> : w \in output'.imports[p]} : p \in DOMAIN output'.imports}
           Fetches(w, d) == d.says.kind = "importFrom" /\ \E x \in Range(d.says.names) : w = <<d.says.of.name, x.name>>
<1>1. UNCHANGED <<code, input, requests, reexports, directives>> /\ stage = "render"
  BY CodeStays DEF Render, model
<1>2. /\ \A i \in DOMAIN input.blocks : IsMerged(i)
      /\ \A i \in DOMAIN reexports : IsRenamed(i)
      /\ \A k \in DOMAIN requests : IsCollected(k)
  BY <1>1 DEF IsMerged, IsRenamed, IsCollected
<1>3. \A w : w \in written <=> \E d \in directives : Fetches(w, d)
  BY RenderedImports
<1>4. \A w : w \in tags /\ w[1] # input.here <=> \E k \in DOMAIN requests : w \in Asked(requests[k].tag)
  <2>1. \A w : \A k \in DOMAIN requests :
          w \in ofTag(requests[k].tag) /\ w[1] # input.here <=> w \in Asked(requests[k].tag)
    BY WantedIsAsked
  <2> HIDE DEF ofTag
  <2> QED
    BY <2>1
<1>5. \A k \in DOMAIN requests : \A w :
        w \in Asked(requests[k].tag) <=> \E d \in directives : d.from = k /\ Fetches(w, d)
  <2> SUFFICES ASSUME NEW k \in DOMAIN requests, NEW w
               PROVE  w \in Asked(requests[k].tag) <=> \E d \in directives : d.from = k /\ Fetches(w, d)
    OBVIOUS
  <2>1. Asked(requests[k].tag) = Imported(SaidOf(k))
    BY <1>2 DEF CollectInv, IsDealt
  <2>2. w \in Imported(SaidOf(k)) <=>
          \E l \in SaidOf(k) : l.kind = "importFrom" /\ \E x \in Range(l.names) : w = <<l.of.name, x.name>>
    BY DEF Imported
  <2>3. \A l : l \in SaidOf(k) <=> \E d \in directives : d.from = k /\ d.says = l
    BY DEF SaidOf
  <2> QED
    BY <2>1, <2>2, <2>3
<1>6. \A w : w \in blocks /\ w[1] # input.here <=>
        \E i \in DOMAIN reexports : <<reexports[i].package>> # input.here
                                    /\ w = <<<<reexports[i].package>>, reexports[i].member>>
  <2>1. \A x : x \in Range(reexports) <=>
          \E i \in DOMAIN input.blocks : /\ IsReexport(input.blocks[i]) /\ input.blocks[i].documented
                                         /\ x = MemberOf(input.blocks[i])
    BY <1>2 DEF MergeInv
  <2>2. \A w : w \in blocks <=>
          \E i \in DOMAIN input.blocks : /\ IsReexport(input.blocks[i]) /\ input.blocks[i].documented
                                         /\ w = <<<<input.blocks[i].package>>, input.blocks[i].member>>
    BY DEF Range
  <2>3. \A w : w \in blocks <=> \E x \in Range(reexports) : w = <<<<x.package>>, x.member>>
    <3>1. \A b : MemberOf(b).package = b.package /\ MemberOf(b).member = b.member
      BY DEF MemberOf
    <3> HIDE DEF blocks
    <3>2. ASSUME NEW w, w \in blocks
          PROVE  \E x \in Range(reexports) : w = <<<<x.package>>, x.member>>
      <4>1. PICK i \in DOMAIN input.blocks :
              /\ IsReexport(input.blocks[i]) /\ input.blocks[i].documented
              /\ w = <<<<input.blocks[i].package>>, input.blocks[i].member>>
        BY <2>2, <3>2
      <4>2. MemberOf(input.blocks[i]) \in Range(reexports)
        BY <2>1, <4>1
      <4> QED
        BY <3>1, <4>1, <4>2
    <3>3. ASSUME NEW w, NEW x \in Range(reexports), w = <<<<x.package>>, x.member>>
          PROVE  w \in blocks
      <4>1. PICK i \in DOMAIN input.blocks :
              /\ IsReexport(input.blocks[i]) /\ input.blocks[i].documented
              /\ x = MemberOf(input.blocks[i])
        BY <2>1, <3>3
      <4>2. w = <<<<input.blocks[i].package>>, input.blocks[i].member>>
        BY <3>1, <3>3, <4>1
      <4> QED
        BY <2>2, <4>1, <4>2
    <3> QED
      BY <3>2, <3>3
  <2>4. \A w : w \in blocks <=> \E i \in DOMAIN reexports : w = <<<<reexports[i].package>>, reexports[i].member>>
    BY <2>3 DEF Range
  <2> HIDE DEF blocks
  <2> QED
    BY <2>4
<1>7. \A w : (\E i \in DOMAIN reexports : <<reexports[i].package>> # input.here
                                          /\ w = <<<<reexports[i].package>>, reexports[i].member>>)
             <=> \E d \in directives : d.from = NoRequest /\ Fetches(w, d)
  <2>1. \A w, x, d : d.says = NamedBy(x) => (Fetches(w, d) <=> w = <<<<x.package>>, x.member>>)
    BY NamedImports
  <2>2. \A i \in DOMAIN reexports : <<reexports[i].package>> # input.here =>
          \E d \in directives : d.from = NoRequest /\ d.says = NamedBy(reexports[i])
    <3> SUFFICES ASSUME NEW i \in DOMAIN reexports, <<reexports[i].package>> # input.here
                 PROVE  \E d \in directives : d.from = NoRequest /\ d.says = NamedBy(reexports[i])
      OBVIOUS
    <3>1. [from |-> NoRequest, says |-> NamedBy(reexports[i])] \in directives
      BY <1>2 DEF CollectInv, IsNamed
    <3> QED
      BY <3>1
  <2>3. \A d \in directives : d.from = NoRequest => \E i \in DOMAIN reexports :
          <<reexports[i].package>> # input.here /\ d.says = NamedBy(reexports[i])
    <3>1. NoRequest \notin DOMAIN requests
      BY LenProperties DEF InputInv, NoRequest
    <3> QED
      BY <3>1 DEF CollectInv, ComesFromSome
  <2> HIDE DEF Fetches
  <2> QED
    BY <2>1, <2>2, <2>3
<1>8. \A d \in directives : d.from \in DOMAIN requests \/ d.from = NoRequest
  BY DEF CollectInv, ComesFromSome
<1>9. wanted = written
  <2>1. \A w : w \in wanted <=> (w \in tags /\ w[1] # input.here) \/ (w \in blocks /\ w[1] # input.here)
    OBVIOUS
  <2> HIDE DEF tags, blocks, written, wanted, Fetches
  <2>2. \A w : w \in wanted <=> \E d \in directives : Fetches(w, d)
    BY <1>4, <1>5, <1>6, <1>7, <1>8, <2>1
  <2>3. \A w : w \in wanted <=> w \in written
    BY <1>3, <2>2
  <2>4. wanted \subseteq written /\ written \subseteq wanted
    BY <2>3
  <2> QED
    BY <2>4
<1>10. \A l \in output'.lines : l.kind = "import" /\ ~HasComma(l.names) => ~IsHere(l.names[1])
  <2> SUFFICES ASSUME NEW l \in output'.lines, l.kind = "import", ~HasComma(l.names)
               PROVE  ~IsHere(l.names[1])
    OBVIOUS
  <2>1. PICK d \in directives : d.says = l
    BY DEF Render
  <2>2. CASE d.from \in DOMAIN requests
    <3>1. l \in SaidOf(d.from) /\ NoneOfItself(SaidOf(d.from))
      BY <1>2, <2>1, <2>2 DEF SaidOf, CollectInv, IsDealt
    <3> QED
      BY <3>1 DEF NoneOfItself
  <2>3. CASE d.from \notin DOMAIN requests
    <3>1. PICK i \in DOMAIN reexports : d.says = NamedBy(reexports[i])
      BY <2>3 DEF CollectInv, ComesFromSome
    <3> QED
      BY <2>1, <3>1, NamedImports
  <2> QED
    BY <2>2, <2>3
<1> HIDE DEF written
<1>11. \A w : IsHere(w)' <=> IsHere(w)
  BY <1>1, SameSay
<1>12. \A b : IsReexport(b)' <=> IsReexport(b)
  BY DEF IsReexport
<1>13. wanted = UNION {{<<p.name, w.name>> : w \in output'.imports[p]} : p \in DOMAIN output'.imports}
  BY <1>9 DEF written
<1> QED
  BY <1>1, <1>10, <1>11, <1>12, <1>13 DEF ImportsAreUnited

\* Everything together.
ReachInv == InputInv /\ MergeInv /\ AskInv /\ CollectInv /\ ImportsAreUnited

\* At first nothing is there yet.
LEMMA ReachStarts ==
  ASSUME Init
  PROVE  ReachInv
<1>1. PICK family \in Families : \E P \in family :
        /\ code = P.code
        /\ input = [here |-> P.here, signatures |-> P.signatures, calls |-> P.calls, blocks |-> P.blocks]
  BY DEF Init
<1>2. PICK P \in family :
        /\ code = P.code
        /\ input = [here |-> P.here, signatures |-> P.signatures, calls |-> P.calls, blocks |-> P.blocks]
  BY <1>1
<1>3. /\ P.here \in Names /\ P.blocks \in Seq(Block)
      /\ \A b \in Range(P.blocks) : IsBlockOf(b, P.code)
  BY <1>1, <1>2, FamiliesAssumption
<1>4. /\ stage = "extract" /\ at = 1 /\ requests = <<>> /\ reexports = <<>>
      /\ directives = {} /\ warned = {} /\ object = NoName /\ verdict = "none"
  BY DEF Init, NewAnalyzer
<1>5. /\ DOMAIN requests = {} /\ DOMAIN reexports = {} /\ Range(requests) = {} /\ Range(reexports) = {}
      /\ requests \in Seq(Request) /\ reexports \in Seq(Member)
  BY <1>4 DEF Range
<1>6. InputInv
  BY <1>2, <1>3, <1>4, <1>5 DEF InputInv, StageNames
<1>7. MergeInv
  BY <1>4, <1>5 DEF MergeInv, IsMerged
<1>8. AskInv
  BY <1>4 DEF AskInv
<1>9. CollectInv
  BY <1>4, <1>5 DEF CollectInv
<1>10. ImportsAreUnited
  BY <1>4 DEF ImportsAreUnited
<1> QED
  BY <1>6, <1>7, <1>8, <1>9, <1>10 DEF ReachInv

\* A step that leaves what is asked and written alone keeps it united.
LEMMA UnitedFrame ==
  ASSUME UNCHANGED <<code, input, stage, requests, output>>, ImportsAreUnited
  PROVE  ImportsAreUnited'
<1>1. \A w : IsHere(w)' <=> IsHere(w)
  BY SameSay
<1>2. \A b : IsReexport(b)' <=> IsReexport(b)
  BY DEF IsReexport
<1> QED
  BY <1>1, <1>2 DEF ImportsAreUnited

\* NAMESPACE is written once, at the end.
LEMMA UnitedKeeps ==
  ASSUME ReachInv, [Next]_vars
  PROVE  ImportsAreUnited'
<1>1. CASE Render
  BY <1>1, RenderUnites DEF ReachInv
<1>2. CASE stage' # "done"
  BY <1>2 DEF ImportsAreUnited
<1>3. CASE ~Render /\ stage' = "done"
  <2>1. ~EndStage
    BY <1>3, FollowingIs DEF EndStage, ReachInv, InputInv, StageNames
  <2>2. stage = "done"
    BY <1>3, <2>1, CodeStays DEF Stays, Advance
  <2>3. Analyzer \/ Built \/ UNCHANGED vars
    BY <1>3, <2>1, <2>2 DEF Next, ExtractCall, TrackS7, ValidateTarget, MergeBlock, SkipUsage, ClassifyUsage,
         TakeUsageVerdict, NameReexport, CollectTag, AskExport, TakeExportVerdict, AskFunction,
         TakeFunctionAnswer, Busy, Classifying, ClassifyStages
  <2>4. UNCHANGED <<stage, requests, output>>
    BY <2>3 DEF Analyzer, Built, vars, model, result
  <2> QED
    BY <2>4, CodeStays, UnitedFrame DEF ReachInv
<1> QED
  BY <1>1, <1>2, <1>3

\* What is asked of NAMESPACE is dealt with when it is written.
LEMMA ReachMeans ==
  ASSUME ReachInv
  PROVE  RequestsReachNamespace
<1>1. EveryRequestIsAccounted
  BY DEF EveryRequestIsAccounted, ReachInv, CollectInv, IsCollected, IsDealt, IsAnswered
<1> QED
  BY <1>1 DEF RequestsReachNamespace, ReachInv

\* Whatever a package has in its blocks, every tag that asks something of its
\* NAMESPACE comes to a directive or a report, and NAMESPACE imports exactly
\* what tags and re-exports ask of other packages, united by package and never
\* from itself (build_namespace_inner, collect_request, render).
THEOREM RequestsReach == Spec => []RequestsReachNamespace
<1>1. Init => ReachInv
  BY ReachStarts
<1>2. ReachInv /\ [Next]_vars => ReachInv'
  <2> SUFFICES ASSUME ReachInv, [Next]_vars PROVE ReachInv'
    OBVIOUS
  <2>1. InputInv' /\ MergeInv' /\ AskInv' /\ CollectInv'
    BY InputKeeps, MergeKeeps, AskKeeps, CollectKeeps DEF ReachInv
  <2>2. ImportsAreUnited'
    BY UnitedKeeps
  <2> QED
    BY <2>1, <2>2 DEF ReachInv
<1>3. ReachInv => RequestsReachNamespace
  BY ReachMeans
<1> QED
  BY <1>1, <1>2, <1>3, PTL DEF Spec

-----------------------------------------------------------------------------
(* What is certain of a name *)

\* One thing at most is certain of a name.
LEMMA MeansOne ==
  ASSUME NEW c, NEW n, NEW r, NEW q, Means(c, n, r), Means(c, n, q)
  PROVE  r = q
<1>1. CASE ~ \E i \in DOMAIN c.facts : FactsOf(c, n) = {i}
  BY <1>1 DEF Means
<1>2. CASE \E i \in DOMAIN c.facts : FactsOf(c, n) = {i}
  <2> DEFINE copies == Copies(c)
             Terminal(t) == \A e \in copies : e[1] # t
  <2>1. PICK i, t \in DOMAIN c.facts :
          FactsOf(c, n) = {i} /\ ComesFrom(c, copies, i, t) /\ Terminal(t) /\ r = OwnMeaning(c, t)
    BY <1>2 DEF Means
  <2>2. PICK j, u \in DOMAIN c.facts :
          FactsOf(c, n) = {j} /\ ComesFrom(c, copies, j, u) /\ Terminal(u) /\ q = OwnMeaning(c, u)
    BY <1>2 DEF Means
  <2>3. i = j
    BY <2>1, <2>2
  <2>4. \A e, f \in copies : e[1] = f[1] => e[2] = f[2]
    BY DEF Copies
  <2>5. \A e \in copies : e[1] \in DOMAIN c.facts /\ e[2] \in DOMAIN c.facts
    BY DEF Copies
  <2> HIDE DEF copies
  <2> DEFINE S == {x \in DOMAIN c.facts : ComesFrom(c, copies, x, t)}
  <2>6. ASSUME NEW e \in copies, e[1] \in S PROVE e[2] \in S
    <3>1. e[1] # t /\ ComesFrom(c, copies, e[1], t)
      BY <2>1, <2>6
    <3>2. ASSUME NEW T \in SUBSET (DOMAIN c.facts), e[2] \in T, \A f \in copies : f[1] \in T => f[2] \in T
          PROVE  t \in T
      <4>1. T \cup {e[1]} \in SUBSET (DOMAIN c.facts)
        BY <2>5
      <4>2. \A f \in copies : f[1] \in T \cup {e[1]} => f[2] \in T \cup {e[1]}
        BY <2>4, <3>2
      <4>3. t \in T \cup {e[1]}
        BY <3>1, <4>1, <4>2 DEF ComesFrom
      <4> QED
        BY <3>1, <4>3
    <3> QED
      BY <2>5, <3>2 DEF ComesFrom
  <2>7. i \in S /\ S \in SUBSET (DOMAIN c.facts)
    BY <2>1
  <2>8. u \in S
    BY <2>2, <2>3, <2>6, <2>7 DEF ComesFrom
  <2>9. t \in {u}
    <3>1. {u} \in SUBSET (DOMAIN c.facts) /\ \A e \in copies : e[1] \in {u} => e[2] \in {u}
      BY <2>2
    <3>2. ComesFrom(c, copies, u, t)
      BY <2>8
    <3> QED
      BY <3>1, <3>2 DEF ComesFrom
  <2> QED
    BY <2>1, <2>2, <2>9
<1> QED
  BY <1>1, <1>2

-----------------------------------------------------------------------------
(* The tries *)

\* The split of n at j.
Cut(n, j) == [generic |-> Part(n, 1, j), class |-> Part(n, j + 1, Len(n))]

\* Its two parts are not empty, and together they are n.
LEMMA CutIs ==
  ASSUME NEW n \in Names, NEW j \in 1 .. Len(n) - 1
  PROVE  /\ Len(Cut(n, j).generic) = j /\ Cut(n, j).generic # NoName /\ Cut(n, j).class # NoName
         /\ n = Cut(n, j).generic \o Cut(n, j).class
<1>1. n \in Seq(STRING) /\ Len(n) \in Nat /\ \A i \in 1 .. Len(n) : n[i] \in STRING
  BY LenProperties, ElementOfSeq DEF Names
<1>2. j \in Int /\ j + 1 \in Int /\ Len(n) \in Int /\ 1 \in Int /\ j >= 1 /\ j + 1 <= Len(n)
  BY <1>1
<1>3. \A i \in 1 .. j : n[i] \in STRING
  BY <1>1, <1>2
<1>4. \A i \in j + 1 .. Len(n) : n[i] \in STRING
  BY <1>1, <1>2
<1>5. Len(SubSeq(n, 1, j)) = j
  <2>1. Len(SubSeq(n, 1, j)) = IF 1 <= j THEN j - 1 + 1 ELSE 0
    BY <1>2, <1>3, SubSeqProperties
  <2> QED
    BY <1>2, <2>1
<1>6. Len(SubSeq(n, j + 1, Len(n))) = Len(n) - j
  <2>1. Len(SubSeq(n, j + 1, Len(n))) = IF j + 1 <= Len(n) THEN Len(n) - (j + 1) + 1 ELSE 0
    BY <1>2, <1>4, SubSeqProperties
  <2> QED
    BY <1>2, <2>1
<1>7. Len(NoName) = 0
  BY DEF NoName
<1>8. SubSeq(n, 1, j) # NoName /\ SubSeq(n, j + 1, Len(n)) # NoName
  <2> DEFINE g == SubSeq(n, 1, j)
             c == SubSeq(n, j + 1, Len(n))
  <2>0. Len(g) = j /\ Len(c) = Len(n) - j
    BY <1>5, <1>6
  <2> HIDE DEF g, c
  <2>1. Len(g) # 0 /\ Len(c) # 0
    BY <1>2, <2>0
  <2>2. g # NoName /\ c # NoName
    BY <1>7, <2>1, Zenon
  <2> QED
    BY <2>2 DEF g, c
<1>9. n = SubSeq(n, 1, j) \o SubSeq(n, j + 1, Len(n))
  <2>1. SubSeq(n, 1, j) \o SubSeq(n, j + 1, Len(n)) = SubSeq(n, 1, Len(n))
    BY <1>1, <1>2, ConcatAdjacentSubSeq
  <2> QED
    BY <1>1, <2>1, SubSeqFull
<1> QED
  BY <1>5, <1>8, <1>9 DEF Cut, Part

\* The try after the cut at j, and the first one, of all.equal.
LEMMA TriesAre ==
  ASSUME NEW n \in Names
  PROVE  /\ Tries(n) \subseteq 1 .. Len(n)
         /\ \A j \in 1 .. Len(n) - 1 : /\ SplitAt(n, j + 1) = Cut(n, j)
                                       /\ j + 1 \in Tries(n) <=> IsSplit(n, Cut(n, j))
         /\ 1 \in Tries(n) <=> Len(n) > 2 /\ Cut(n, 2).generic = AllEqual /\ IsSplit(n, Cut(n, 2))
         /\ SplitAt(n, 1) = Cut(n, 2)
         /\ \A t \in Tries(n) : t = 1 \/ t - 1 \in 1 .. Len(n) - 1
<1>1. Len(n) \in Nat
  BY LenProperties DEF Names
<1>2. Tries(n) \subseteq 1 .. Len(n)
  BY DEF Tries
<1>3. SplitAt(n, 1) = Cut(n, 2)
  BY DEF SplitAt, Cut
<1>4. ASSUME NEW j \in 1 .. Len(n) - 1
      PROVE  IsSplit(n, Cut(n, j)) <=> Cut(n, j).generic # Empty /\ Cut(n, j).class # Empty
  <2> DEFINE m == Cut(n, j)
  <2>1. n = m.generic \o m.class /\ m.generic # NoName /\ m.class # NoName
    BY CutIs
  <2> HIDE DEF m
  <2>2. IsSplit(n, m) <=> m.generic # Empty /\ m.class # Empty
    BY <2>1 DEF IsSplit
  <2> QED
    BY <2>2 DEF m
<1>5. ASSUME NEW j \in 1 .. Len(n) - 1
      PROVE  /\ SplitAt(n, j + 1) = Cut(n, j)
             /\ j + 1 \in Tries(n) <=> IsSplit(n, Cut(n, j))
  <2>1. j + 1 \in 1 .. Len(n) /\ j + 1 # 1 /\ j + 1 - 1 = j
    BY <1>1
  <2>2. SplitAt(n, j + 1) = Cut(n, j)
    BY <2>1 DEF SplitAt, Cut
  <2> QED
    BY <1>4, <2>1, <2>2 DEF Tries
<1>6. 1 \in Tries(n) <=> Len(n) > 2 /\ Cut(n, 2).generic = AllEqual /\ IsSplit(n, Cut(n, 2))
  <2>1. CASE Len(n) > 2
    <3>1. 2 \in 1 .. Len(n) - 1 /\ 1 \in 1 .. Len(n)
      BY <1>1, <2>1
    <3>2. 1 \in Tries(n) <=> Part(n, 1, 2) = AllEqual /\ Cut(n, 2).generic # Empty /\ Cut(n, 2).class # Empty
      BY <1>3, <2>1, <3>1 DEF Tries
    <3>3. Cut(n, 2).generic = Part(n, 1, 2)
      BY DEF Cut
    <3> QED
      BY <1>4, <2>1, <3>1, <3>2, <3>3
  <2>2. CASE ~(Len(n) > 2)
    BY <2>2 DEF Tries
  <2> QED
    BY <2>1, <2>2
<1>7. \A t \in Tries(n) : t = 1 \/ t - 1 \in 1 .. Len(n) - 1
  BY <1>1, <1>2
<1> QED
  BY <1>2, <1>3, <1>5, <1>6, <1>7

\* The next try is the least one that is left.
LEMMA NextIs ==
  ASSUME NEW n \in Names, NEW t \in Nat
  PROVE  /\ NextTry(n, t) \in Tries(n) \cup {Len(n) + 1} /\ NextTry(n, t) \in Nat \ {0}
         /\ \A u \in Tries(n) : u < NextTry(n, t) => u <= t
<1> DEFINE rest == {u \in Tries(n) : u > t}
<1>1. Len(n) \in Nat /\ Tries(n) \subseteq 1 .. Len(n)
  BY LenProperties, TriesAre DEF Names
<1>2. CASE rest = {}
  <2>1. NextTry(n, t) = Len(n) + 1
    BY <1>2 DEF NextTry
  <2>2. \A u \in Tries(n) : u <= t
    BY <1>1, <1>2
  <2> QED
    BY <1>1, <2>1, <2>2
<1>3. CASE rest # {}
  <2>1. rest \in SUBSET Nat
    BY <1>1
  <2>2. PICK u \in rest : \A v \in rest : u <= v
    BY <1>3, <2>1, LeastExists
  <2>3. NextTry(n, t) \in rest /\ \A v \in rest : NextTry(n, t) <= v
    BY <1>3, <2>2 DEF NextTry
  <2>4. \A v \in Tries(n) : v < NextTry(n, t) => v <= t
    BY <1>1, <2>1, <2>3
  <2> QED
    BY <1>1, <2>3, <2>4
<1> QED
  BY <1>2, <1>3
-----------------------------------------------------------------------------
(* The method that a name is *)

\* The tries before t come to nothing, when others provide the generics G.
Fruitless(n, t, G) == \A u \in Tries(n) : u < t => ~IsProvenGeneric(SplitAt(n, u).generic, G)

\* The methods of a name are among its cuts.
LEMMA MethodsAre ==
  ASSUME NEW n, NEW G
  PROVE  MethodsOf(n, G) = {m \in {Cut(n, j) : j \in 1 .. Len(n) - 1} : IsMethod(n, m, G)}
  BY DEF MethodsOf, SplitsOf, Cut

\* When no try comes to anything, the name is no method.
LEMMA NoMethodFound ==
  ASSUME NEW n \in Names, NEW G, Fruitless(n, Len(n) + 1, G) \/ ~IsProvenFunction(n)
  PROVE  MethodsOf(n, G) = {}
<1>1. Len(n) \in Nat
  BY LenProperties DEF Names
<1>2. ASSUME NEW j \in 1 .. Len(n) - 1, IsMethod(n, Cut(n, j), G) PROVE FALSE
  <2>1. IsProvenFunction(n) /\ IsSplit(n, Cut(n, j)) /\ IsProvenGeneric(Cut(n, j).generic, G)
    BY <1>2 DEF IsMethod
  <2>2. j + 1 \in Tries(n) /\ SplitAt(n, j + 1) = Cut(n, j) /\ j + 1 < Len(n) + 1
    BY <1>1, <2>1, TriesAre
  <2> QED
    BY <2>1, <2>2 DEF Fruitless
<1> QED
  BY <1>2, MethodsAre

\* A name of one part, or none, is no method.
LEMMA ShortIsNone ==
  ASSUME NEW n, Len(n) \in {0, 1}, NEW G
  PROVE  MethodsOf(n, G) = {}
<1>1. \A l \in {0, 1} : 1 .. l - 1 = {}
  OBVIOUS
<1>2. 1 .. Len(n) - 1 = {}
  BY <1>1
<1>3. SplitsOf(n) = {}
  BY <1>2 DEF SplitsOf
<1> QED
  BY <1>3 DEF MethodsOf

\* The first try that comes to something is the method that the name is.
LEMMA MethodFound ==
  ASSUME NEW n \in Names, NEW t \in Tries(n), NEW G, Fruitless(n, t, G), IsProvenFunction(n),
         IsProvenGeneric(SplitAt(n, t).generic, G)
  PROVE  MethodsOf(n, G) = {SplitAt(n, t)}
<1>1. Len(n) \in Nat /\ t \in Nat /\ Len(AllEqual) = 2
  BY LenProperties, TriesAre DEF Names, AllEqual
<1>2. PICK j \in 1 .. Len(n) - 1 : /\ SplitAt(n, t) = Cut(n, j) /\ IsSplit(n, Cut(n, j))
                                   /\ IF t = 1 THEN j = 2 /\ Cut(n, j).generic = AllEqual ELSE t = j + 1
  <2>1. CASE t = 1
    BY <1>1, <2>1, TriesAre
  <2>2. CASE t # 1
    <3>1. t - 1 \in 1 .. Len(n) - 1 /\ t - 1 + 1 = t
      BY <1>1, <2>2, TriesAre
    <3> QED
      BY <2>2, <3>1, TriesAre
  <2> QED
    BY <2>1, <2>2
<1>3. IsProvenGeneric(Cut(n, j).generic, G)
  BY <1>2
<1> DEFINE Works(k) == IsSplit(n, Cut(n, k)) /\ IsProvenGeneric(Cut(n, k).generic, G)
<1>4. ASSUME NEW k \in 1 .. Len(n) - 1, Works(k) PROVE k + 1 >= t
  <2>1. k + 1 \in Tries(n) /\ SplitAt(n, k + 1) = Cut(n, k)
    BY <1>4, TriesAre
  <2>2. ~(k + 1 < t)
    BY <1>4, <2>1 DEF Fruitless
  <2> QED
    BY <1>1, <2>2
<1>5. ASSUME NEW k \in 1 .. Len(n) - 1, Works(k), Cut(n, k).generic = AllEqual PROVE t = 1 /\ k = 2
  <2>1. k = 2
    BY <1>1, <1>5, CutIs
  <2>2. Len(n) > 2
    BY <1>1, <2>1
  <2>3. 1 \in Tries(n) /\ SplitAt(n, 1) = Cut(n, 2)
    BY <1>5, <2>1, <2>2, TriesAre
  <2>4. ~(1 < t)
    BY <1>5, <2>1, <2>3 DEF Fruitless
  <2>5. t \in 1 .. Len(n)
    BY TriesAre
  <2> QED
    BY <1>1, <2>1, <2>4, <2>5
<1>6. \A k : Cut(n, k) = [generic |-> Part(n, 1, k), class |-> Part(n, k + 1, Len(n))]
  BY DEF Cut
<1>7. \A m : IsMethod(n, m, G) <=>
        /\ IsSplit(n, m) /\ IsProvenGeneric(m.generic, G)
        /\ \/ m.generic = AllEqual
           \/ \A k \in 1 .. Len(n) - 1 : Works(k) => k >= Len(m.generic) /\ Cut(n, k).generic # AllEqual
  BY <1>6 DEF IsMethod
<1> HIDE DEF Works
<1>8. Works(j) /\ Len(Cut(n, j).generic) = j
  BY <1>2, <1>3, CutIs DEF Works
<1>9. IsMethod(n, Cut(n, j), G)
  <2>1. CASE t = 1
    BY <1>2, <1>3, <1>7, <2>1
  <2>2. CASE t # 1
    <3>1. \A k \in 1 .. Len(n) - 1 : Works(k) => k >= j /\ Cut(n, k).generic # AllEqual
      BY <1>1, <1>2, <1>4, <1>5, <2>2
    <3> QED
      BY <1>2, <1>3, <1>7, <1>8, <3>1
  <2> QED
    BY <2>1, <2>2
<1>10. ASSUME NEW i \in 1 .. Len(n) - 1, IsMethod(n, Cut(n, i), G) PROVE i = j
  <2>1. Works(i) /\ Len(Cut(n, i).generic) = i
    BY <1>7, <1>10, CutIs DEF Works
  <2>2. CASE Cut(n, i).generic = AllEqual
    BY <1>2, <1>5, <2>1, <2>2
  <2>3. CASE Cut(n, i).generic # AllEqual
    <3>1. j >= i /\ Cut(n, j).generic # AllEqual
      BY <1>7, <1>8, <1>10, <2>1, <2>3
    <3>2. t = j + 1
      BY <1>2, <3>1
    <3>3. i + 1 >= t
      BY <1>4, <2>1
    <3> QED
      BY <1>1, <3>1, <3>2, <3>3
  <2> QED
    BY <2>2, <2>3
<1>11. MethodsOf(n, G) = {Cut(n, j)}
  BY <1>9, <1>10, MethodsAre
<1> QED
  BY <1>2, <1>11
-----------------------------------------------------------------------------
(* The analysis of an object *)

\* The name that is being resolved.
Question == IF split = 0 THEN object ELSE Candidate.generic

\* What an analysis has found so far: the tries behind it came to nothing, and
\* its verdict, or its answer, is what is certain.
Finding ==
  /\ object \in Names /\ split \in Nat
  /\ verdict = "export" => Len(object) = 1 \/ Means(code, object, "nonfunction")
  /\ verdict # "export" => Len(object) > 1
  /\ split > 0 => /\ IsProvenFunction(object) /\ Fruitless(object, split, provider)
                  /\ split \in Tries(object) \cup {Len(object) + 1}
  /\ verdict = "method" => split \in Tries(object) /\ IsProvenGeneric(Candidate.generic, provider)
  /\ verdict = "unresolved" => \/ split = 0 /\ Means(code, object, "unknown")
                               \/ split = Len(object) + 1
  /\ verdict = "none" =>
       /\ chain # <<>> => chain[1] = Question
       /\ chain = <<>> /\ answer # NoAnswer => Means(code, Question, answer)
       /\ split > 0 /\ (chain # <<>> \/ answer # NoAnswer) =>
            split <= Len(object) /\ FactsOf(code, Question) # {}
VerdictInv == stage = "collect" /\ object # NoName => Finding

\* What is certain depends on the code alone.
LEMMA SameCode ==
  ASSUME code' = code
  PROVE  /\ \A n, r : Means(code, n, r)' <=> Means(code, n, r)
         /\ \A n : IsProvenFunction(n)' <=> IsProvenFunction(n)
         /\ \A n, G : IsProvenGeneric(n, G)' <=> IsProvenGeneric(n, G)
         /\ \A n, t, G : Fruitless(n, t, G)' <=> Fruitless(n, t, G)
         /\ \A n, G : MethodsOf(n, G)' = MethodsOf(n, G)
<1>1. \A n, r : Means(code, n, r)' <=> Means(code, n, r)
  BY DEF Means
<1>2. \A n : IsProvenFunction(n)' <=> IsProvenFunction(n)
  BY <1>1 DEF IsProvenFunction
<1>3. \A n, G : IsProvenGeneric(n, G)' <=> IsProvenGeneric(n, G)
  BY <1>1 DEF IsProvenGeneric
<1>4. \A n, t, G : Fruitless(n, t, G)' <=> Fruitless(n, t, G)
  BY <1>3 DEF Fruitless
<1>5. \A n, m, G : IsMethod(n, m, G)' <=> IsMethod(n, m, G)
  BY <1>2, <1>3 DEF IsMethod
<1>6. \A n, G : MethodsOf(n, G)' = MethodsOf(n, G)
  BY <1>5 DEF MethodsOf, SplitsOf
<1> QED
  BY <1>1, <1>2, <1>3, <1>4, <1>6

\* Calls that end or go deeper stay with the question.
LEMMA ResolvingFinds ==
  ASSUME AnalyzerInv, Finding, Recall \/ Follow \/ Conclude \/ Settle
  PROVE  Finding'
<1>1. /\ code' = code /\ provider' = provider /\ UNCHANGED inquiry /\ chain # <<>>
  BY DEF Recall, Follow, Conclude, Settle, Enter, Resolving
<1>2. Question' = Question /\ UNCHANGED <<object, split, verdict, Candidate>>
  BY <1>1 DEF Question, Candidate, inquiry
<1>3. PICK S : chain \in Seq(S)
  BY DEF AnalyzerInv
<1>4. Len(chain) \in Nat \ {0}
  BY <1>1, <1>3, Shortened
<1>5. ASSUME verdict = "none"
      PROVE  /\ chain' # <<>> => chain'[1] = Question
             /\ chain' = <<>> /\ answer' # NoAnswer => Means(code, Question, answer')
             /\ split > 0 => split <= Len(object) /\ FactsOf(code, Question) # {}
  <2>1. /\ chain[1] = Question
        /\ split > 0 => split <= Len(object) /\ FactsOf(code, Question) # {}
    BY <1>1, <1>5 DEF Finding
  <2>2. CASE Follow
    <3>1. PICK m : chain' = Append(chain, m)
      BY <2>2 DEF Follow
    <3>2. chain'[1] = chain[1] /\ Len(chain') = Len(chain) + 1
      <4>1. chain \in Seq(S \cup {m}) /\ m \in S \cup {m}
        BY <1>3
      <4> QED
        BY <1>4, <3>1, <4>1, AppendProperties
    <3>3. chain' # <<>>
      <4>1. Len(<<>>) = 0
        OBVIOUS
      <4>2. Len(chain') # 0
        BY <1>4, <3>2
      <4> QED
        BY <4>1, <4>2
    <3> QED
      BY <2>1, <3>2, <3>3
  <2>3. CASE Recall \/ Conclude \/ Settle
    <3>1. chain' = Callers /\ Means(code, Top, answer')
      BY <2>3, Answers
    <3>2. /\ Len(chain') = Len(chain) - 1
          /\ \A k \in 1 .. Len(chain) - 1 : chain'[k] = chain[k]
      BY <1>1, <1>3, <3>1, Shortened DEF Callers
    <3>3. CASE Len(chain) = 1
      <4>1. Top = Question
        BY <2>1, <3>3 DEF Top
      <4>2. chain' = <<>>
        <5>1. chain' \in Seq(S)
          BY <1>1, <1>3, <3>1, Shortened DEF Callers
        <5> QED
          BY <3>2, <3>3, <5>1, Members
      <4> QED
        BY <2>1, <3>1, <4>1, <4>2
    <3>4. CASE Len(chain) # 1
      <4>1. 1 \in 1 .. Len(chain) - 1
        BY <1>4, <3>4
      <4>2. chain' # <<>>
        <5>1. Len(<<>>) = 0
          OBVIOUS
        <5>2. Len(chain') # 0
          BY <1>4, <3>2, <3>4
        <5> QED
          BY <5>1, <5>2
      <4> QED
        BY <2>1, <3>2, <4>1, <4>2
    <3> QED
      BY <3>3, <3>4
  <2> QED
    BY <2>2, <2>3
<1> QED
  BY <1>1, <1>2, <1>5, SameCode DEF Finding

\* The next try, when the tries before it came to nothing.
LEMMA NextFinds ==
  ASSUME NEW n \in Names, NEW t \in Nat, NEW G, Fruitless(n, t, G),
         t \in Tries(n) => ~IsProvenGeneric(SplitAt(n, t).generic, G)
  PROVE  Fruitless(n, NextTry(n, t), G)
<1> SUFFICES ASSUME NEW u \in Tries(n), u < NextTry(n, t)
             PROVE  ~IsProvenGeneric(SplitAt(n, u).generic, G)
  BY DEF Fruitless
<1>1. u <= t
  BY NextIs
<1>2. u \in Nat
  BY LenProperties, TriesAre DEF Names
<1>3. CASE u < t
  BY <1>3 DEF Fruitless
<1>4. CASE u = t
  BY <1>4
<1> QED
  BY <1>1, <1>2, <1>3, <1>4

\* The object is weighed: only a function is split.
LEMMA WeighingFinds ==
  ASSUME AnalyzerInv, Finding, WeighObject
  PROVE  Finding'
<1>1. /\ verdict = "none" /\ split = 0 /\ chain = <<>> /\ answer # NoAnswer /\ Question = object
      /\ UNCHANGED <<code, provider, memo, chain, object>> /\ answer' = NoAnswer
      /\ split' = IF answer \in {"function", "generic"} THEN NextTry(object, 0) ELSE 0
      /\ answer = "nonfunction" => verdict' = "export"
      /\ answer = "unknown" => verdict' = "unresolved"
      /\ answer \notin {"nonfunction", "unknown"} => verdict' = "none"
  BY DEF WeighObject, Analyzing, Answered, Question
<1>2. Means(code, object, answer) /\ object \in Names /\ Len(object) > 1
  BY <1>1 DEF Finding
<1>3. CASE answer \in {"function", "generic"}
  <2>1. IsProvenFunction(object) /\ verdict' = "none" /\ split' = NextTry(object, 0)
    BY <1>1, <1>2, <1>3 DEF IsProvenFunction
  <2>2. /\ split' \in Nat \ {0} /\ split' \in Tries(object) \cup {Len(object) + 1}
        /\ \A u \in Tries(object) : u < split' => u <= 0
    BY <1>2, <2>1, NextIs
  <2>3. Tries(object) \subseteq 1 .. Len(object)
    BY <1>2, TriesAre
  <2>4. Fruitless(object, split', provider)
    BY <2>2, <2>3 DEF Fruitless
  <2>5. Fruitless(object, split, provider)'
    BY <1>1, <2>4, SameCode DEF Fruitless
  <2>6. IsProvenFunction(object)'
    BY <1>1, <2>1, SameCode DEF IsProvenFunction, Means
  <2> QED
    BY <1>1, <1>2, <2>1, <2>2, <2>5, <2>6 DEF Finding
<1>4. CASE answer = "nonfunction"
  <2>1. Means(code, object, "nonfunction")'
    BY <1>1, <1>2, <1>4 DEF Means
  <2> QED
    BY <1>1, <1>2, <1>4, <2>1 DEF Finding
<1>5. CASE answer = "unknown"
  <2>1. Means(code, object, "unknown")'
    BY <1>1, <1>2, <1>5 DEF Means
  <2> QED
    BY <1>1, <1>2, <1>5, <2>1 DEF Finding
<1>6. CASE answer \notin {"function", "generic", "nonfunction", "unknown"}
  BY <1>1, <1>2, <1>6 DEF Finding
<1> QED
  BY <1>3, <1>4, <1>5, <1>6
\* A try has a verdict, or the next one follows.
LEMMA TryFinds ==
  ASSUME Finding, InLoop, split <= Len(object), UNCHANGED <<code, provider, chain, object>>, chain = <<>>,
         answer' = NoAnswer,
         IF IsProvenGeneric(Candidate.generic, provider)
         THEN verdict' = "method" /\ UNCHANGED split
         ELSE split' = NextTry(object, split) /\ UNCHANGED verdict
  PROVE  Finding'
<1>1. /\ verdict = "none" /\ split > 0 /\ object \in Names /\ split \in Nat /\ Len(object) > 1
      /\ IsProvenFunction(object) /\ Fruitless(object, split, provider)
      /\ split \in Tries(object) \cup {Len(object) + 1}
  BY DEF Finding, InLoop, Analyzing
<1>2. Len(object) \in Nat
  BY <1>1, LenProperties DEF Names
<1>3. split \in Tries(object)
  BY <1>1, <1>2
<1>4. IsProvenFunction(object)'
  BY <1>1, SameCode DEF IsProvenFunction, Means
<1>5. CASE IsProvenGeneric(Candidate.generic, provider)
  <2>1. verdict' = "method" /\ split' = split /\ Candidate' = Candidate
    BY <1>5 DEF Candidate
  <2>2. IsProvenGeneric(Candidate.generic, provider)'
    <3>1. PICK n : n = Candidate.generic
      OBVIOUS
    <3>2. IsProvenGeneric(n, provider)'
      BY <1>5, <3>1, SameCode
    <3> QED
      BY <2>1, <3>1, <3>2 DEF IsProvenGeneric, Means
  <2>3. Fruitless(object, split, provider)'
    BY <1>1, <2>1, SameCode DEF Fruitless
  <2> QED
    BY <1>1, <1>3, <1>4, <2>1, <2>2, <2>3 DEF Finding
<1>6. CASE ~IsProvenGeneric(Candidate.generic, provider)
  <2>1. verdict' = "none" /\ split' = NextTry(object, split)
    BY <1>1, <1>6
  <2>2. split' \in Nat \ {0} /\ split' \in Tries(object) \cup {Len(object) + 1}
    BY <1>1, <2>1, NextIs
  <2>3. Fruitless(object, split', provider)
    BY <1>1, <1>6, <2>1, NextFinds DEF Candidate
  <2>4. Fruitless(object, split, provider)'
    BY <2>3, SameCode DEF Fruitless
  <2> QED
    BY <1>1, <1>4, <2>1, <2>2, <2>4 DEF Finding
<1> QED
  BY <1>5, <1>6

\* The analyzer finds what is certain.
LEMMA AnalyzerFinds ==
  ASSUME AnalyzerInv, Finding, AnalyzerStep
  PROVE  Finding'
<1>1. CASE Recall \/ Follow \/ Conclude \/ Settle
  BY <1>1, ResolvingFinds
<1>2. CASE WeighObject
  BY <1>2, WeighingFinds
<1>3. CASE AskLocal
  <2>1. /\ InLoop /\ split <= Len(object) /\ FactsOf(code, Candidate.generic) # {}
        /\ chain' = <<Candidate.generic>> /\ answer' = NoAnswer
        /\ UNCHANGED <<code, provider, object, split, verdict>>
    BY <1>3 DEF AskLocal, Resolve, inquiry
  <2>2. Question = Candidate.generic /\ Question' = Question /\ Candidate' = Candidate
    BY <2>1 DEF Question, InLoop, Candidate
  <2>3. chain'[1] = Question /\ chain' # <<>>
    BY <2>1, <2>2
  <2> QED
    BY <2>1, <2>2, <2>3, SameCode DEF Finding, InLoop, Analyzing
<1>4. CASE AskInstalled
  <2>1. /\ InLoop /\ split <= Len(object) /\ chain = <<>> /\ answer = NoAnswer
        /\ FactsOf(code, Candidate.generic) = {}
        /\ IF Candidate.generic \in provider
           THEN verdict' = "method" /\ UNCHANGED split
           ELSE split' = NextTry(object, split) /\ UNCHANGED verdict
        /\ UNCHANGED <<code, provider, memo, chain, answer, object>>
    BY <1>4 DEF AskInstalled
  <2>2. IsProvenGeneric(Candidate.generic, provider) <=> Candidate.generic \in provider
    BY <2>1 DEF IsProvenGeneric
  <2> QED
    BY <2>1, <2>2, TryFinds DEF NoAnswer
<1>5. CASE WeighGeneric
  <2>1. /\ InLoop /\ chain = <<>> /\ answer # NoAnswer
        /\ IF answer = "generic"
           THEN verdict' = "method" /\ UNCHANGED split
           ELSE split' = NextTry(object, split) /\ UNCHANGED verdict
        /\ answer' = NoAnswer /\ UNCHANGED <<code, provider, memo, chain, object>>
    BY <1>5 DEF WeighGeneric, Answered
  <2>2. Question = Candidate.generic /\ verdict = "none" /\ split > 0
    BY <2>1 DEF Question, InLoop, Analyzing, Finding
  <2>3. split <= Len(object) /\ FactsOf(code, Candidate.generic) # {} /\ Means(code, Candidate.generic, answer)
    BY <2>1, <2>2 DEF Finding
  <2>4. IsProvenGeneric(Candidate.generic, provider) <=> answer = "generic"
    BY <2>3, MeansOne DEF IsProvenGeneric
  <2> QED
    BY <2>1, <2>3, <2>4, TryFinds
<1>6. CASE GiveUp
  <2>1. /\ InLoop /\ split > Len(object) /\ verdict' = "unresolved"
        /\ UNCHANGED <<code, provider, memo, chain, answer, object, split>>
    BY <1>6 DEF GiveUp
  <2>2. /\ verdict = "none" /\ object \in Names /\ split \in Nat /\ Len(object) > 1 /\ split > 0
        /\ IsProvenFunction(object) /\ Fruitless(object, split, provider)
        /\ split \in Tries(object) \cup {Len(object) + 1}
    BY <2>1 DEF Finding, InLoop, Analyzing
  <2>3. split = Len(object) + 1
    BY <2>1, <2>2, TriesAre
  <2>4. (IsProvenFunction(object) /\ Fruitless(object, split, provider))'
    BY <2>1, <2>2, SameCode DEF IsProvenFunction, Fruitless
  <2> QED
    BY <2>1, <2>2, <2>3, <2>4 DEF Finding
<1> QED
  BY <1>1, <1>2, <1>3, <1>4, <1>5, <1>6 DEF AnalyzerStep

\* An analysis that starts has found nothing yet, and a name of one part is
\* exported.
LEMMA AnalysisStarts ==
  ASSUME NEW n \in Names \ {NoName}, Analyze(n), chain = <<>>, answer = NoAnswer
  PROVE  Finding'
<1>1. /\ object' = n /\ split' = 0 /\ code' = code /\ provider' = provider
      /\ IF Len(n) > 1 THEN chain' = <<n>> /\ answer' = NoAnswer /\ verdict' = "none"
                       ELSE verdict' = "export"
  BY DEF Analyze, Resolve
<1>2. Len(n) \in Nat \ {0}
  BY EmptySeq DEF Names, NoName
<1>3. Question' = n
  BY <1>1 DEF Question
<1>4. CASE Len(n) > 1
  <2>1. chain' # <<>> /\ chain'[1] = n
    BY <1>1, <1>4
  <2> QED
    BY <1>1, <1>3, <1>4, <2>1 DEF Finding
<1>5. CASE ~(Len(n) > 1)
  <2>1. \A l \in Nat \ {0} : ~(l > 1) => l = 1
    OBVIOUS
  <2>2. Len(n) = 1
    BY <1>2, <1>5, <2>1, Zenon
  <2> QED
    BY <1>1, <1>5, <2>2 DEF Finding
<1> QED
  BY <1>4, <1>5

\* The object of a block is a name.
LEMMA ObjectIs ==
  ASSUME InputInv, code \in Code, NEW k \in DOMAIN requests, AsksExport(requests[k])
  PROVE  Object(BlockOf(requests[k])) \in Names \ {NoName}
<1> DEFINE b == BlockOf(requests[k])
<1>1. requests[k] \in Range(requests)
  BY DEF Range
<1>2. b \in Range(input.blocks)
  BY <1>1 DEF InputInv, BlockOf, Range
<1>3. b.fact \in {None} \cup DOMAIN code.facts
  BY <1>2 DEF InputInv, IsBlockOf
<1>4. Object(b) # NoName /\ ~IsReexport(b)
  BY DEF AsksExport
<1>5. Object(b) = code.facts[b.fact].name /\ b.fact \in DOMAIN code.facts
  BY <1>3, <1>4 DEF Object
<1>6. code.facts \in Seq(Fact)
  BY DEF Code
<1>7. code.facts[b.fact] \in Fact
  BY <1>5, <1>6, LenProperties, ElementOfSeq
<1> QED
  BY <1>4, <1>5, <1>7 DEF Fact

\* Only the analyzer of the first classification does not ask what is installed.
ProviderInv ==
  provider = IF stage \in {"extract", "track", "validate", "merge", "classify"} THEN {} ELSE code.installed

\* The provider changes when an analyzer is made.
LEMMA ProviderStays ==
  ASSUME InputInv, ProviderInv, [Next]_vars
  PROVE  ProviderInv'
<1>1. CASE ~EndStage
  <2>1. provider' = provider
    <3>1. CASE ExtractCall \/ TrackS7 \/ ValidateTarget \/ MergeBlock \/ SkipUsage \/ NameReexport \/ CollectTag
      BY <3>1 DEF ExtractCall, TrackS7, ValidateTarget, MergeBlock, SkipUsage, NameReexport, CollectTag, analyzer
    <3>2. CASE ClassifyUsage \/ AskExport \/ AskFunction
      BY <3>2 DEF ClassifyUsage, AskExport, AskFunction, Analyze
    <3>3. CASE TakeUsageVerdict \/ TakeExportVerdict \/ TakeFunctionAnswer
      BY <3>3 DEF TakeUsageVerdict, TakeExportVerdict, TakeFunctionAnswer, Dismiss
    <3>4. CASE Analyzer
      BY <3>4 DEF Analyzer, AnalyzerStep, Recall, Follow, Conclude, Settle, WeighObject, AskLocal,
                  AskInstalled, WeighGeneric, GiveUp
    <3>5. CASE Render \/ Built \/ UNCHANGED vars
      BY <3>5 DEF Render, Built, vars, analyzer
    <3> QED
      BY <1>1, <3>1, <3>2, <3>3, <3>4, <3>5 DEF Next
  <2>2. code' = code /\ (stage' = stage \/ Render)
    BY <1>1, CodeStays DEF Stays, Advance
  <2> QED
    BY <2>1, <2>2 DEF ProviderInv, Render
<1>2. CASE EndStage
  <2>1. /\ stage' = Following(stage) /\ stage \notin {"render", "done"} /\ code' = code
        /\ IF stage' \in {"reclassify", "reexport"} THEN Renew(code.installed) ELSE UNCHANGED analyzer
    BY <1>2, CodeStays DEF EndStage
  <2>2. CASE stage' \in {"reclassify", "reexport"}
    BY <2>1, <2>2 DEF Renew, ProviderInv
  <2>3. CASE stage' \notin {"reclassify", "reexport"}
    <3>1. provider' = provider
      BY <2>1, <2>3 DEF analyzer
    <3>2. stage \in {"extract", "track", "validate", "merge"} <=>
            stage' \in {"extract", "track", "validate", "merge", "classify"}
      BY <2>1, FollowingIs DEF InputInv, StageNames
    <3>3. stage # "classify"
      BY <2>1, <2>3, FollowingIs
    <3> QED
      BY <2>1, <3>1, <3>2, <3>3 DEF ProviderInv
  <2> QED
    BY <2>2, <2>3
<1> QED
  BY <1>1, <1>2

\* While the requests are collected, the analysis under way finds what is
\* certain of its object.
LEMMA VerdictStays ==
  ASSUME InputInv, AskInv, AnalyzerInv, VerdictInv, [Next]_vars
  PROVE  VerdictInv'
<1>1. CASE stage' # "collect" \/ object' = NoName
  BY <1>1 DEF VerdictInv, NoName
<1>2. CASE ExtractCall \/ TrackS7 \/ ValidateTarget \/ MergeBlock \/ SkipUsage \/ ClassifyUsage
           \/ NameReexport \/ CollectTag \/ TakeUsageVerdict \/ TakeExportVerdict
           \/ TakeFunctionAnswer \/ AskFunction \/ Render
  <2>1. stage' # "collect" \/ object' = NoName
    <3>1. CASE ExtractCall \/ TrackS7 \/ ValidateTarget \/ MergeBlock \/ SkipUsage \/ NameReexport
      BY <3>1 DEF ExtractCall, TrackS7, ValidateTarget, MergeBlock, SkipUsage, NameReexport, Advance, Busy, Classifying,
                  ClassifyStages
    <3>2. CASE ClassifyUsage
      BY <3>2 DEF ClassifyUsage, Classifying, ClassifyStages, Busy
    <3>3. CASE CollectTag
      BY <3>3 DEF CollectTag, Idle, analyzer
    <3>4. CASE TakeUsageVerdict \/ TakeExportVerdict \/ TakeFunctionAnswer
      BY <3>4 DEF TakeUsageVerdict, TakeExportVerdict, TakeFunctionAnswer, Dismiss
    <3>5. CASE AskFunction
      BY <3>5 DEF AskFunction, Idle, inquiry
    <3>6. CASE Render
      BY <3>6 DEF Render
    <3> QED
      BY <1>2, <3>1, <3>2, <3>3, <3>4, <3>5, <3>6
  <2> QED
    BY <1>1, <2>1
<1>3. CASE EndStage
  <2>1. stage' = "collect" => object' = NoName
    <3> SUFFICES ASSUME stage' = "collect" PROVE object' = NoName
      OBVIOUS
    <3>1. stage = "reexport" /\ UNCHANGED analyzer
      BY <1>3, FollowingIs DEF EndStage, InputInv, StageNames
    <3> QED
      BY <3>1 DEF AskInv, analyzer
  <2> QED
    BY <1>1, <2>1
<1>4. CASE AskExport
  <2>1. /\ Busy("collect") /\ AsksExport(requests[at]) /\ Analyze(Object(BlockOf(requests[at])))
        /\ chain = <<>> /\ answer = NoAnswer
    BY <1>4 DEF AskExport, Idle
  <2>2. at \in DOMAIN requests
    BY <2>1, ItemsAre, LenProperties DEF Busy, InputInv
  <2>3. PICK n : n = Object(BlockOf(requests[at]))
    OBVIOUS
  <2>4. n \in Names \ {NoName} /\ Analyze(n)
    BY <2>1, <2>2, <2>3, ObjectIs DEF AnalyzerInv, Analyze, Resolve
  <2> QED
    BY <2>1, <2>4, AnalysisStarts DEF VerdictInv
<1>5. CASE Analyzer
  <2>1. stage' = stage /\ object' = object /\ AnalyzerStep
    BY <1>5, ObjectStays DEF Analyzer
  <2> QED
    BY <2>1, AnalyzerFinds DEF VerdictInv
<1>6. CASE Built \/ UNCHANGED vars
  <2>1. UNCHANGED <<stage, analyzer>>
    BY <1>6 DEF Built, vars
  <2>2. UNCHANGED <<code, provider, chain, answer, object, split, verdict, Candidate, Question>>
    BY <2>1 DEF analyzer, Candidate, Question
  <2>3. Finding => Finding'
    BY <2>2, SameCode DEF Finding
  <2> QED
    BY <2>1, <2>2, <2>3 DEF VerdictInv
<1> QED
  BY <1>2, <1>3, <1>4, <1>5, <1>6 DEF Next
-----------------------------------------------------------------------------
(* What a bare @export becomes *)

Proven(n) ==
  {Says(m) : m \in MethodsOf(n, code.installed)} \cup
    (IF Len(n) = 1 \/ Means(code, n, "nonfunction")
     THEN {Directive("export", NoWord, <<Named(n)>>)} ELSE {})

\* The exports that are collected are what their objects are proven to be.
ProvenInv ==
  \A k \in BareExports : IsCollected(k) => SaidOf(k) = Proven(Object(BlockOf(requests[k])))

\* A verdict is the method that the object is.
LEMMA VerdictIsMethod ==
  ASSUME Finding, verdict \in {"export", "method", "unresolved"}
  PROVE  /\ verdict = "method" => MethodsOf(object, provider) = {Candidate} /\ Candidate # NoMethod
         /\ verdict # "method" => MethodsOf(object, provider) = {}
<1>1. object \in Names /\ Len(object) \in Nat /\ split \in Nat
  BY LenProperties DEF Finding, Names
<1>2. Means(code, object, "nonfunction") \/ Means(code, object, "unknown") => ~IsProvenFunction(object)
  BY MeansOne DEF IsProvenFunction
<1>3. CASE verdict = "export"
  <2>1. CASE Len(object) = 1
    BY <1>1, <1>3, <2>1, ShortIsNone
  <2>2. CASE Means(code, object, "nonfunction")
    BY <1>1, <1>2, <1>3, <2>2, NoMethodFound
  <2> QED
    BY <1>3, <2>1, <2>2 DEF Finding
<1>4. CASE verdict = "method"
  <2>1. split \in Tries(object) /\ IsProvenGeneric(Candidate.generic, provider) /\ split > 0
    BY <1>1, <1>4, TriesAre DEF Finding
  <2>2. IsProvenFunction(object) /\ Fruitless(object, split, provider)
    BY <2>1 DEF Finding
  <2>3. MethodsOf(object, provider) = {Candidate}
    BY <1>1, <2>1, <2>2, MethodFound DEF Candidate
  <2>4. IsSplit(object, Candidate)
    BY <2>3 DEF MethodsOf, IsMethod
  <2>5. Candidate.generic # NoName /\ NoMethod.generic = NoName
    BY <2>4 DEF IsSplit, NoMethod
  <2> QED
    BY <1>4, <2>3, <2>5
<1>5. CASE verdict = "unresolved"
  <2>1. CASE Means(code, object, "unknown")
    BY <1>1, <1>2, <1>5, <2>1, NoMethodFound
  <2>2. CASE split = Len(object) + 1
    <3>1. split > 0
      BY <1>1, <2>2
    <3>2. Fruitless(object, Len(object) + 1, provider)
      BY <2>2, <3>1 DEF Finding
    <3> QED
      BY <1>1, <1>5, <3>2, NoMethodFound
  <2> QED
    BY <1>5, <2>1, <2>2 DEF Finding
<1> QED
  BY <1>3, <1>4, <1>5

\* A verdict says what the object is proven to be.
LEMMA VerdictProves ==
  ASSUME Finding, provider = code.installed
  PROVE  /\ verdict = "export" => Proven(object) = {Directive("export", NoWord, <<Named(object)>>)}
         /\ verdict = "method" => Proven(object) = S3Method(Named(Candidate.generic), Named(Candidate.class))
         /\ verdict = "unresolved" => Proven(object) = {}
<1>0. \A l \in Nat : l > 1 => l # 1
  OBVIOUS
<1>1. object \in Names /\ Len(object) \in Nat /\ split \in Nat
  BY LenProperties DEF Finding, Names
<1>2. Means(code, object, "nonfunction") => ~IsProvenFunction(object) /\ ~Means(code, object, "unknown")
  BY MeansOne DEF IsProvenFunction
<1>3. CASE verdict = "export"
  <2>1. MethodsOf(object, provider) = {} /\ (Len(object) = 1 \/ Means(code, object, "nonfunction"))
    BY <1>3, VerdictIsMethod DEF Finding
  <2> QED
    BY <1>3, <2>1 DEF Proven
<1>4. ASSUME verdict # "export" PROVE Len(object) # 1
  <2>1. Len(object) > 1
    BY <1>4 DEF Finding
  <2> QED
    BY <1>0, <1>1, <2>1, Zenon
<1>5. CASE verdict = "method"
  <2>1. split \in Tries(object) /\ split > 0 /\ MethodsOf(object, provider) = {Candidate}
    BY <1>1, <1>5, VerdictIsMethod, TriesAre DEF Finding
  <2>2. ~(Len(object) = 1 \/ Means(code, object, "nonfunction"))
    BY <1>2, <1>4, <1>5, <2>1 DEF Finding
  <2>3. {Says(m) : m \in {Candidate}} = S3Method(Named(Candidate.generic), Named(Candidate.class))
    BY DEF Says, S3Method
  <2> QED
    BY <1>5, <2>1, <2>2, <2>3 DEF Proven
<1>6. CASE verdict = "unresolved"
  <2>1. MethodsOf(object, provider) = {}
    BY <1>6, VerdictIsMethod
  <2>2. ~Means(code, object, "nonfunction")
    <3>1. CASE Means(code, object, "unknown")
      BY <1>2, <3>1
    <3>2. CASE split = Len(object) + 1
      BY <1>1, <1>2, <1>6, <3>2 DEF Finding
    <3> QED
      BY <1>6, <3>1, <3>2 DEF Finding
  <2> QED
    BY <1>4, <1>6, <2>1, <2>2 DEF Proven
<1> QED
  BY <1>3, <1>5, <1>6

\* What is said of the requests changes only for the one that is dealt with.
LEMMA SaidChanges ==
  ASSUME InputInv, CollectInv, AskInv, [Next]_vars, stage = "collect"
  PROVE  /\ ~Advance => \A k \in DOMAIN requests : SaidOf(k)' = SaidOf(k)
         /\ Advance => \A k \in DOMAIN requests : k # at => SaidOf(k)' = SaidOf(k)
         /\ Advance => CollectTag \/ TakeFunctionAnswer \/ TakeExportVerdict
<1>1. at \in Nat \ {0}
  BY DEF InputInv
<1>2. Stays \/ EndStage => ~Advance
  BY <1>1 DEF Stays, EndStage, Advance
<1>3. CASE CollectTag \/ TakeFunctionAnswer \/ TakeExportVerdict
  <2>1. PICK c : c = at
    OBVIOUS
  <2>2. Advance /\ \E says : directives' = directives \cup {[from |-> c, says |-> s] : s \in says}
    <3>1. CASE CollectTag \/ TakeFunctionAnswer
      BY <2>1, <3>1 DEF CollectTag, TakeFunctionAnswer, Add
    <3>2. CASE TakeExportVerdict
      <4>1. PICK says : says = CASE verdict = "export" -> {Directive("export", NoWord, <<Named(object)>>)}
               [] verdict = "method" -> S3Method(Named(Candidate.generic), Named(Candidate.class))
               [] verdict = "unresolved" -> {}
        OBVIOUS
      <4>2. Advance /\ directives' = directives \cup {[from |-> c, says |-> s] : s \in says}
        BY <2>1, <3>2, <4>1 DEF TakeExportVerdict, Add
      <4> QED
        BY <4>2
    <3> QED
      BY <1>3, <3>1, <3>2
  <2>3. PICK says : directives' = directives \cup {[from |-> c, says |-> s] : s \in says}
    BY <2>2
  <2>4. ASSUME NEW k, k # c PROVE SaidOf(k)' = SaidOf(k)
    <3>1. {d \in directives' : d.from = k} = {d \in directives : d.from = k}
      BY <2>3, <2>4
    <3> QED
      BY <3>1 DEF SaidOf
  <2> QED
    BY <1>3, <2>1, <2>2, <2>4
<1>4. CASE ~(CollectTag \/ TakeFunctionAnswer \/ TakeExportVerdict)
  <2>1. ~NameReexport /\ ~Render
    BY DEF NameReexport, Render, Busy
  <2>2. directives' = directives /\ (Stays \/ EndStage)
    BY <1>4, <2>1, ModelStays
  <2> QED
    BY <1>2, <2>2 DEF SaidOf
<1> QED
  BY <1>3, <1>4

\* A step that adds nothing to what is collected keeps what is said proven.
LEMMA ProvenFrame ==
  ASSUME ProvenInv, UNCHANGED <<code, input, requests>>, NEW k \in BareExports,
         IsCollected(k), SaidOf(k)' = SaidOf(k)
  PROVE  SaidOf(k)' = Proven(Object(BlockOf(requests[k])))'
<1>1. PICK n : n = Object(BlockOf(requests[k]))
  OBVIOUS
<1>2. Object(BlockOf(requests[k]))' = n
  BY <1>1, SameAsk
<1>3. Proven(n)' = Proven(n)
  BY SameCode DEF Proven
<1>4. Proven(Object(BlockOf(requests[k])))' = Proven(n)'
  BY <1>2 DEF Proven, MethodsOf, SplitsOf
<1>5. SaidOf(k) = Proven(n)
  BY <1>1 DEF ProvenInv
<1> QED
  BY <1>3, <1>4, <1>5

\* The request of a bare export that is dealt with says what is proven of its
\* object.
LEMMA VerdictSays ==
  ASSUME InputInv, CollectInv, AskInv, AnalyzerInv, ProviderInv, VerdictInv, [Next]_vars,
         TakeExportVerdict
  PROVE  \A k \in BareExports : k = at => SaidOf(k)' = Proven(Object(BlockOf(requests[k])))'
<1> SUFFICES ASSUME NEW k \in BareExports, k = at
             PROVE  SaidOf(k)' = Proven(Object(BlockOf(requests[k])))'
  OBVIOUS
<1>1. PICK says : says = CASE verdict = "export" -> {Directive("export", NoWord, <<Named(object)>>)}
           [] verdict = "method" -> S3Method(Named(Candidate.generic), Named(Candidate.class))
           [] verdict = "unresolved" -> {}
  OBVIOUS
<1>2. /\ stage = "collect" /\ object # NoName /\ verdict # "none" /\ UNCHANGED <<code, input, requests>>
      /\ directives' = directives \cup {[from |-> k, says |-> s] : s \in says}
  BY <1>1, CodeStays DEF TakeExportVerdict, Busy, Add, model
<1>3. verdict \in {"export", "method", "unresolved"}
  BY <1>2 DEF AskInv
<1>4. PICK n : n = Object(BlockOf(requests[k]))
  OBVIOUS
<1>5. object = n
  BY <1>2, <1>4 DEF AskInv
<1>6. Finding
  BY <1>2 DEF VerdictInv
<1>7. says = Proven(n)
  BY <1>1, <1>2, <1>3, <1>5, <1>6, VerdictProves DEF ProviderInv
<1>8. at \in Nat \ {0} /\ ~IsCollected(k) /\ k # NoRequest
  BY <1>2 DEF InputInv, IsCollected, NoRequest
<1>9. \A d \in directives : d.from # k
  BY <1>8 DEF CollectInv, ComesFromSome
<1>10. SaidOf(k)' = says
  <2>1. {d \in directives' : d.from = k} = {[from |-> k, says |-> s] : s \in says}
    BY <1>2, <1>9
  <2>2. \A s : [from |-> k, says |-> s].says = s
    OBVIOUS
  <2>3. SaidOf(k)' = {d.says : d \in {[from |-> k, says |-> s] : s \in says}}
    BY <2>1 DEF SaidOf
  <2>4. ASSUME NEW s \in says PROVE s \in SaidOf(k)'
    <3>1. [from |-> k, says |-> s] \in {[from |-> k, says |-> t] : t \in says}
      OBVIOUS
    <3> QED
      BY <2>2, <2>3, <3>1
  <2>5. ASSUME NEW s \in SaidOf(k)' PROVE s \in says
    BY <2>2, <2>3
  <2> QED
    BY <2>4, <2>5
<1>11. Object(BlockOf(requests[k]))' = n
  BY <1>2, <1>4, SameAsk
<1>12. Proven(n)' = Proven(n)
  BY <1>2, SameCode DEF Proven
<1>13. Proven(Object(BlockOf(requests[k])))' = Proven(n)'
  BY <1>11 DEF Proven, MethodsOf, SplitsOf
<1> QED
  BY <1>7, <1>10, <1>12, <1>13

\* A request that is dealt with says what its object is proven to be.
LEMMA ProvenKeeps ==
  ASSUME InputInv, CollectInv, AskInv, AnalyzerInv, ProviderInv, VerdictInv, ProvenInv, [Next]_vars
  PROVE  ProvenInv'
<1>1. UNCHANGED <<code, input>> /\ InputInv'
  BY CodeStays, InputKeeps
<1>2. CASE stage \in {"extract", "track", "validate", "merge", "classify", "reclassify", "reexport"}
  <2>1. \/ stage' \in {"extract", "track", "validate", "merge", "classify", "reclassify", "reexport"}
        \/ stage' = "collect" /\ at' = 1
    <3>1. CASE Stays \/ Advance
      BY <1>2, <3>1 DEF Stays, Advance
    <3>2. CASE EndStage
      BY <1>2, <3>2, FollowingIs DEF EndStage
    <3>3. ~Render
      BY <1>2 DEF Render
    <3> QED
      BY <3>1, <3>2, <3>3, CodeStays
  <2>2. \A k \in DOMAIN requests' : ~IsCollected(k)'
    <3>1. DOMAIN requests' \subseteq Nat \ {0}
      BY <1>1, LenProperties DEF InputInv
    <3> QED
      BY <2>1, <3>1 DEF IsCollected
  <2> QED
    BY <2>2 DEF ProvenInv, BareExports
<1>3. CASE stage \notin {"extract", "track", "validate", "merge", "classify", "reclassify", "reexport"}
  <2>1. stage \in {"collect", "render", "done"} /\ requests' = requests
    <3>1. ~MergeBlock
      BY <1>3 DEF MergeBlock, Busy
    <3> QED
      BY <1>3, <3>1, ModelStays DEF InputInv, StageNames
  <2>2. BareExports' = BareExports
    BY <1>1, <2>1, SameAsk DEF BareExports
  <2> SUFFICES ASSUME NEW k \in BareExports, IsCollected(k)'
               PROVE  SaidOf(k)' = Proven(Object(BlockOf(requests[k])))'
    BY <2>2 DEF ProvenInv
  <2>3. k \in DOMAIN requests /\ AsksExport(requests[k])
    BY DEF BareExports
  <2>4. CASE IsCollected(k) /\ SaidOf(k)' = SaidOf(k)
    BY <1>1, <2>1, <2>4, ProvenFrame
  <2>5. CASE stage = "collect"
    <3>1. CASE ~Advance
      BY <2>3, <2>4, <2>5, <3>1, MarksStay, SaidChanges
    <3>2. CASE Advance /\ k # at
      <4>1. SaidOf(k)' = SaidOf(k)
        BY <2>3, <2>5, <3>2, SaidChanges
      <4>2. k \in Nat \ {0} /\ at \in Nat
        BY <2>3, LenProperties DEF InputInv
      <4>3. IsCollected(k)
        BY <2>5, <3>2, <4>2 DEF IsCollected, Advance
      <4> QED
        BY <2>4, <4>1, <4>3
    <3>3. CASE Advance /\ k = at
      <4>1. ~CollectTag /\ ~TakeFunctionAnswer
        BY <2>3, <3>3 DEF CollectTag, TakeFunctionAnswer, AsksExport, AsksFunction
      <4>2. TakeExportVerdict
        BY <2>5, <3>3, <4>1, SaidChanges
      <4> QED
        BY <3>3, <4>2, VerdictSays
    <3> QED
      BY <3>1, <3>2, <3>3
  <2>6. CASE stage \in {"render", "done"}
    <3>1. IsCollected(k)
      BY <2>6 DEF IsCollected
    <3>2. directives' = directives
      <4>1. ~(NameReexport \/ CollectTag \/ TakeExportVerdict \/ TakeFunctionAnswer)
        BY <2>6 DEF NameReexport, CollectTag, TakeExportVerdict, TakeFunctionAnswer, Busy
      <4> QED
        BY <4>1, ModelStays
    <3>3. SaidOf(k)' = SaidOf(k)
      BY <3>2 DEF SaidOf
    <3> QED
      BY <2>4, <3>1, <3>3
  <2> QED
    BY <2>1, <2>5, <2>6
<1> QED
  BY <1>2, <1>3

\* At the end every bare export is collected.
LEMMA ProvenMeans ==
  ASSUME ProvenInv
  PROVE  ExportsAreProven
<1> SUFFICES ASSUME stage = "done", NEW k \in BareExports
             PROVE  SaidOf(k) = Proven(Object(BlockOf(requests[k])))
  BY DEF ExportsAreProven, Proven
<1> QED
  BY DEF ProvenInv, IsCollected

\* Everything that makes exports proven.
ExportInv == ReachInv /\ AnalyzerInv /\ ProviderInv /\ VerdictInv /\ ProvenInv

LEMMA ExportStarts ==
  ASSUME Init
  PROVE  ExportInv
<1>1. ReachInv /\ AnalyzerInv
  <2>1. code \in Code /\ NewAnalyzer
    BY FamiliesAssumption DEF Init
  <2> QED
    BY <2>1, ReachStarts, Starts
<1>2. stage = "extract" /\ requests = <<>> /\ provider = {}
  BY DEF Init, NewAnalyzer
<1>3. VerdictInv /\ ProviderInv
  BY <1>2 DEF VerdictInv, ProviderInv
<1>4. DOMAIN requests = {}
  BY <1>2
<1>5. ProvenInv
  BY <1>4 DEF ProvenInv, BareExports
<1> QED
  BY <1>1, <1>3, <1>5 DEF ExportInv

LEMMA ExportKeeps ==
  ASSUME ExportInv, [Next]_vars
  PROVE  ExportInv'
<1>1. ReachInv /\ AnalyzerInv /\ ProviderInv /\ VerdictInv /\ ProvenInv
  BY DEF ExportInv
<1>2. InputInv /\ AskInv /\ CollectInv /\ MergeInv
  BY <1>1 DEF ReachInv
<1>3. InputInv' /\ MergeInv' /\ AskInv' /\ CollectInv'
  BY <1>2, InputKeeps, MergeKeeps, AskKeeps, CollectKeeps
<1>4. ImportsAreUnited'
  BY <1>1, UnitedKeeps
<1>5. AnalyzerInv'
  BY <1>1, StepKeeps
<1>6. VerdictInv' /\ ProviderInv'
  BY <1>1, <1>2, VerdictStays, ProviderStays
<1>7. ProvenInv'
  BY <1>1, <1>2, ProvenKeeps
<1> QED
  BY <1>3, <1>4, <1>5, <1>6, <1>7 DEF ReachInv, ExportInv

\* Whatever a package binds and in whatever order the analyzer is asked, a
\* bare @export becomes an S3 method exactly when its object is certain to be
\* a function whose name splits at a proven generic, at the split that R's
\* all.equal and the shortest generic decide; a plain export exactly when it is
\* certain not to be one; and nothing when neither is (collect_request,
\* S3Analyzer::classify_export).
THEOREM ExportsProven == Spec => []ExportsAreProven
<1>1. Init => ExportInv
  BY ExportStarts
<1>2. ExportInv /\ [Next]_vars => ExportInv'
  BY ExportKeeps
<1>3. ExportInv => ExportsAreProven
  BY ProvenMeans DEF ExportInv
<1> QED
  BY <1>1, <1>2, <1>3, PTL DEF Spec

-----------------------------------------------------------------------------
\* The names of a package are finitely many; a walk has fewer of them left
\* once it has been through one more.
NamesOf(c) == {c.facts[k].name : k \in DOMAIN c.facts}
LeftOf(c, seen) == Cardinality(NamesOf(c) \ seen)
LEMMA NamesAreLeft ==
  ASSUME NEW c \in Code, NEW seen \in NameSets(c)
  PROVE  /\ LeftOf(c, seen) \in Nat /\ LeftOf(c, seen) <= LeftOf(c, {}) /\ {} \in NameSets(c)
         /\ \A a \in DOMAIN c.facts :
              /\ seen \cup {c.facts[a].name} \in NameSets(c)
              /\ c.facts[a].name \notin seen =>
                   LeftOf(c, seen \cup {c.facts[a].name}) = LeftOf(c, seen) - 1
<1> DEFINE named == [k \in 1 .. Len(c.facts) |-> c.facts[k].name]
<1>1. c.facts \in Seq(Fact) /\ Len(c.facts) \in Nat /\ DOMAIN c.facts = 1 .. Len(c.facts)
  BY DEF Code
<1>2. IsFiniteSet(NamesOf(c))
  <2>0. Len(c.facts) \in Nat
    BY <1>1
  <2>1. IsFiniteSet(1 .. Len(c.facts))
    <3>1. \A m \in Nat : IsFiniteSet(1 .. m)
      BY FS_Interval
    <3> QED
      BY <2>0, <3>1
  <2>2. named \in Surjection(1 .. Len(c.facts), NamesOf(c))
    BY <1>1 DEF NamesOf, Surjection
  <2> QED
    BY <2>1, <2>2, FS_Surjection
<1>3. IsFiniteSet(NamesOf(c) \ seen) /\ IsFiniteSet(NamesOf(c) \ {}) /\ NamesOf(c) \ seen \subseteq NamesOf(c) \ {}
  BY <1>2, FS_Subset
<1>4. LeftOf(c, seen) \in Nat /\ LeftOf(c, seen) <= LeftOf(c, {})
  BY <1>3, FS_CardinalityType, FS_Subset DEF LeftOf
<1>5. ASSUME NEW a \in DOMAIN c.facts
      PROVE  /\ seen \cup {c.facts[a].name} \in NameSets(c)
             /\ c.facts[a].name \notin seen =>
                  LeftOf(c, seen \cup {c.facts[a].name}) = LeftOf(c, seen) - 1
  <2> DEFINE n == c.facts[a].name
  <2>1. seen \cup {n} \in NameSets(c)
    BY DEF NameSets
  <2> SUFFICES ASSUME n \notin seen PROVE LeftOf(c, seen \cup {n}) = LeftOf(c, seen) - 1
    BY <2>1
  <2>2. n \in NamesOf(c) \ seen
    BY DEF NamesOf
  <2>3. NamesOf(c) \ (seen \cup {n}) = (NamesOf(c) \ seen) \ {n}
    OBVIOUS
  <2>4. Cardinality((NamesOf(c) \ seen) \ {n}) = Cardinality(NamesOf(c) \ seen) - 1
    BY <1>3, <2>2, FS_RemoveElement
  <2> QED
    BY <2>3, <2>4 DEF LeftOf
<1> QED
  BY <1>4, <1>5 DEF NameSets

\* What the walks have in common: where they stop and with what, which
\* assignment they go on with, and what they say when they cannot.
Ways(c) == [DOMAIN c.facts -> (DOMAIN c.facts) \cup {None}]
Stepped(walk, c, halt, own, next, lost) ==
  [seen \in NameSets(c) |-> [a \in DOMAIN c.facts |->
     IF a \in halt THEN own[a]
     ELSE IF c.facts[a].name \notin seen /\ next[a] # None
     THEN walk[seen \cup {c.facts[a].name}][next[a]]
     ELSE lost[a]]]
IsWalk(walk, c, halt, own, next, lost) == walk = Stepped(walk, c, halt, own, next, lost)

\* There is such a walk.
LEMMA WalkExists ==
  ASSUME NEW c \in Code, NEW R, NEW halt, NEW own \in [DOMAIN c.facts -> R],
         NEW next \in Ways(c), NEW lost \in [DOMAIN c.facts -> R]
  PROVE  \E walk \in [NameSets(c) -> [DOMAIN c.facts -> R]] : IsWalk(walk, c, halt, own, next, lost)
<1> DEFINE D == DOMAIN c.facts
           Near(k) == {s \in NameSets(c) : LeftOf(c, s) < k}
           Turn(f, s) == [a \in D |->
             IF a \in halt THEN own[a]
             ELSE IF c.facts[a].name \notin s /\ next[a] # None
             THEN f[s \cup {c.facts[a].name}][next[a]]
             ELSE lost[a]]
           Is(f, k) == f \in [Near(k) -> [D -> R]] /\ \A s \in Near(k) : f[s] = Turn(f, s)
           Good(k) == \E f : Is(f, k)
           N == LeftOf(c, {}) + 1
           K == {k \in 0 .. N : Good(k)}
<1>0. /\ {} \in NameSets(c) /\ N \in Nat
      /\ \A s \in NameSets(c) : LeftOf(c, s) \in Nat /\ LeftOf(c, s) < N
      /\ \A s \in NameSets(c), a \in D :
           /\ s \cup {c.facts[a].name} \in NameSets(c)
           /\ c.facts[a].name \notin s =>
                LeftOf(c, s \cup {c.facts[a].name}) = LeftOf(c, s) - 1
  <2>1. {} \in NameSets(c)
    BY DEF NameSets
  <2>2. LeftOf(c, {}) \in Nat
    BY <2>1, NamesAreLeft
  <2> QED
    BY <2>1, <2>2, NamesAreLeft
<1> HIDE DEF N
<1>1. Good(0)
  <2>1. Near(0) = {}
    BY <1>0
  <2> DEFINE f == [s \in Near(0) |-> Turn(<<>>, s)]
  <2>2. Is(f, 0)
    BY <2>1
  <2> QED
    BY <2>2
<1>2. ASSUME NEW k \in 1 .. N, Good(k - 1) PROVE Good(k)
  <2>1. PICK h : Is(h, k - 1)
    BY <1>2
  <2> DEFINE f == [s \in Near(k) |-> Turn(h, s)]
  <2>2. ASSUME NEW s \in Near(k), NEW a \in D, c.facts[a].name \notin s
        PROVE  s \cup {c.facts[a].name} \in Near(k - 1) /\ s \cup {c.facts[a].name} \in Near(k)
    <3>1. /\ s \in NameSets(c) /\ LeftOf(c, s) < k /\ LeftOf(c, s) \in Nat /\ k \in Nat
          /\ s \cup {c.facts[a].name} \in NameSets(c)
          /\ LeftOf(c, s \cup {c.facts[a].name}) = LeftOf(c, s) - 1
      BY <1>0, <2>2
    <3> QED
      BY <3>1
  <2>3. \A s \in Near(k - 1) : s \in Near(k) /\ h[s] = Turn(h, s) /\ f[s] = h[s]
    <3>1. ASSUME NEW s \in Near(k - 1) PROVE s \in Near(k)
      BY <1>0
    <3> QED
      BY <2>1, <3>1
  <2>4. ASSUME NEW s \in Near(k) PROVE Turn(h, s) = Turn(f, s) /\ Turn(h, s) \in [D -> R]
    <3> DEFINE to(a) == s \cup {c.facts[a].name}
    <3>1. ASSUME NEW a \in D, c.facts[a].name \notin s
          PROVE  h[to(a)] = f[to(a)] /\ h[to(a)] \in [D -> R]
      BY <2>1, <2>2, <2>3, <3>1
    <3> HIDE DEF f
    <3>2. \A a \in D : next[a] # None => next[a] \in D
      BY DEF Ways
    <3>3. Turn(h, s) \in [D -> R]
      BY <3>1, <3>2
    <3> QED
      BY <3>1, <3>3
  <2>5. f \in [Near(k) -> [D -> R]] /\ \A s \in Near(k) : f[s] = Turn(f, s)
    <3>1. \A s \in Near(k) : f[s] = Turn(h, s)
      OBVIOUS
    <3>2. f \in [Near(k) -> [D -> R]]
      BY <2>4
    <3> HIDE DEF f, Near, Turn
    <3> QED
      BY <2>4, <3>1, <3>2
  <2>6. Is(f, k)
    BY <2>5, Zenon
  <2> HIDE DEF f, Is
  <2> QED
    BY <2>6, Zenon
<1>3. N \in K
  <2>1. 0 \in K /\ \A n \in 1 .. N : n - 1 \in K => n \in K
    <3> HIDE DEF Good
    <3> QED
      BY <1>0, <1>1, <1>2
  <2> HIDE DEF K
  <2>2. \A n \in 0 .. N : n \in K
    BY <1>0, <2>1, UpToBound, Zenon
  <2> QED
    BY <1>0, <2>2
<1>4. PICK walk : Is(walk, N)
  BY <1>3
<1>5. Near(N) = NameSets(c)
  BY <1>0
<1>6. walk \in [NameSets(c) -> [D -> R]] /\ \A s \in NameSets(c) : walk[s] = Turn(walk, s)
  BY <1>4, <1>5
<1>7. IsWalk(walk, c, halt, own, next, lost)
  <2>1. Stepped(walk, c, halt, own, next, lost) = [s \in NameSets(c) |-> Turn(walk, s)]
    BY DEF Stepped
  <2> HIDE DEF Turn
  <2>2. walk = [s \in NameSets(c) |-> Turn(walk, s)]
    BY <1>6
  <2> QED
    BY <2>1, <2>2 DEF IsWalk
<1> QED
  BY <1>6, <1>7

-----------------------------------------------------------------------------
(* Where the walks end *)

\* t is what i copies, and copies nothing.
IsEnd(c, i, t) == ComesFrom(c, Copies(c), i, t) /\ \A e \in Copies(c) : e[1] # t

\* A walk that goes on along the copies, and stops at none of them, comes to
\* an end: since the assignments it has been through run after the one that
\* it is at, it never meets a name again.
LEMMA WalkEnds ==
  ASSUME NEW c \in Code, NEW halt, NEW own, NEW next \in Ways(c), NEW lost, NEW walk,
         IsWalk(walk, c, halt, own, next, lost),
         \A a \in halt \cap DOMAIN c.facts : c.facts[a].value # "alias",
         \A a, t \in DOMAIN c.facts : StandsFor(c, a, t) => next[a] = t,
         NEW i \in DOMAIN c.facts
  PROVE  \E t \in DOMAIN c.facts :
           /\ IsEnd(c, i, t)
           /\ t \in halt => walk[{}][i] = own[t]
           /\ t \notin halt /\ next[t] = None => walk[{}][i] = lost[t]
<1> DEFINE D == DOMAIN c.facts
           name(a) == c.facts[a].name
           Clear(s, a) == /\ FactsOf(c, name(a)) = {a} \/ s = {}
                          /\ \A n \in s, b \in D : FactsOf(c, n) = {b} => Precedes(c, a, b)
           Closes(s, a) == \E t \in D :
                           /\ IsEnd(c, a, t)
                           /\ t \in halt => walk[s][a] = own[t]
                           /\ t \notin halt /\ next[t] = None => walk[s][a] = lost[t]
           Good(k) == \A s \in NameSets(c), a \in D : LeftOf(c, s) < k /\ Clear(s, a) => Closes(s, a)
           N == LeftOf(c, {}) + 1
           K == {k \in 0 .. N : Good(k)}
<1>0. {} \in NameSets(c) /\ N \in Nat /\ LeftOf(c, {}) < N
  <2>1. {} \in NameSets(c)
    BY DEF NameSets
  <2> QED
    BY <2>1, NamesAreLeft
<1> HIDE DEF N
<1>1. ASSUME NEW s \in NameSets(c), NEW a \in D
      PROVE  walk[s][a] = IF a \in halt THEN own[a]
                          ELSE IF name(a) \notin s /\ next[a] # None
                          THEN walk[s \cup {name(a)}][next[a]]
                          ELSE lost[a]
  <2>1. walk[s][a] = Stepped(walk, c, halt, own, next, lost)[s][a]
    BY DEF IsWalk
  <2> QED
    BY <2>1 DEF Stepped
<1>2. Good(0)
  BY NamesAreLeft
<1>3. ASSUME NEW k \in 1 .. N, Good(k - 1) PROVE Good(k)
  <2> SUFFICES ASSUME NEW s \in NameSets(c), NEW a \in D, LeftOf(c, s) < k, Clear(s, a)
               PROVE  Closes(s, a)
    OBVIOUS
  <2>1. CASE \E t \in D : StandsFor(c, a, t)
    <3>1. PICK t \in D : StandsFor(c, a, t)
      BY <2>1
    <3>2. /\ next[a] = t /\ t # None /\ a \notin halt /\ Precedes(c, t, a)
          /\ FactsOf(c, name(t)) = {t} /\ <<a, t>> \in Copies(c)
      <4>1. t # None
        BY DEF Code, None
      <4> QED
        BY <3>1, <4>1, CopiesAre DEF StandsFor, FactsOf
    <3>3. name(a) \notin s
      <4> SUFFICES ASSUME name(a) \in s PROVE FALSE
        OBVIOUS
      <4>1. FactsOf(c, name(a)) = {a}
        OBVIOUS
      <4> QED
        BY <4>1, PrecedenceIsStrict
    <3> DEFINE u == s \cup {name(a)}
    <3>4. u \in NameSets(c) /\ LeftOf(c, u) < k - 1
      <4>1. u \in NameSets(c) /\ LeftOf(c, u) = LeftOf(c, s) - 1 /\ LeftOf(c, s) \in Nat
        BY <3>3, NamesAreLeft
      <4> HIDE DEF u
      <4> QED
        BY <4>1
    <3>5. Clear(u, t)
      <4> SUFFICES ASSUME NEW n \in u, NEW b \in D, FactsOf(c, n) = {b}
                   PROVE  Precedes(c, t, b)
        BY <3>2
      <4>1. CASE n = name(a)
        <5>1. a \in FactsOf(c, n)
          BY <4>1 DEF FactsOf
        <5>2. b = a
          BY <5>1
        <5> QED
          BY <3>2, <5>2
      <4>2. CASE n \in s
        <5>1. Precedes(c, a, b)
          BY <4>2
        <5> QED
          BY <3>2, <5>1, PrecedenceIsStrict
      <4> QED
        BY <4>1, <4>2
    <3>6. Closes(u, t)
      BY <1>3, <3>4, <3>5
    <3>7. walk[s][a] = walk[u][t]
      BY <1>1, <3>2, <3>3
    <3>8. \A e : IsEnd(c, t, e) => IsEnd(c, a, e)
      BY <3>2 DEF IsEnd, ComesFrom
    <3> QED
      BY <3>6, <3>7, <3>8
  <2>2. CASE ~\E t \in D : StandsFor(c, a, t)
    <3>1. IsEnd(c, a, a)
      <4>1. \A e \in Copies(c) : e[1] # a
        <5> SUFFICES ASSUME NEW e \in Copies(c), e[1] = a PROVE FALSE
          OBVIOUS
        <5>1. PICK t \in D : e = <<a, t>>
          BY DEF Copies
        <5> QED
          BY <2>2, <5>1, CopiesAre
      <4> QED
        BY <4>1 DEF IsEnd, ComesFrom
    <3>2. /\ a \in halt => walk[s][a] = own[a]
          /\ a \notin halt /\ next[a] = None => walk[s][a] = lost[a]
      BY <1>1
    <3> QED
      BY <3>1, <3>2
  <2> QED
    BY <2>1, <2>2
<1>4. \A k \in 0 .. N : k \in K
  <2>1. 0 \in K /\ \A n \in 1 .. N : n - 1 \in K => n \in K
    <3> HIDE DEF Good
    <3> QED
      BY <1>0, <1>2, <1>3
  <2> HIDE DEF K
  <2> QED
    BY <1>0, <2>1, UpToBound, Zenon
<1>5. Good(N)
  <2> HIDE DEF Good
  <2> QED
    BY <1>0, <1>4
<1>6. Clear({}, i)
  OBVIOUS
<1> QED
  BY <1>0, <1>5, <1>6

\* No assignment has two ends.
LEMMA EndIsOne ==
  ASSUME NEW c, NEW i \in DOMAIN c.facts, NEW t \in DOMAIN c.facts, NEW u \in DOMAIN c.facts,
         IsEnd(c, i, t), IsEnd(c, i, u)
  PROVE  t = u
<1> DEFINE copies == Copies(c)
           Terminal(x) == \A e \in copies : e[1] # x
           S == {x \in DOMAIN c.facts : ComesFrom(c, copies, x, t)}
<1>1. ComesFrom(c, copies, i, t) /\ Terminal(t) /\ ComesFrom(c, copies, i, u) /\ Terminal(u)
  BY DEF IsEnd
<1>2. \A e, f \in copies : e[1] = f[1] => e[2] = f[2]
  BY DEF Copies
<1>3. \A e \in copies : e[1] \in DOMAIN c.facts /\ e[2] \in DOMAIN c.facts
  BY DEF Copies
<1> HIDE DEF copies
<1>4. ASSUME NEW e \in copies, e[1] \in S PROVE e[2] \in S
  <2>1. e[1] # t /\ ComesFrom(c, copies, e[1], t)
    BY <1>1, <1>4
  <2>2. ASSUME NEW T \in SUBSET (DOMAIN c.facts), e[2] \in T, \A f \in copies : f[1] \in T => f[2] \in T
        PROVE  t \in T
    <3>1. T \cup {e[1]} \in SUBSET (DOMAIN c.facts)
      BY <1>3
    <3>2. \A f \in copies : f[1] \in T \cup {e[1]} => f[2] \in T \cup {e[1]}
      BY <1>2, <2>2
    <3>3. t \in T \cup {e[1]}
      BY <2>1, <3>1, <3>2 DEF ComesFrom
    <3> QED
      BY <2>1, <3>3
  <2> QED
    BY <1>3, <2>2 DEF ComesFrom
<1>5. i \in S /\ S \in SUBSET (DOMAIN c.facts)
  BY <1>1
<1>6. u \in S
  BY <1>1, <1>4, <1>5 DEF ComesFrom
<1>7. t \in {u}
  <2>1. {u} \in SUBSET (DOMAIN c.facts) /\ \A e \in copies : e[1] \in {u} => e[2] \in {u}
    BY <1>1
  <2>2. ComesFrom(c, copies, u, t)
    BY <1>6
  <2> QED
    BY <2>1, <2>2 DEF ComesFrom
<1> QED
  BY <1>7

\* The four walks.
Stops(c, values) == {a \in DOMAIN c.facts : c.facts[a].value \in values}
Onward(c) ==
  [a \in DOMAIN c.facts |->
     IF \E t \in DOMAIN c.facts : StandsFor(c, a, t)
     THEN CHOOSE t \in DOMAIN c.facts : StandsFor(c, a, t) ELSE None]
Unordered(c) ==
  [a \in DOMAIN c.facts |->
     IF c.facts[a].value = "alias" /\ \E t \in DOMAIN c.facts : FactsOf(c, c.facts[a].target) = {t}
     THEN CHOOSE t \in DOMAIN c.facts : FactsOf(c, c.facts[a].target) = {t} ELSE None]
Always(c, v) == [a \in DOMAIN c.facts |-> v]

LEMMA OnwardIs ==
  ASSUME NEW c \in Code
  PROVE  /\ Onward(c) \in Ways(c)
         /\ \A a, t \in DOMAIN c.facts : StandsFor(c, a, t) => Onward(c)[a] = t /\ t # None
         /\ \A a \in DOMAIN c.facts : (\A e \in Copies(c) : e[1] # a) => Onward(c)[a] = None
<1>1. \A a, t, u \in DOMAIN c.facts : StandsFor(c, a, t) /\ StandsFor(c, a, u) => t = u
  BY DEF StandsFor
<1>2. None \notin DOMAIN c.facts
  BY DEF None, Code
<1>3. \A a \in DOMAIN c.facts : (\A e \in Copies(c) : e[1] # a) => ~\E t \in DOMAIN c.facts : StandsFor(c, a, t)
  BY CopiesAre
<1> QED
  BY <1>1, <1>2, <1>3 DEF Onward, Ways

LEMMA UnorderedIs ==
  ASSUME NEW c \in Code
  PROVE  /\ Unordered(c) \in Ways(c)
         /\ \A a, t \in DOMAIN c.facts :
              c.facts[a].value = "alias" /\ FactsOf(c, c.facts[a].target) = {t} => Unordered(c)[a] = t
         /\ \A a, t \in DOMAIN c.facts : StandsFor(c, a, t) => Unordered(c)[a] = t
<1>1. \A a, t, u \in DOMAIN c.facts :
        FactsOf(c, c.facts[a].target) = {t} /\ FactsOf(c, c.facts[a].target) = {u} => t = u
  OBVIOUS
<1> QED
  BY <1>1 DEF Unordered, Ways, StandsFor

FormalsTurn(c, walk) ==
  [seen \in NameSets(c) |-> [a \in DOMAIN c.facts |->
        IF c.facts[a].value \in {"function", "generic"} THEN a
        ELSE IF c.facts[a].name \notin seen /\ \E t \in DOMAIN c.facts : StandsFor(c, a, t)
        THEN walk[seen \cup {c.facts[a].name}][CHOOSE t \in DOMAIN c.facts : StandsFor(c, a, t)]
        ELSE None]]
LEMMA FormalsWalk ==
  ASSUME NEW c \in Code, NEW i
  PROVE  \E walk : /\ Formals(c, i) = walk[{}][i]
                   /\ IsWalk(walk, c, Stops(c, {"function", "generic"}), [a \in DOMAIN c.facts |-> a],
                             Onward(c), Always(c, None))
<1> DEFINE D == DOMAIN c.facts
           halt == Stops(c, {"function", "generic"})
           own == [a \in D |-> a]
           lost == Always(c, None)
           Is(w) == IsWalk(w, c, halt, own, Onward(c), lost)
<1>1. \A w : FormalsTurn(c, w) = Stepped(w, c, halt, own, Onward(c), lost)
  <2> TAKE w
  <2>1. \A a \in D : Onward(c)[a] # None <=> \E t \in D : StandsFor(c, a, t)
    BY OnwardIs DEF Onward
  <2>2. \A a \in D : (\E t \in D : StandsFor(c, a, t)) => Onward(c)[a] = CHOOSE t \in D : StandsFor(c, a, t)
    BY DEF Onward
  <2>3. \A a \in D : a \in halt <=> c.facts[a].value \in {"function", "generic"}
    BY DEF Stops
  <2>4. \A a \in D : own[a] = a /\ lost[a] = None
    BY DEF Always
  <2> HIDE DEF own, halt, lost
  <2>5. ASSUME NEW seen \in NameSets(c), NEW a \in D
        PROVE  FormalsTurn(c, w)[seen][a] = Stepped(w, c, halt, own, Onward(c), lost)[seen][a]
    BY <2>1, <2>2, <2>3, <2>4 DEF FormalsTurn, Stepped
  <2> QED
    BY <2>5, Zenon DEF FormalsTurn, Stepped
<1>2. \E w : w = FormalsTurn(c, w)
  <2>1. own \in [D -> D \cup {None}] /\ Always(c, None) \in [D -> D \cup {None}]
    BY DEF Always
  <2>2. \E w : Is(w)
    BY <2>1, OnwardIs, WalkExists
  <2> QED
    BY <1>1, <2>2 DEF IsWalk
<1>3. Formals(c, i) = (CHOOSE w : w = FormalsTurn(c, w))[{}][i]
  BY Zenon DEF Formals, FormalsTurn
<1> QED
  BY <1>1, <1>2, <1>3 DEF IsWalk

FormalNamesTurn(c, walk) ==
  [seen \in NameSets(c) |-> [a \in DOMAIN c.facts |->
        IF c.facts[a].value \in {"function", "generic"} THEN <<"known", a>>
        ELSE IF c.facts[a].value # "alias" THEN <<"not a function", None>>
        ELSE IF c.facts[a].name \notin seen /\ \E t \in DOMAIN c.facts : StandsFor(c, a, t)
        THEN walk[seen \cup {c.facts[a].name}][CHOOSE t \in DOMAIN c.facts : StandsFor(c, a, t)]
        ELSE <<"unknown", None>>]]
SaidOfFormals(c) ==
  [a \in DOMAIN c.facts |->
     IF c.facts[a].value \in {"function", "generic"} THEN <<"known", a>> ELSE <<"not a function", None>>]
LEMMA FormalNamesWalk ==
  ASSUME NEW c \in Code, NEW i
  PROVE  \E walk : /\ FormalNames(c, i) = walk[{}][i]
                   /\ IsWalk(walk, c, Stops(c, Values \ {"alias"}), SaidOfFormals(c),
                             Onward(c), Always(c, <<"unknown", None>>))
<1> DEFINE D == DOMAIN c.facts
           halt == Stops(c, Values \ {"alias"})
           own == SaidOfFormals(c)
           lost == Always(c, <<"unknown", None>>)
           R == {own[a] : a \in D} \cup {<<"unknown", None>>}
           Is(w) == IsWalk(w, c, halt, own, Onward(c), lost)
<1>1. \A w : FormalNamesTurn(c, w) = Stepped(w, c, halt, own, Onward(c), lost)
  <2> TAKE w
  <2>1. \A a \in D : Onward(c)[a] # None <=> \E t \in D : StandsFor(c, a, t)
    BY OnwardIs DEF Onward
  <2>2. \A a \in D : (\E t \in D : StandsFor(c, a, t)) => Onward(c)[a] = CHOOSE t \in D : StandsFor(c, a, t)
    BY DEF Onward
  <2>3. \A a \in D : a \in halt <=> c.facts[a].value # "alias"
    BY CodeTypes DEF Stops
  <2>4. \A a \in D : c.facts[a].value \in {"function", "generic"} => c.facts[a].value # "alias"
    OBVIOUS
  <2>5. ASSUME NEW a \in D
        PROVE  /\ c.facts[a].value \in {"function", "generic"} => own[a] = <<"known", a>>
               /\ c.facts[a].value \notin {"function", "generic"} => own[a] = <<"not a function", None>>
               /\ lost[a] = <<"unknown", None>>
    BY Zenon DEF SaidOfFormals, Always
  <2> HIDE DEF own, lost, halt
  <2> QED
    BY <2>1, <2>2, <2>3, <2>4, <2>5, ZenonT(30) DEF FormalNamesTurn, Stepped
<1>2. \E w : w = FormalNamesTurn(c, w)
  <2>1. own \in [D -> R] /\ lost \in [D -> R]
    BY DEF Always, SaidOfFormals
  <2> HIDE DEF R
  <2>2. \E w : Is(w)
    BY <2>1, OnwardIs, WalkExists
  <2> QED
    BY <1>1, <2>2 DEF IsWalk
<1>3. FormalNames(c, i) = (CHOOSE w : w = FormalNamesTurn(c, w))[{}][i]
  BY Zenon DEF FormalNames, FormalNamesTurn
<1> QED
  BY <1>1, <1>2, <1>3 DEF IsWalk

NonFunctionTurn(c, walk) ==
  [seen \in NameSets(c) |-> [a \in DOMAIN c.facts |->
        \/ c.facts[a].value = "nonfunction"
        \/ /\ c.facts[a].name \notin seen
           /\ \E t \in DOMAIN c.facts :
                StandsFor(c, a, t) /\ walk[seen \cup {c.facts[a].name}][t]]]
LEMMA NonFunctionWalk ==
  ASSUME NEW c \in Code, NEW i
  PROVE  \E walk : /\ IsProvenNonFunction(c, i) = walk[{}][i]
                   /\ IsWalk(walk, c, Stops(c, {"nonfunction"}), Always(c, TRUE),
                             Onward(c), Always(c, FALSE))
<1> DEFINE D == DOMAIN c.facts
           halt == Stops(c, {"nonfunction"})
           Is(w) == IsWalk(w, c, halt, Always(c, TRUE), Onward(c), Always(c, FALSE))
           Walks == [NameSets(c) -> [D -> BOOLEAN]]
<1>1. ASSUME NEW w \in Walks
      PROVE  NonFunctionTurn(c, w) = Stepped(w, c, halt, Always(c, TRUE), Onward(c), Always(c, FALSE))
  <2>1. ASSUME NEW s \in NameSets(c), NEW a \in D
        PROVE  NonFunctionTurn(c, w)[s][a]
                 = Stepped(w, c, halt, Always(c, TRUE), Onward(c), Always(c, FALSE))[s][a]
    <3> DEFINE u == s \cup {c.facts[a].name}
               left == NonFunctionTurn(c, w)[s][a]
               right == Stepped(w, c, halt, Always(c, TRUE), Onward(c), Always(c, FALSE))[s][a]
    <3>1. u \in NameSets(c) /\ \A t \in D : w[u][t] \in BOOLEAN
      BY NamesAreLeft
    <3>2. left = \/ c.facts[a].value = "nonfunction"
                 \/ c.facts[a].name \notin s /\ \E t \in D : StandsFor(c, a, t) /\ w[u][t]
      BY Zenon DEF NonFunctionTurn
    <3>3. right = IF c.facts[a].value = "nonfunction" THEN TRUE
                  ELSE IF c.facts[a].name \notin s /\ Onward(c)[a] # None
                  THEN w[u][Onward(c)[a]] ELSE FALSE
      BY DEF Stepped, Stops, Always
    <3> SUFFICES left = right
      OBVIOUS
    <3> HIDE DEF u, left, right
    <3>4. CASE \E t \in D : StandsFor(c, a, t)
      <4>1. PICK t \in D : StandsFor(c, a, t)
        BY <3>4
      <4>2. Onward(c)[a] = t /\ t # None /\ \A v \in D : StandsFor(c, a, v) => v = t
        BY <4>1, OnwardIs
      <4>3. (\E v \in D : StandsFor(c, a, v) /\ w[u][v]) <=> w[u][t]
        BY <4>1, <4>2, Zenon
      <4> QED
        BY <3>1, <3>2, <3>3, <4>2, <4>3
    <3>5. CASE ~\E t \in D : StandsFor(c, a, t)
      <4>1. Onward(c)[a] = None
        BY <3>5 DEF Onward
      <4> QED
        BY <3>2, <3>3, <3>5, <4>1
    <3> QED
      BY <3>4, <3>5
  <2> QED
    BY <2>1, Zenon DEF NonFunctionTurn, Stepped
<1>2. \E w : w = NonFunctionTurn(c, w)
  <2>1. Always(c, TRUE) \in [D -> BOOLEAN] /\ Always(c, FALSE) \in [D -> BOOLEAN]
    BY DEF Always
  <2>2. \E w \in Walks : Is(w)
    BY <2>1, OnwardIs, WalkExists
  <2> QED
    BY <1>1, <2>2 DEF IsWalk
<1>3. IsProvenNonFunction(c, i) = (CHOOSE w : w = NonFunctionTurn(c, w))[{}][i]
  BY Zenon DEF IsProvenNonFunction, NonFunctionTurn
<1>4. ASSUME NEW w, w = NonFunctionTurn(c, w) PROVE w \in Walks
  <2>1. NonFunctionTurn(c, w) \in Walks
    BY Zenon DEF NonFunctionTurn
  <2> QED
    BY <1>4, <2>1, Zenon
<1> QED
  BY <1>1, <1>2, <1>3, <1>4 DEF IsWalk

FunctionTurn(c, walk) ==
  [seen \in NameSets(c) |-> [a \in DOMAIN c.facts |->
        \/ c.facts[a].value \in {"function", "generic"}
        \/ /\ c.facts[a].value = "alias" /\ c.facts[a].name \notin seen
           /\ \E t \in DOMAIN c.facts :
                /\ FactsOf(c, c.facts[a].target) = {t}
                /\ walk[seen \cup {c.facts[a].name}][t]]]
LEMMA FunctionWalk ==
  ASSUME NEW c \in Code, NEW i
  PROVE  \E walk : /\ IsFunction(c, i) = walk[{}][i]
                   /\ IsWalk(walk, c, Stops(c, {"function", "generic"}), Always(c, TRUE),
                             Unordered(c), Always(c, FALSE))
<1> DEFINE D == DOMAIN c.facts
           halt == Stops(c, {"function", "generic"})
           Is(w) == IsWalk(w, c, halt, Always(c, TRUE), Unordered(c), Always(c, FALSE))
           Walks == [NameSets(c) -> [D -> BOOLEAN]]
<1>1. ASSUME NEW w \in Walks
      PROVE  FunctionTurn(c, w) = Stepped(w, c, halt, Always(c, TRUE), Unordered(c), Always(c, FALSE))
  <2>1. ASSUME NEW s \in NameSets(c), NEW a \in D
        PROVE  FunctionTurn(c, w)[s][a]
                 = Stepped(w, c, halt, Always(c, TRUE), Unordered(c), Always(c, FALSE))[s][a]
    <3> DEFINE u == s \cup {c.facts[a].name}
               Goes(t) == c.facts[a].value = "alias" /\ FactsOf(c, c.facts[a].target) = {t}
               left == FunctionTurn(c, w)[s][a]
               right == Stepped(w, c, halt, Always(c, TRUE), Unordered(c), Always(c, FALSE))[s][a]
    <3>1. u \in NameSets(c) /\ \A t \in D : w[u][t] \in BOOLEAN
      BY NamesAreLeft
    <3>2. left = \/ c.facts[a].value \in {"function", "generic"}
                 \/ c.facts[a].name \notin s /\ \E t \in D : Goes(t) /\ w[u][t]
      <4>1. left = \/ c.facts[a].value \in {"function", "generic"}
                   \/ /\ c.facts[a].value = "alias" /\ c.facts[a].name \notin s
                      /\ \E t \in D : FactsOf(c, c.facts[a].target) = {t} /\ w[u][t]
        BY Zenon DEF FunctionTurn
      <4> QED
        BY <4>1, Zenon
    <3>3. right = IF c.facts[a].value \in {"function", "generic"} THEN TRUE
                  ELSE IF c.facts[a].name \notin s /\ Unordered(c)[a] # None
                  THEN w[u][Unordered(c)[a]] ELSE FALSE
      BY DEF Stepped, Stops, Always
    <3> SUFFICES left = right
      OBVIOUS
    <3> HIDE DEF u, left, right
    <3>4. CASE \E t \in D : Goes(t)
      <4>1. PICK t \in D : Goes(t)
        BY <3>4
      <4>2. Unordered(c)[a] = t /\ t # None /\ \A v \in D : Goes(v) => v = t
        <5>1. t # None
          BY DEF None, Code
        <5> QED
          BY <4>1, <5>1, UnorderedIs
      <4>3. (\E v \in D : Goes(v) /\ w[u][v]) <=> w[u][t]
        BY <4>1, <4>2, Zenon
      <4> HIDE DEF Goes
      <4> QED
        BY <3>1, <3>2, <3>3, <4>2, <4>3
    <3>5. CASE ~\E t \in D : Goes(t)
      <4>1. Unordered(c)[a] = None
        BY <3>5 DEF Unordered
      <4> HIDE DEF Goes
      <4> QED
        BY <3>2, <3>3, <3>5, <4>1
    <3> QED
      BY <3>4, <3>5
  <2> QED
    BY <2>1, Zenon DEF FunctionTurn, Stepped
<1>2. \E w : w = FunctionTurn(c, w)
  <2>1. Always(c, TRUE) \in [D -> BOOLEAN] /\ Always(c, FALSE) \in [D -> BOOLEAN]
    BY DEF Always
  <2>2. \E w \in Walks : Is(w)
    BY <2>1, UnorderedIs, WalkExists
  <2> QED
    BY <1>1, <2>2 DEF IsWalk
<1>3. IsFunction(c, i) = (CHOOSE w : w = FunctionTurn(c, w))[{}][i]
  BY Zenon DEF IsFunction, FunctionTurn
<1>4. ASSUME NEW w, w = FunctionTurn(c, w) PROVE w \in Walks
  <2>1. FunctionTurn(c, w) \in Walks
    BY Zenon DEF FunctionTurn
  <2> QED
    BY <1>4, <2>1, Zenon
<1> QED
  BY <1>1, <1>2, <1>3, <1>4 DEF IsWalk

\* Every walk comes to the end of the copies, and says what it finds there.
FoundAt(c, i, t) ==
  LET own == OwnMeaning(c, t)
      function == own \in {"function", "generic"} IN
  /\ Formals(c, i) = IF function THEN t ELSE None
  /\ FormalNames(c, i) =
       CASE function -> <<"known", t>>
         [] c.facts[t].value = "alias" -> <<"unknown", None>>
         [] OTHER -> <<"not a function", None>>
  /\ IsProvenNonFunction(c, i) <=> own = "nonfunction"
  /\ function => IsFunction(c, i)
LEMMA WalksFind ==
  ASSUME NEW c \in Code, NEW i \in DOMAIN c.facts
  PROVE  \E t \in DOMAIN c.facts : IsEnd(c, i, t) /\ FoundAt(c, i, t)
<1> DEFINE D == DOMAIN c.facts
           value(a) == c.facts[a].value
           function(t) == OwnMeaning(c, t) \in {"function", "generic"}
<1>0. /\ \A t \in D : function(t) <=> value(t) \in {"function", "generic"}
      /\ \A t \in D : OwnMeaning(c, t) = "nonfunction" <=> value(t) = "nonfunction"
      /\ \A t \in D : \A S : t \in Stops(c, S) <=> value(t) \in S
      /\ \A S : \A a \in Stops(c, S) \cap D : "alias" \notin S => c.facts[a].value # "alias"
      /\ \A t \in D : value(t) \in Values
      /\ \A a, t \in D : StandsFor(c, a, t) => Onward(c)[a] = t /\ Unordered(c)[a] = t
      /\ \A a \in D : \A v : Always(c, v)[a] = v
      /\ \A t \in D : IsEnd(c, i, t) => Onward(c)[t] = None
      /\ Onward(c) \in Ways(c) /\ Unordered(c) \in Ways(c)
  <2>1. /\ \A t \in D : function(t) <=> value(t) \in {"function", "generic"}
        /\ \A t \in D : OwnMeaning(c, t) = "nonfunction" <=> value(t) = "nonfunction"
    BY DEF OwnMeaning
  <2>2. \A t \in D : \A S : t \in Stops(c, S) <=> value(t) \in S
    BY DEF Stops
  <2>3. /\ \A a, t \in D : StandsFor(c, a, t) => Onward(c)[a] = t /\ Unordered(c)[a] = t
        /\ \A t \in D : IsEnd(c, i, t) => Onward(c)[t] = None
        /\ Onward(c) \in Ways(c) /\ Unordered(c) \in Ways(c)
    BY OnwardIs, UnorderedIs DEF IsEnd
  <2>4. \A a \in D : \A v : Always(c, v)[a] = v
    BY DEF Always
  <2> QED
    BY <2>1, <2>2, <2>3, <2>4, CodeTypes
<1>1. PICK w : /\ Formals(c, i) = w[{}][i]
               /\ IsWalk(w, c, Stops(c, {"function", "generic"}), [a \in D |-> a],
                         Onward(c), Always(c, None))
  BY FormalsWalk
<1>2. PICK t \in D :
        /\ IsEnd(c, i, t)
        /\ Formals(c, i) = IF function(t) THEN t ELSE None
  <2> DEFINE own == [a \in D |-> a]
             halt == Stops(c, {"function", "generic"})
  <2>1. \A a \in halt \cap D : c.facts[a].value # "alias"
    BY <1>0
  <2>2. \A a \in D : own[a] = a
    OBVIOUS
  <2>3. IsWalk(w, c, halt, own, Onward(c), Always(c, None))
    BY <1>1
  <2> HIDE DEF own, halt
  <2>4. PICK t \in D :
          /\ IsEnd(c, i, t)
          /\ t \in halt => w[{}][i] = own[t]
          /\ t \notin halt /\ Onward(c)[t] = None => w[{}][i] = Always(c, None)[t]
    BY <1>0, <2>1, <2>3, WalkEnds
  <2>5. t \in halt <=> function(t)
    BY <1>0 DEF halt
  <2> QED
    BY <1>0, <1>1, <2>2, <2>4, <2>5
<1>3. FormalNames(c, i) =
        CASE function(t) -> <<"known", t>>
          [] c.facts[t].value = "alias" -> <<"unknown", None>>
          [] OTHER -> <<"not a function", None>>
  <2> DEFINE own == SaidOfFormals(c)
             halt == Stops(c, Values \ {"alias"})
             lost == Always(c, <<"unknown", None>>)
  <2>1. PICK x : FormalNames(c, i) = x[{}][i] /\ IsWalk(x, c, halt, own, Onward(c), lost)
    BY FormalNamesWalk
  <2>2. \A a \in halt \cap D : c.facts[a].value # "alias"
    BY <1>0
  <2> HIDE DEF own, halt, lost
  <2>3. PICK u \in D :
          /\ IsEnd(c, i, u)
          /\ u \in halt => x[{}][i] = own[u]
          /\ u \notin halt /\ Onward(c)[u] = None => x[{}][i] = lost[u]
    BY <1>0, <2>1, <2>2, WalkEnds
  <2>4. u = t
    BY <1>2, <2>3, EndIsOne
  <2>5. t \in halt <=> value(t) # "alias"
    BY <1>0 DEF halt
  <2>6. /\ function(t) => own[t] = <<"known", t>>
        /\ ~function(t) => own[t] = <<"not a function", None>>
        /\ lost[t] = <<"unknown", None>>
    BY <1>0 DEF own, lost, SaidOfFormals
  <2>7. function(t) => value(t) # "alias"
    BY <1>0
  <2> HIDE DEF function, value
  <2>8. CASE function(t)
    BY <1>0, <2>1, <2>3, <2>4, <2>5, <2>6, <2>7, <2>8
  <2>9. CASE ~function(t)
    BY <1>0, <2>1, <2>3, <2>4, <2>5, <2>6, <2>9 DEF value
  <2> QED
    BY <2>8, <2>9
<1>4. IsProvenNonFunction(c, i) <=> OwnMeaning(c, t) = "nonfunction"
  <2> DEFINE own == Always(c, TRUE)
             halt == Stops(c, {"nonfunction"})
             lost == Always(c, FALSE)
  <2>1. PICK x : /\ IsProvenNonFunction(c, i) = x[{}][i]
                 /\ IsWalk(x, c, halt, own, Onward(c), lost)
    BY NonFunctionWalk
  <2>2. \A a \in halt \cap D : c.facts[a].value # "alias"
    BY <1>0
  <2> HIDE DEF own, halt, lost
  <2>3. PICK u \in D :
          /\ IsEnd(c, i, u)
          /\ u \in halt => x[{}][i] = own[u]
          /\ u \notin halt /\ Onward(c)[u] = None => x[{}][i] = lost[u]
    BY <1>0, <2>1, <2>2, WalkEnds
  <2>4. u = t
    BY <1>2, <2>3, EndIsOne
  <2>5. t \in halt <=> OwnMeaning(c, t) = "nonfunction"
    BY <1>0 DEF halt
  <2>6. /\ t \in halt => x[{}][i] = TRUE
        /\ t \notin halt => x[{}][i] = FALSE
    BY <1>0, <2>3, <2>4, ZenonT(30) DEF own, lost
  <2> QED
    BY <2>1, <2>5, <2>6, Zenon
<1>5. function(t) => IsFunction(c, i)
  <2> DEFINE own == Always(c, TRUE)
             halt == Stops(c, {"function", "generic"})
             lost == Always(c, FALSE)
  <2>1. PICK x : /\ IsFunction(c, i) = x[{}][i]
                 /\ IsWalk(x, c, halt, own, Unordered(c), lost)
    BY FunctionWalk
  <2>2. \A a \in halt \cap D : c.facts[a].value # "alias"
    BY <1>0
  <2>3. t \in halt <=> function(t)
    BY <1>0
  <2> HIDE DEF own, halt, lost
  <2>4. PICK u \in D :
          /\ IsEnd(c, i, u)
          /\ u \in halt => x[{}][i] = own[u]
    BY <1>0, <2>1, <2>2, WalkEnds
  <2>5. u = t
    BY <1>2, <2>4, EndIsOne
  <2>6. t \in halt => x[{}][i] = TRUE
    BY <1>0, <2>4, <2>5 DEF own
  <2> QED
    BY <2>1, <2>3, <2>6, Zenon
<1> QED
  BY <1>2, <1>3, <1>4, <1>5 DEF FoundAt

-----------------------------------------------------------------------------
(* S7 classes *)

\* What an assignment makes is its class; what copies another one has the
\* class of that; and everything else has none.
LEMMA ClassIs ==
  ASSUME NEW c, DOMAIN c.facts \subseteq Nat, NEW i \in DOMAIN c.facts
  PROVE  /\ c.facts[i].value \in {"s7", "refused"} => ClassOf(c, i) = i
         /\ \A j \in DOMAIN c.facts :
              c.facts[i].value = "alias" /\ j \in LatestBefore(c, c.facts[i].target, i)
                => ClassOf(c, i) = ClassOf(c, j)
         /\ /\ c.facts[i].value \notin {"s7", "refused"}
            /\ c.facts[i].value = "alias" => LatestBefore(c, c.facts[i].target, i) = {}
            => ClassOf(c, i) = None
<1> DEFINE D == DOMAIN c.facts
           latest == {e \in D \X D : c.facts[e[1]].value = "alias"
                                      /\ e[2] \in LatestBefore(c, c.facts[e[1]].target, e[1])}
           Made(k) == {t \in D : ComesFrom(c, latest, k, t) /\ c.facts[t].value \in {"s7", "refused"}}
<1>1. \A k : ClassOf(c, k) = IF Made(k) = {} THEN None ELSE CHOOSE t \in Made(k) : TRUE
  BY DEF ClassOf
<1>2. \A e \in latest : e[1] \in D /\ e[2] \in D
  OBVIOUS
<1>3. ASSUME \A e \in latest : e[1] # i, NEW t \in D, ComesFrom(c, latest, i, t) PROVE t = i
  <2>1. {i} \in SUBSET D /\ \A e \in latest : e[1] \in {i} => e[2] \in {i}
    BY <1>3
  <2> QED
    BY <1>3, <2>1 DEF ComesFrom
<1>4. ComesFrom(c, latest, i, i)
  BY DEF ComesFrom
<1>5. CASE c.facts[i].value \in {"s7", "refused"}
  <2>1. \A e \in latest : e[1] # i
    BY <1>5
  <2>2. Made(i) = {i}
    BY <1>3, <1>4, <1>5, <2>1
  <2>3. ClassOf(c, i) = i
    BY <1>1, <2>2
  <2> QED
    BY <1>5, <2>3
<1>6. ASSUME NEW j \in D, c.facts[i].value = "alias", j \in LatestBefore(c, c.facts[i].target, i)
      PROVE  ClassOf(c, i) = ClassOf(c, j)
  <2>1. <<i, j>> \in latest
    BY <1>6
  <2>2. \A e \in latest : e[1] = i => e[2] = j
    <3>1. \A k \in LatestBefore(c, c.facts[i].target, i) : k \in Nat /\ j \in Nat /\ k <= j /\ j <= k
      BY <1>6 DEF LatestBefore, FactsOf
    <3> QED
      BY <3>1
  <2> HIDE DEF latest
  <2>3. ASSUME NEW t \in D, ComesFrom(c, latest, j, t) PROVE ComesFrom(c, latest, i, t)
    BY <2>1, <2>3 DEF ComesFrom
  <2>4. ASSUME NEW t \in D, ComesFrom(c, latest, i, t), t # i PROVE ComesFrom(c, latest, j, t)
    <3> SUFFICES ASSUME NEW S \in SUBSET D, j \in S, \A e \in latest : e[1] \in S => e[2] \in S
                 PROVE  t \in S
      BY DEF ComesFrom
    <3>1. S \cup {i} \in SUBSET D /\ \A e \in latest : e[1] \in S \cup {i} => e[2] \in S \cup {i}
      BY <2>2
    <3>2. t \in S \cup {i}
      BY <2>4, <3>1 DEF ComesFrom
    <3> QED
      BY <2>4, <3>2
  <2>5. c.facts[i].value \notin {"s7", "refused"}
    BY <1>6
  <2>6. Made(i) = Made(j)
    BY <2>3, <2>4, <2>5
  <2> HIDE DEF Made
  <2> QED
    BY <1>1, <2>6
<1>7. ASSUME c.facts[i].value \notin {"s7", "refused"},
             c.facts[i].value = "alias" => LatestBefore(c, c.facts[i].target, i) = {}
      PROVE  ClassOf(c, i) = None
  <2>1. \A e \in latest : e[1] # i
    BY <1>7
  <2>2. Made(i) = {}
    BY <1>3, <1>7, <2>1
  <2> QED
    BY <1>1, <2>2
<1> QED
  BY <1>5, <1>6, <1>7

\* The last assignment of n in the file of i, up to i.
LatestAt(c, n, i) ==
  {j \in FactsOf(c, n) :
     /\ j <= i /\ c.facts[j].file = c.facts[i].file
     /\ \A k \in FactsOf(c, n) : k <= i => k <= j}

\* What has been tracked so far: every assignment that is behind has its
\* class, and what is known of a name is the class of its last assignment in
\* the file.
TrackInv ==
  /\ IsInFileOrder(code)
  /\ s7 \in Seq(Nat) /\ S7FollowsTheLatest
  /\ stage = "extract" => s7 = <<>>
  /\ Len(s7) <= Len(code.facts)
  /\ stage = "track" =>
       /\ Len(s7) = at - 1
       /\ at > 1 =>
            /\ \A n : n \in DOMAIN known <=> \E j \in LatestAt(code, n, at - 1) : s7[j] # None
            /\ \A n \in DOMAIN known : \A j \in LatestAt(code, n, at - 1) : known[n] = s7[j]

\* Here(n) is what is known of n in the file of the assignment at hand.
Here == IF at > 1 /\ code.facts[at - 1].file = code.facts[at].file THEN known ELSE <<>>
LEMMA HereIs ==
  ASSUME code \in Code, TrackInv, stage = "track", at \in DOMAIN code.facts
  PROVE  /\ \A n : n \in DOMAIN Here <=> \E j \in LatestBefore(code, n, at) : s7[j] # None
         /\ \A n \in DOMAIN Here : \A j \in LatestBefore(code, n, at) : Here[n] = s7[j]
<1>1. DOMAIN code.facts = 1 .. Len(code.facts) /\ Len(code.facts) \in Nat /\ at \in Nat
  BY LenProperties DEF Code
<1>2. \A n : FactsOf(code, n) \subseteq DOMAIN code.facts
  BY DEF FactsOf
<1>3. \A i \in DOMAIN code.facts : code.facts[i].file \in Nat
  BY CodeTypes, NumFilesAssumption DEF Files
<1>4. CASE at > 1 /\ code.facts[at - 1].file = code.facts[at].file
  <2>1. \A n : LatestBefore(code, n, at) = LatestAt(code, n, at - 1)
    <3>1. \A j \in DOMAIN code.facts : j < at <=> j <= at - 1
      BY <1>1
    <3> QED
      BY <1>2, <1>4, <3>1 DEF LatestBefore, LatestAt
  <2> QED
    BY <1>4, <2>1 DEF TrackInv, Here
<1>5. CASE ~(at > 1 /\ code.facts[at - 1].file = code.facts[at].file)
  <2>1. ASSUME NEW n, NEW j \in LatestBefore(code, n, at) PROVE FALSE
    <3>1. j \in DOMAIN code.facts /\ j < at /\ code.facts[j].file = code.facts[at].file
      BY <1>2 DEF LatestBefore
    <3>2. at > 1 /\ at - 1 \in DOMAIN code.facts /\ (j = at - 1 \/ j < at - 1) /\ at - 1 < at
      BY <1>1, <3>1
    <3>3. /\ code.facts[j].file <= code.facts[at - 1].file
          /\ code.facts[at - 1].file <= code.facts[at].file
      BY <1>3, <3>1, <3>2 DEF TrackInv, IsInFileOrder
    <3>4. code.facts[at - 1].file = code.facts[at].file
      BY <1>3, <3>1, <3>2, <3>3
    <3> QED
      BY <1>5, <3>2, <3>4
  <2>2. Here = <<>>
    BY <1>5 DEF Here
  <2>3. DOMAIN Here = {}
    BY <2>2
  <2> QED
    BY <2>1, <2>3
<1> QED
  BY <1>4, <1>5

\* The assignment at hand gets its class.
LEMMA TrackKeeps ==
  ASSUME code \in Code, at \in Nat \ {0}, TrackInv, TrackS7
  PROVE  TrackInv'
<1> DEFINE fact == code.facts[at]
           class == CASE fact.value \in {"s7", "refused"} -> at
                      [] fact.value = "alias" /\ fact.target \in DOMAIN Here -> Here[fact.target]
                      [] OTHER -> None
<1>1. /\ stage = "track" /\ at <= Len(code.facts) /\ at' = at + 1 /\ UNCHANGED <<stage, code>>
      /\ s7' = Append(s7, class)
      /\ known' = [n \in (DOMAIN Here \ {fact.name}) \cup (IF class = None THEN {} ELSE {fact.name}) |->
                     IF n = fact.name THEN class ELSE Here[n]]
  <2>1. /\ stage = "track" /\ at <= Len(code.facts) /\ at' = at + 1 /\ UNCHANGED <<stage, code>>
    BY ItemsAre DEF TrackS7, Busy, Advance, analyzer
  <2> QED
    BY <2>1, Zenon DEF TrackS7, Here
<1>2. /\ DOMAIN code.facts = 1 .. Len(code.facts) /\ Len(code.facts) \in Nat /\ at \in DOMAIN code.facts
      /\ Len(s7) = at - 1 /\ s7 \in Seq(Nat) /\ DOMAIN s7 = 1 .. Len(s7)
  BY <1>1, LenProperties DEF Code, TrackInv
<1>3. /\ \A n : n \in DOMAIN Here <=> \E j \in LatestBefore(code, n, at) : s7[j] # None
      /\ \A n \in DOMAIN Here : \A j \in LatestBefore(code, n, at) : Here[n] = s7[j]
  BY <1>1, <1>2, HereIs
<1>4. \A n : \A j \in LatestBefore(code, n, at) : j \in DOMAIN code.facts /\ j \in DOMAIN s7 /\ s7[j] = ClassOf(code, j)
  <2>1. \A n : \A j \in LatestBefore(code, n, at) : j \in DOMAIN code.facts /\ j < at
    BY DEF LatestBefore, FactsOf
  <2>2. \A j \in DOMAIN code.facts : j < at => j \in DOMAIN s7
    BY <1>2
  <2> QED
    BY <2>1, <2>2 DEF TrackInv, S7FollowsTheLatest
<1>5. class = ClassOf(code, at)
  <2>1. CASE fact.value \in {"s7", "refused"}
    BY <1>2, <2>1, ClassIs
  <2>2. CASE fact.value = "alias"
    <3>1. class = IF fact.target \in DOMAIN Here THEN Here[fact.target] ELSE None
      BY <2>2
    <3>2. CASE \E j : j \in LatestBefore(code, fact.target, at)
      <4>1. PICK j : j \in LatestBefore(code, fact.target, at)
        BY <3>2
      <4>2. j \in DOMAIN code.facts /\ s7[j] = ClassOf(code, j)
        BY <1>4, <4>1
      <4>3. ClassOf(code, at) = s7[j]
        BY <1>2, <2>2, <4>1, <4>2, ClassIs
      <4>4. \A k \in LatestBefore(code, fact.target, at) : k = j
        <5>1. \A k \in LatestBefore(code, fact.target, at) : k \in DOMAIN code.facts /\ k <= j /\ j <= k
          BY <4>1 DEF LatestBefore, FactsOf
        <5> QED
          BY <1>2, <4>2, <5>1
      <4> HIDE DEF class
      <4> QED
        BY <1>3, <3>1, <4>1, <4>3, <4>4
    <3>3. CASE ~\E j : j \in LatestBefore(code, fact.target, at)
      <4>1. ClassOf(code, at) = None
        BY <1>2, <2>2, <3>3, ClassIs
      <4> HIDE DEF class
      <4> QED
        BY <1>3, <3>1, <3>3, <4>1
    <3> QED
      BY <3>2, <3>3
  <2>3. CASE fact.value \notin {"s7", "refused", "alias"}
    <3>1. class = None
      BY <2>3
    <3>2. ClassOf(code, at) = None
      BY <1>2, <2>3, ClassIs
    <3> QED
      BY <3>1, <3>2
  <2> QED
    BY <2>1, <2>2, <2>3
<1> HIDE DEF class
<1>6. class \in Nat
  <2>1. ASSUME NEW t \in DOMAIN code.facts PROVE t \in Nat
    BY <1>2
  <2>2. ClassOf(code, at) \in (DOMAIN code.facts) \cup {None}
    BY DEF ClassOf
  <2> QED
    BY <1>5, <2>1, <2>2 DEF None
<1>7. /\ s7' \in Seq(Nat) /\ Len(s7') = at /\ DOMAIN s7' = 1 .. at
      /\ \A j \in 1 .. at : s7'[j] = IF j = at THEN class ELSE s7[j]
  <2>1. /\ Append(s7, class) \in Seq(Nat) /\ Len(Append(s7, class)) = Len(s7) + 1
        /\ \A j \in 1 .. Len(s7) : Append(s7, class)[j] = s7[j]
        /\ Append(s7, class)[Len(s7) + 1] = class
    BY <1>2, <1>6, AppendProperties
  <2> QED
    BY <1>1, <1>2, <2>1, LenProperties
<1>8. S7FollowsTheLatest'
  <2>1. ASSUME NEW k \in 1 .. at PROVE s7'[k] = ClassOf(code, k)
    <3>1. CASE k = at
      BY <1>5, <1>7, <3>1
    <3>2. CASE k # at
      <4>1. k \in DOMAIN s7
        BY <1>2, <3>2
      <4> QED
        BY <1>7, <3>2, <4>1 DEF TrackInv, S7FollowsTheLatest
    <3> QED
      BY <3>1, <3>2
  <2> QED
    BY <1>1, <1>7, <2>1 DEF S7FollowsTheLatest
<1>9. /\ LatestAt(code, fact.name, at) = {at}
      /\ \A n : n # fact.name => LatestAt(code, n, at) = LatestBefore(code, n, at)
  <2>1. \A n : at \in FactsOf(code, n) <=> n = fact.name
    BY <1>2 DEF FactsOf
  <2>2. \A n : FactsOf(code, n) \subseteq DOMAIN code.facts
    BY DEF FactsOf
  <2>3. \A j \in DOMAIN code.facts : (j <= at <=> j < at \/ j = at) /\ ~(at < at) /\ (at <= j /\ j <= at => j = at)
    BY <1>2
  <2>4. LatestAt(code, fact.name, at) = {at}
    BY <1>2, <2>1, <2>2, <2>3 DEF LatestAt
  <2>5. ASSUME NEW n, n # fact.name PROVE LatestAt(code, n, at) = LatestBefore(code, n, at)
    <3>1. \A k \in FactsOf(code, n) : k <= at <=> k < at
      BY <2>1, <2>2, <2>3, <2>5
    <3> QED
      BY <3>1 DEF LatestAt, LatestBefore
  <2> QED
    BY <2>4, <2>5
<1>10. /\ \A n : n \in DOMAIN known' <=> \E j \in LatestAt(code, n, at) : s7'[j] # None
       /\ \A n \in DOMAIN known' : \A j \in LatestAt(code, n, at) : known'[n] = s7'[j]
  <2>1. \A n : n \in DOMAIN known' <=> IF n = fact.name THEN class # None ELSE n \in DOMAIN Here
    BY <1>1
  <2>2. \A n \in DOMAIN known' : known'[n] = IF n = fact.name THEN class ELSE Here[n]
    BY <1>1
  <2>3. s7'[at] = class
    BY <1>2, <1>7
  <2>4. ASSUME NEW n, n # fact.name, NEW j \in LatestAt(code, n, at)
        PROVE  j \in LatestBefore(code, n, at) /\ s7'[j] = s7[j]
    <3>1. j \in LatestBefore(code, n, at)
      BY <1>9, <2>4
    <3>2. j \in 1 .. at /\ j # at
      BY <1>2, <1>4, <3>1
    <3> QED
      BY <1>7, <3>1, <3>2
  <2>5. ASSUME NEW n
        PROVE  /\ n \in DOMAIN known' <=> \E j \in LatestAt(code, n, at) : s7'[j] # None
               /\ n \in DOMAIN known' => \A j \in LatestAt(code, n, at) : known'[n] = s7'[j]
    <3>1. CASE n = fact.name
      BY <1>9, <2>1, <2>2, <2>3, <3>1
    <3>2. CASE n # fact.name
      <4>1. LatestAt(code, n, at) = LatestBefore(code, n, at)
        BY <1>9, <3>2
      <4> QED
        BY <1>3, <2>1, <2>2, <2>4, <3>2, <4>1
    <3> QED
      BY <3>1, <3>2
  <2> QED
    BY <2>5
<1>11. at' - 1 = at /\ Len(s7') <= Len(code.facts) /\ at' > 1
  BY <1>1, <1>2, <1>7
<1>12. code' = code /\ stage' = "track"
  BY <1>1
<1>13. IsInFileOrder(code)'
  BY <1>1 DEF TrackInv
<1>14. /\ \A n : n \in DOMAIN known' <=> \E j \in LatestAt(code', n, at' - 1) : s7'[j] # None
       /\ \A n \in DOMAIN known' : \A j \in LatestAt(code', n, at' - 1) : known'[n] = s7'[j]
  BY <1>10, <1>11, <1>12
<1>15. stage' = "track" /\ Len(s7') = at' - 1 /\ Len(s7') <= Len(code'.facts) /\ stage' # "extract"
  BY <1>1, <1>7, <1>11
<1> HIDE DEF fact
<1> QED
  BY <1>7, <1>8, <1>13, <1>14, <1>15 DEF TrackInv

\* Blocks and verdicts make usages, assignments make what is tracked, and calls
\* make registrations; all other steps leave them alone.
LEMMA MadeBy ==
  ASSUME [Next]_vars
  PROVE  /\ MergeBlock \/ TakeUsageVerdict \/ usages' = usages
         /\ TrackS7 \/ UNCHANGED <<known, s7>>
         /\ ExtractCall \/ registrations' = registrations
         /\ stage = "track" => TrackS7 \/ Stays \/ EndStage
<1>1. CASE ExtractCall \/ TrackS7 \/ ValidateTarget \/ MergeBlock \/ SkipUsage \/ NameReexport \/ CollectTag
  BY <1>1 DEF ExtractCall, TrackS7, ValidateTarget, MergeBlock, SkipUsage, NameReexport, CollectTag,
              model, Busy, Classifying, ClassifyStages
<1>2. CASE ClassifyUsage \/ AskExport \/ AskFunction \/ Analyzer
  BY <1>2 DEF ClassifyUsage, AskExport, AskFunction, Analyzer, Stays, model
<1>3. CASE TakeUsageVerdict \/ TakeExportVerdict \/ TakeFunctionAnswer
  BY <1>3 DEF TakeUsageVerdict, TakeExportVerdict, TakeFunctionAnswer, model, Busy, Classifying, ClassifyStages
<1>4. CASE Render \/ EndStage
  BY <1>4 DEF Render, EndStage, model
<1>5. CASE Built \/ UNCHANGED vars
  BY <1>5 DEF Built, vars, model, Stays
<1> QED
  BY <1>1, <1>2, <1>3, <1>4, <1>5 DEF Next

\* Every step keeps what is tracked right.
LEMMA TrackStays ==
  ASSUME InputInv, code \in Code, TrackInv, [Next]_vars
  PROVE  TrackInv'
<1>1. CASE TrackS7
  BY <1>1, TrackKeeps DEF InputInv
<1>2. CASE ~TrackS7
  <2>1. UNCHANGED <<known, s7, code>>
    BY <1>2, MadeBy, CodeStays
  <2>2. IsInFileOrder(code') /\ s7' \in Seq(Nat) /\ S7FollowsTheLatest' /\ Len(s7') <= Len(code'.facts)
    BY <2>1 DEF TrackInv, S7FollowsTheLatest
  <2>3. stage' = "extract" => stage = "extract"
    <3>1. CASE Stays \/ Advance
      BY <3>1 DEF Stays, Advance
    <3>2. CASE EndStage \/ Render
      BY <3>2, FollowingIs DEF EndStage, Render, InputInv, StageNames
    <3> QED
      BY <3>1, <3>2, CodeStays
  <2>4. stage' = "track" => (stage = "track" /\ at' = at) \/ (stage = "extract" /\ at' = 1)
    <3>1. CASE EndStage
      BY <3>1, FollowingIs DEF EndStage, InputInv, StageNames
    <3>2. CASE ~EndStage
      <4>1. stage' = "track" => stage = "track"
        BY <3>2, CodeStays DEF Stays, Advance, Render
      <4> QED
        BY <1>2, <3>2, <4>1, MadeBy DEF Stays
    <3> QED
      BY <3>1, <3>2
  <2>5. CASE stage' = "track" /\ stage = "track" /\ at' = at
    BY <2>1, <2>2, <2>5 DEF TrackInv
  <2>6. CASE stage' = "track" /\ stage = "extract" /\ at' = 1
    <3>1. s7' = <<>>
      BY <2>1, <2>6 DEF TrackInv
    <3> QED
      BY <2>2, <2>6, <3>1 DEF TrackInv
  <2>7. CASE stage' # "track"
    BY <2>1, <2>2, <2>3, <2>7 DEF TrackInv
  <2> QED
    BY <2>4, <2>5, <2>6, <2>7
<1> QED
  BY <1>1, <1>2

-----------------------------------------------------------------------------
(* Usages *)

\* What is certain of one assignment's name is what its walk ends at, so
\* one whose formals are not found is no function.
LEMMA NoFormals ==
  ASSUME code \in Code, NEW i \in DOMAIN code.facts, Formals(code, i) = None
  PROVE  ~IsProvenFunction(code.facts[i].name)
<1> DEFINE n == code.facts[i].name
<1>1. PICK t \in DOMAIN code.facts : IsEnd(code, i, t) /\ FoundAt(code, i, t)
  BY WalksFind
<1>2. None \notin DOMAIN code.facts
  BY DEF Code, None
<1>3. OwnMeaning(code, t) \notin {"function", "generic"}
  BY <1>1, <1>2 DEF FoundAt
<1>4. i \in FactsOf(code, n)
  BY DEF FactsOf
<1>5. ASSUME NEW r, Means(code, n, r), r \in {"function", "generic"} PROVE FALSE
  <2>1. PICK j \in DOMAIN code.facts, u \in DOMAIN code.facts :
          FactsOf(code, n) = {j} /\ IsEnd(code, j, u) /\ r = OwnMeaning(code, u)
    BY <1>5 DEF Means, IsEnd
  <2>2. j = i
    BY <1>4, <2>1
  <2>3. u = t
    BY <1>1, <2>1, <2>2, EndIsOne
  <2> QED
    BY <1>3, <1>5, <2>1, <2>3
<1> QED
  BY <1>5 DEF IsProvenFunction

\* The object of a block is a name, and one without usage is no method.
LEMMA UnusedIsNone ==
  ASSUME code \in Code, NEW b \in Block, IsBlockOf(b, code)
  PROVE  /\ Object(b) \in Names
         /\ ~IsReexport(b) /\ (Object(b) = NoName \/ ~HasUsage(b)) =>
              \A G : MethodsOf(Object(b), G) = {}
<1>1. b.fact \in {None} \cup DOMAIN code.facts /\ b.member \in Names
  BY DEF IsBlockOf, Block
<1>2. \A i \in DOMAIN code.facts : code.facts[i] \in Fact
  BY LenProperties, ElementOfSeq DEF Code
<1>3. NoName \in Names
  BY DEF NoName, Names
<1>4. Object(b) \in Names
  BY <1>1, <1>2, <1>3 DEF Object, Fact
<1>5. ASSUME ~IsReexport(b), Object(b) # NoName, ~HasUsage(b), NEW G PROVE MethodsOf(Object(b), G) = {}
  <2>1. b.fact \in DOMAIN code.facts /\ b.fact # None /\ Object(b) = code.facts[b.fact].name
    BY <1>1, <1>5 DEF Object
  <2>2. /\ code.facts[b.fact].value \notin {"function", "generic"}
        /\ code.facts[b.fact].value = "alias" => Formals(code, b.fact) = None
    BY <1>5, <2>1 DEF HasUsage, IsFunctionBlock, ValueOf
  <2>3. Formals(code, b.fact) = None
    <3>1. PICK t \in DOMAIN code.facts : IsEnd(code, b.fact, t) /\ FoundAt(code, b.fact, t)
      BY <2>1, WalksFind
    <3>2. CASE code.facts[b.fact].value # "alias"
      <4>1. IsEnd(code, b.fact, b.fact)
        BY <2>1, <3>2 DEF IsEnd, ComesFrom, Copies
      <4>2. t = b.fact
        BY <2>1, <3>1, <4>1, EndIsOne
      <4> QED
        BY <2>2, <3>1, <4>2 DEF FoundAt, OwnMeaning
    <3> QED
      BY <2>2, <3>2
  <2>4. ~IsProvenFunction(Object(b))
    BY <2>1, <2>3, NoFormals
  <2> QED
    BY <1>4, <2>4, NoMethodFound
<1>6. ASSUME Object(b) = NoName, NEW G PROVE MethodsOf(Object(b), G) = {}
  <2>1. Len(NoName) = 0
    BY DEF NoName
  <2> QED
    BY <1>6, <2>1, ShortIsNone
<1> QED
  BY <1>4, <1>5, <1>6

\* How often usage i has been classified.
Later == {"reexport", "collect", "render", "done"}
Times(i) ==
  CASE stage \in Later \/ (stage = "reclassify" /\ i < at) -> 2
    [] (stage = "reclassify" /\ ~(i < at)) \/ (stage = "classify" /\ i < at) -> 1
    [] OTHER -> 0

\* The method of a usage that is left to proof, when it has been classified
\* never, once or twice.
Chosen(u) == IF u.method = NoMethod THEN {} ELSE {u.method}
Own(n) == MethodsOf(n, {})
IsFound(u, times) ==
  /\ times = 0 => u.method = NoMethod
  /\ times = 1 => Chosen(u) = Own(u.object)
  /\ times = 2 => Chosen(u) = IF Own(u.object) # {} THEN Own(u.object)
                             ELSE MethodsOf(u.object, code.installed)

\* Usage u is of its block, and without object or usage it is no method.
Tells(u, times) ==
  LET b == input.blocks[u.block] IN
  /\ "method" \in DOMAIN u /\ u.block \in DOMAIN input.blocks /\ u.object = Object(b)
  /\ ~IsReexport(b) /\ (u.object = NoName \/ ~u.generated) => \A G : MethodsOf(u.object, G) = {}
  /\ IsLeftToProof(b) => IsFound(u, times)
UsageInv ==
  /\ \E S : usages \in Seq(S)
  /\ stage \in {"extract", "track", "validate"} => usages = <<>>
  /\ \A j \in DOMAIN usages : Tells(usages[j], Times(j))

\* What is under analysis while the usages are classified is the object of the
\* usage at hand, which has no method yet.
ClassifyInv ==
  stage \in {"classify", "reclassify"} /\ object # NoName =>
    at \in DOMAIN usages /\ object = usages[at].object /\ ToClassify(usages[at]) /\ Finding

\* What a usage tells depends on the package and its registrations only.
LEMMA SameTells ==
  ASSUME UNCHANGED <<code, input, registrations>>
  PROVE  /\ \A b : Object(b)' = Object(b) /\ Method(b)' = Method(b)
         /\ \A u, k : Tells(u, k)' <=> Tells(u, k)
<1>1. \A b : Object(b)' = Object(b)
  BY SameAsk
<1>2. \A b : Pairs(b)' = Pairs(b)
  BY <1>1 DEF Pairs
<1>3. ASSUME NEW b PROVE Method(b)' = Method(b)
  <2>1. Pairs(b)' = Pairs(b) /\ Declared(b)' = Declared(b)
    BY <1>2 DEF Declared
  <2> QED
    BY <2>1 DEF Method
<1>4. \A n, G : MethodsOf(n, G)' = MethodsOf(n, G)
  BY SameCode
<1>5. \A b : (IsReexport(b)' <=> IsReexport(b)) /\ (IsLeftToProof(b)' <=> IsLeftToProof(b))
  BY <1>3 DEF IsReexport, IsLeftToProof
<1>6. ASSUME NEW u, NEW k PROVE Tells(u, k)' <=> Tells(u, k)
  <2>1. IsFound(u, k)' <=> IsFound(u, k)
    BY <1>4 DEF IsFound, Chosen, Own
  <2> QED
    BY <1>1, <1>4, <1>5, <2>1 DEF Tells
<1> QED
  BY <1>1, <1>3, <1>6

\* Usages are of the blocks that are merged, in stages that come later.
LEMMA ClassifyStays ==
  ASSUME InputInv, AskInv, AnalyzerInv, UsageInv, ClassifyInv, [Next]_vars
  PROVE  ClassifyInv'
<1>1. CASE stage' \notin {"classify", "reclassify"} \/ object' = NoName
  BY <1>1 DEF ClassifyInv, NoName
<1>2. CASE ClassifyUsage
  <2>1. /\ stage \in {"classify", "reclassify"} /\ at <= Len(usages) /\ chain = <<>> /\ answer = NoAnswer
        /\ Analyze(usages[at].object) /\ usages[at].object # NoName /\ ToClassify(usages[at])
        /\ UNCHANGED <<code, stage, at, usages>>
    BY <1>2, ItemsAre, CodeStays DEF ClassifyUsage, Classifying, ClassifyStages, Busy, Idle, ToClassify, model
  <2>2. at \in DOMAIN usages
    BY <2>1, LenProperties DEF UsageInv, InputInv
  <2>3. PICK n : n = usages[at].object
    OBVIOUS
  <2>4. PICK b \in Range(input.blocks) : n = Object(b)
    BY <2>2, <2>3 DEF UsageInv, Tells, Range
  <2>5. b \in Block /\ IsBlockOf(b, code)
    BY LenProperties, ElementOfSeq DEF InputInv, Range
  <2>6. n \in Names \ {NoName} /\ Analyze(n)
    BY <2>1, <2>3, <2>4, <2>5, UnusedIsNone DEF AnalyzerInv, Analyze, Resolve
  <2>7. Finding' /\ object' = n
    BY <2>1, <2>6, AnalysisStarts DEF Analyze
  <2> QED
    BY <2>1, <2>2, <2>3, <2>7 DEF ClassifyInv, ToClassify
<1>3. CASE Analyzer
  <2>1. stage' = stage /\ at' = at /\ object' = object /\ usages' = usages /\ AnalyzerStep
    BY <1>3, ObjectStays DEF Analyzer, model
  <2> QED
    BY <2>1, AnalyzerFinds DEF ClassifyInv, ToClassify
<1>4. CASE Built \/ UNCHANGED vars
  <2>1. UNCHANGED <<stage, at, usages, analyzer>>
    BY <1>4 DEF Built, vars, model
  <2>2. UNCHANGED <<code, provider, chain, answer, object, split, verdict, Candidate, Question>>
    BY <2>1 DEF analyzer, Candidate, Question
  <2>3. Finding => Finding'
    BY <2>2, SameCode DEF Finding
  <2> QED
    BY <2>1, <2>2, <2>3 DEF ClassifyInv, ToClassify
<1>5. CASE ~(ClassifyUsage \/ Analyzer \/ Built \/ UNCHANGED vars)
  <2>1. stage' \notin {"classify", "reclassify"} \/ object' = NoName
    <3>1. CASE ExtractCall \/ TrackS7 \/ ValidateTarget \/ MergeBlock \/ NameReexport \/ CollectTag \/ AskExport
                 \/ AskFunction
      BY <3>1 DEF ExtractCall, TrackS7, ValidateTarget, MergeBlock, NameReexport, CollectTag, AskExport,
                  AskFunction, Advance, Busy
    <3>2. CASE SkipUsage
      BY <3>2 DEF SkipUsage, Idle, analyzer
    <3>3. CASE TakeUsageVerdict \/ TakeExportVerdict \/ TakeFunctionAnswer
      BY <3>3 DEF TakeUsageVerdict, TakeExportVerdict, TakeFunctionAnswer, Dismiss
    <3>4. CASE Render
      BY <3>4 DEF Render
    <3>5. CASE EndStage
      <4>1. stage' = "classify" => stage = "merge" /\ UNCHANGED analyzer
        BY <3>5, FollowingIs DEF EndStage, InputInv, StageNames
      <4>2. stage' = "reclassify" => object' = NoName
        BY <3>5 DEF EndStage, Renew
      <4> QED
        BY <4>1, <4>2 DEF AskInv, analyzer
    <3> QED
      BY <1>5, <3>1, <3>2, <3>3, <3>4, <3>5 DEF Next
  <2> QED
    BY <1>1, <2>1
<1> QED
  BY <1>2, <1>3, <1>4, <1>5

\* A step that leaves the usages alone keeps what they tell, when none has been
\* classified once more.
LEMMA UsagesFrame ==
  ASSUME UsageInv, UNCHANGED <<code, input, registrations, usages>>,
         stage' \in {"extract", "track", "validate"} => stage \in {"extract", "track", "validate"},
         \A j \in DOMAIN usages : Times(j)' = Times(j)
  PROVE  UsageInv'
<1>1. ASSUME NEW j \in DOMAIN usages PROVE Tells(usages[j], Times(j))'
  <2>1. PICK u, c : u = usages[j] /\ c = Times(j)
    OBVIOUS
  <2>2. Tells(u, c)
    BY <2>1 DEF UsageInv
  <2>3. Tells(u, c)'
    BY <2>2, SameTells
  <2>4. usages'[j] = u /\ Times(j)' = c
    BY <2>1
  <2> QED
    BY <2>3, <2>4 DEF Tells, IsFound, Chosen, Own
<1> QED
  BY <1>1 DEF UsageInv

\* A block that is merged adds its usage, which is not classified yet.
LEMMA UsageJoins ==
  ASSUME InputInv, code \in Code, UsageInv, [Next]_vars, MergeBlock
  PROVE  UsageInv'
<1> DEFINE b == input.blocks[at]
           u == [block |-> at, object |-> Object(b), method |-> Method(b), generated |-> HasUsage(b)]
<1>1. /\ stage = "merge" /\ stage' = "merge" /\ at \in DOMAIN input.blocks
      /\ usages' = IF ~b.documented THEN usages ELSE Append(usages, u)
      /\ UNCHANGED <<code, input, registrations>>
  BY CodeStays, ItemsAre, LenProperties DEF MergeBlock, Busy, Advance, InputInv
<1>2. \A j : Times(j) = 0 /\ Times(j)' = 0
  BY <1>1 DEF Times, Later
<1>3. CASE ~b.documented
  <2>1. usages' = usages
    BY <1>1, <1>3
  <2> QED
    BY <1>1, <1>2, <2>1, UsagesFrame
<1>4. CASE b.documented
  <2>1. b \in Block /\ IsBlockOf(b, code) /\ b = input.blocks[u.block] /\ u.block \in DOMAIN input.blocks
    BY <1>1, LenProperties, ElementOfSeq DEF InputInv, Range
  <2>2. Tells(u, 0)
    <3>1. ~IsReexport(b) /\ (u.object = NoName \/ ~u.generated) => \A G : MethodsOf(u.object, G) = {}
      BY <2>1, UnusedIsNone
    <3>2. Method(b) = NoMethod => u.method = NoMethod
      OBVIOUS
    <3>3. u.object = Object(b) /\ "method" \in DOMAIN u
      OBVIOUS
    <3> HIDE DEF b, u
    <3> QED
      BY <2>1, <3>1, <3>2, <3>3 DEF Tells, IsFound, IsLeftToProof
  <2> HIDE DEF u
  <2>3. PICK S : usages \in Seq(S)
    BY DEF UsageInv
  <2>4. usages \in Seq(S \cup {u}) /\ Len(usages) \in Nat /\ DOMAIN usages = 1 .. Len(usages)
    BY <2>3, SeqMonotonic, LenProperties
  <2>5. usages' = Append(usages, u)
    BY <1>1, <1>4
  <2>6. /\ usages' \in Seq(S \cup {u}) /\ Len(usages') = Len(usages) + 1
        /\ \A j \in 1 .. Len(usages) : usages'[j] = usages[j]
        /\ usages'[Len(usages) + 1] = u
    BY <2>4, <2>5, AppendProperties
  <2>7. DOMAIN usages' = 1 .. Len(usages) + 1
    BY <2>6, LenProperties
  <2>8. ASSUME NEW j \in DOMAIN usages' PROVE Tells(usages[j], Times(j))'
    <3>1. PICK x : x = usages'[j]
      OBVIOUS
    <3>2. Tells(x, 0)
      <4>1. CASE j = Len(usages) + 1
        BY <2>2, <2>6, <3>1, <4>1
      <4>2. CASE j # Len(usages) + 1
        <5>1. j \in DOMAIN usages /\ x = usages[j]
          BY <2>4, <2>6, <2>7, <3>1, <4>2
        <5> QED
          BY <1>2, <5>1 DEF UsageInv, Tells
      <4> QED
        BY <4>1, <4>2
    <3>3. Tells(x, 0)'
      BY <1>1, <3>2, SameTells
    <3> QED
      BY <1>2, <3>1, <3>3 DEF Tells, IsFound, Chosen, Own
  <2> QED
    BY <1>1, <2>6, <2>8 DEF UsageInv
<1> QED
  BY <1>3, <1>4

\* A usage that is skipped is of no other method than it has already.
LEMMA SkippedIsFound ==
  ASSUME NEW u, NEW k \in {0, 1}, Tells(u, k), ~ToClassify(u)
  PROVE  Tells(u, k + 1)
<1> DEFINE b == input.blocks[u.block]
<1> SUFFICES ASSUME IsLeftToProof(b) PROVE IsFound(u, k + 1)
  BY DEF Tells
<1>1. IsFound(u, k) /\ (u.object = NoName \/ ~u.generated => \A G : MethodsOf(u.object, G) = {})
  BY DEF Tells, IsLeftToProof
<1>2. CASE u.method # NoMethod
  BY <1>1, <1>2 DEF IsFound, Chosen
<1>3. CASE u.method = NoMethod
  BY <1>1, <1>3 DEF IsFound, Chosen, Own, ToClassify
<1> QED
  BY <1>2, <1>3

\* The method that a usage is given is the one its object is.
LEMMA GivenIsFound ==
  ASSUME NEW u, NEW v, NEW k \in {0, 1}, Tells(u, k), ToClassify(u),
         "method" \in DOMAIN v, v.block = u.block, v.object = u.object, v.generated = u.generated,
         Chosen(v) = MethodsOf(u.object, IF k = 0 THEN {} ELSE code.installed)
  PROVE  Tells(v, k + 1)
<1>1. u.method = NoMethod /\ Chosen(u) = {}
  BY DEF ToClassify, Chosen
<1>2. IsFound(u, k) => IsFound(v, k + 1)
  <2>1. CASE k = 0
    BY <2>1 DEF IsFound, Own
  <2>2. CASE k = 1
    BY <1>1, <2>2 DEF IsFound
  <2> QED
    BY <2>1, <2>2
<1> QED
  BY <1>2 DEF Tells

\* A usage that is skipped, or gets its verdict, has been classified once more.
LEMMA UsageSettles ==
  ASSUME InputInv, AskInv, ProviderInv, UsageInv, ClassifyInv, [Next]_vars, SkipUsage \/ TakeUsageVerdict
  PROVE  UsageInv'
<1> DEFINE before == IF stage = "classify" THEN 0 ELSE 1
<1>1. /\ stage \in {"classify", "reclassify"} /\ stage' = stage /\ at' = at + 1
      /\ at \in DOMAIN usages /\ at \in Nat
      /\ UNCHANGED <<code, input, registrations>>
  <2>1. /\ stage \in {"classify", "reclassify"} /\ stage' = stage /\ at' = at + 1
        /\ at <= Len(usages) /\ at \in Nat \ {0}
        /\ UNCHANGED <<code, input, registrations>>
    BY CodeStays, ItemsAre DEF SkipUsage, TakeUsageVerdict, Classifying, ClassifyStages, Busy, Advance,
         InputInv, model
  <2> QED
    BY <2>1, LenProperties DEF UsageInv
<1>2. PICK S : usages \in Seq(S)
  BY DEF UsageInv
<1>3. DOMAIN usages = 1 .. Len(usages) /\ Len(usages) \in Nat
  BY <1>2, LenProperties
<1>4. PICK u, now : u = usages[at] /\ now = at
  OBVIOUS
<1>5. before \in {0, 1} /\ Times(now) = before /\ Times(now)' = before + 1
  <2>0. ~(now < at) /\ now < at'
    BY <1>1, <1>4
  <2>1. CASE stage = "classify"
    BY <1>1, <2>0, <2>1 DEF Times, Later
  <2>2. CASE stage = "reclassify"
    BY <1>1, <2>0, <2>2 DEF Times, Later
  <2> QED
    BY <1>1, <2>1, <2>2
<1>6. Tells(u, before)
  <2>1. Tells(usages[at], Times(at))
    BY <1>1 DEF UsageInv
  <2> QED
    BY <1>4, <1>5, <2>1
<1>7. stage = "classify" => provider = {}
  BY DEF ProviderInv
<1>8. stage = "reclassify" => provider = code.installed
  BY DEF ProviderInv
<1> HIDE DEF before
<1>9. PICK v : usages' = [usages EXCEPT ![at] = v] /\ Tells(v, before + 1)
  <2>2. CASE SkipUsage
    <3>1. ~ToClassify(u) /\ usages' = usages
      BY <1>4, <2>2 DEF SkipUsage, model
    <3>2. usages = [usages EXCEPT ![at] = u]
      BY <1>2, <1>4
    <3>3. Tells(u, before + 1)
      BY <1>5, <1>6, <3>1, SkippedIsFound
    <3> QED
      BY <3>1, <3>2, <3>3
  <2>3. CASE TakeUsageVerdict
    <3>1. /\ object # NoName /\ verdict # "none"
          /\ usages' = IF verdict = "method" THEN [usages EXCEPT ![at].method = Candidate] ELSE usages
      BY <2>3 DEF TakeUsageVerdict
    <3>2. object = u.object /\ Finding /\ ToClassify(u)
      BY <1>1, <1>4, <3>1 DEF ClassifyInv
    <3>3. /\ verdict = "method" => MethodsOf(object, provider) = {Candidate} /\ Candidate # NoMethod
          /\ verdict # "method" => MethodsOf(object, provider) = {}
      BY <3>1, <3>2, VerdictIsMethod DEF AskInv
    <3>4. provider = IF before = 0 THEN {} ELSE code.installed
      BY <1>1, <1>7, <1>8 DEF before
    <3>5. CASE verdict = "method"
      <4> DEFINE v == [u EXCEPT !.method = Candidate]
      <4>1. usages' = [usages EXCEPT ![at] = v]
        BY <1>4, <3>1, <3>5
      <4>2. v.block = u.block /\ v.object = u.object /\ v.generated = u.generated
        OBVIOUS
      <4>3. v.method = Candidate /\ "method" \in DOMAIN v
        BY <1>6 DEF Tells
      <4> HIDE DEF v
      <4>4. Chosen(v) = MethodsOf(u.object, provider)
        BY <3>2, <3>3, <3>5, <4>3 DEF Chosen
      <4>5. Tells(v, before + 1)
        BY <1>5, <1>6, <3>2, <3>4, <4>2, <4>3, <4>4, GivenIsFound
      <4> QED
        BY <4>1, <4>5
    <3>6. CASE verdict # "method"
      <4>1. usages = [usages EXCEPT ![at] = u] /\ usages' = usages
        BY <1>2, <1>4, <3>1, <3>6
      <4>2. Chosen(u) = MethodsOf(u.object, provider)
        BY <3>2, <3>3, <3>6 DEF Chosen, ToClassify
      <4>3. "method" \in DOMAIN u
        BY <1>6 DEF Tells
      <4>4. Tells(u, before + 1)
        BY <1>5, <1>6, <3>2, <3>4, <4>2, <4>3, GivenIsFound
      <4> QED
        BY <4>1, <4>4
    <3> QED
      BY <3>5, <3>6
  <2> QED
    BY <2>2, <2>3
<1>10. usages' \in Seq(S \cup {v}) /\ DOMAIN usages' = DOMAIN usages
  BY <1>1, <1>2, <1>9, SeqMonotonic, ExceptSeq
<1>11. ASSUME NEW j \in DOMAIN usages PROVE Tells(usages[j], Times(j))'
  <2>1. PICK x, k : x = usages'[j] /\ k = Times(j)'
    OBVIOUS
  <2>2. CASE j = at
    <3>1. x = v /\ k = before + 1
      BY <1>1, <1>4, <1>5, <1>9, <2>1, <2>2
    <3>2. Tells(x, k)'
      BY <1>1, <1>9, <3>1, SameTells
    <3> QED
      BY <2>1, <3>2 DEF Tells, IsFound, Chosen, Own
  <2>3. CASE j # at
    <3>1. x = usages[j]
      BY <1>9, <2>1, <2>3
    <3>2. k = Times(j)
      <4>1. (j < at + 1) <=> (j < at)
        BY <1>1, <1>3, <2>3
      <4> QED
        BY <1>1, <2>1, <4>1 DEF Times
    <3>3. Tells(x, k)
      BY <3>1, <3>2 DEF UsageInv
    <3>4. Tells(x, k)'
      BY <1>1, <3>3, SameTells
    <3> QED
      BY <2>1, <3>4 DEF Tells, IsFound, Chosen, Own
  <2> QED
    BY <2>2, <2>3
<1> QED
  BY <1>1, <1>10, <1>11 DEF UsageInv

\* Every step keeps what usages tell.
LEMMA UsageStays ==
  ASSUME InputInv, AskInv, code \in Code, ProviderInv, UsageInv, ClassifyInv, [Next]_vars
  PROVE  UsageInv'
<1> DEFINE Unused == {"extract", "track", "validate"}
<1>1. PICK S : usages \in Seq(S)
  BY DEF UsageInv
<1>2. DOMAIN usages = 1 .. Len(usages) /\ Len(usages) \in Nat /\ at \in Nat \ {0} /\ stage \in StageNames
  BY <1>1, LenProperties DEF InputInv
<1>3. CASE MergeBlock
  BY <1>3, UsageJoins
<1>4. CASE SkipUsage \/ TakeUsageVerdict
  BY <1>4, UsageSettles
<1>5. CASE ~(MergeBlock \/ SkipUsage \/ TakeUsageVerdict)
  <2>1. UNCHANGED <<code, input, usages>>
    BY <1>5, MadeBy, CodeStays
  <2>2. CASE usages = <<>> /\ ~ExtractCall
    <3>1. DOMAIN usages = {}
      BY <2>2
    <3> QED
      BY <1>1, <2>1, <2>2, <3>1 DEF UsageInv
  <2>3. CASE ExtractCall
    <3>1. usages = <<>>
      BY <2>3 DEF ExtractCall, Busy, UsageInv
    <3>2. DOMAIN usages = {}
      BY <3>1
    <3> QED
      BY <1>1, <2>1, <3>1, <3>2 DEF UsageInv
  <2>4. CASE usages # <<>> /\ ~ExtractCall
    <3>1. stage \notin Unused /\ registrations' = registrations
      BY <2>4, MadeBy DEF UsageInv
    <3>2. /\ stage' \notin Unused
          /\ \A j \in DOMAIN usages : Times(j)' = Times(j)
      <4>1. CASE Stays
        BY <3>1, <4>1 DEF Stays, Times, Later
      <4>2. CASE Advance
        <5>1. stage \notin {"classify", "reclassify"} \/ Stays \/ EndStage
          BY <1>5 DEF Next, ExtractCall, TrackS7, ValidateTarget, ClassifyUsage, NameReexport, CollectTag,
               AskExport, TakeExportVerdict, AskFunction, TakeFunctionAnswer, Render, Analyzer, Built, vars,
               Busy, Classifying, ClassifyStages, Stays
        <5>2. ~Stays /\ ~EndStage
          BY <1>2, <4>2 DEF Stays, EndStage, Advance
        <5> QED
          BY <3>1, <4>2, <5>1, <5>2 DEF Advance, Times, Later
      <4>3. CASE Render
        BY <4>3 DEF Render, Times, Later
      <4>4. CASE EndStage
        <5>1. stage' = Following(stage) /\ at' = 1 /\ stage \notin {"render", "done"} /\ at > Items(stage)
          BY <4>4 DEF EndStage
        <5>2. CASE stage = "classify"
          <6>1. at > Len(usages) /\ stage' = "reclassify"
            BY <5>1, <5>2, FollowingIs, ItemsAre
          <6> QED
            BY <1>2, <5>1, <5>2, <6>1 DEF Times, Later
        <5>3. CASE stage = "merge"
          BY <1>2, <5>1, <5>3, FollowingIs DEF Times, Later
        <5>4. CASE stage = "reclassify"
          <6>1. at > Len(usages) /\ stage' = "reexport"
            BY <5>1, <5>4, FollowingIs, ItemsAre
          <6> QED
            BY <1>2, <5>4, <6>1 DEF Times, Later
        <5>5. CASE stage \in {"reexport", "collect"}
          BY <1>2, <5>1, <5>5, FollowingIs DEF Times, Later
        <5> QED
          BY <1>2, <3>1, <5>1, <5>2, <5>3, <5>4, <5>5 DEF StageNames
      <4> QED
        BY <4>1, <4>2, <4>3, <4>4, CodeStays
    <3> QED
      BY <2>1, <3>1, <3>2, UsagesFrame
  <2> QED
    BY <2>2, <2>3, <2>4
<1> QED
  BY <1>3, <1>4, <1>5

\* A function that splits at a generic is a method.
LEMMA SomeMethod ==
  ASSUME NEW n \in Names, NEW G, IsProvenFunction(n), NEW j \in 1 .. Len(n) - 1,
         IsSplit(n, Cut(n, j)), IsProvenGeneric(Cut(n, j).generic, G)
  PROVE  \E m : MethodsOf(n, G) = {m}
<1> DEFINE S == {t \in Tries(n) : IsProvenGeneric(SplitAt(n, t).generic, G)}
<1>1. S \subseteq Nat
  BY LenProperties, TriesAre DEF Names
<1>2. j + 1 \in S
  BY TriesAre
<1>3. PICK t \in S : \A u \in S : t <= u
  BY <1>1, <1>2, LeastExists
<1>4. Fruitless(n, t, G)
  <2>1. \A u \in Tries(n) : u \in Nat
    BY LenProperties, TriesAre DEF Names
  <2>2. \A u \in Tries(n) : u < t => u \notin S
    BY <1>1, <1>3, <2>1
  <2> QED
    BY <2>2 DEF Fruitless
<1>5. MethodsOf(n, G) = {SplitAt(n, t)}
  BY <1>3, <1>4, MethodFound
<1> QED
  BY <1>5

\* A function that is a method by the generics of the package is one by those
\* installed too; another one only at an installed generic that the package
\* does not bind.
LEMMA OwnMethod ==
  ASSUME NEW n \in Names, NEW G, NEW own, MethodsOf(n, {}) = {own}
  PROVE  /\ FactsOf(code, own.generic) # {}
         /\ \E m : /\ MethodsOf(n, G) = {m}
                   /\ m = own \/ (FactsOf(code, m.generic) = {} /\ m.generic \in G)
<1>1. PICK j \in 1 .. Len(n) - 1 : own = Cut(n, j)
  BY MethodsAre
<1>2. IsMethod(n, own, {})
  BY DEF MethodsOf
<1>3. IsProvenFunction(n) /\ IsSplit(n, own) /\ IsProvenGeneric(own.generic, {})
  BY <1>2 DEF IsMethod
<1>4. FactsOf(code, own.generic) # {} /\ \A g : IsProvenGeneric(g, {}) => IsProvenGeneric(g, G)
  BY <1>3 DEF IsProvenGeneric
<1>5. PICK m : MethodsOf(n, G) = {m}
  BY <1>1, <1>3, <1>4, SomeMethod
<1>6. m \in SplitsOf(n) /\ IsMethod(n, m, G)
  BY <1>5 DEF MethodsOf
<1>7. CASE FactsOf(code, m.generic) # {}
  <2>1. IsProvenGeneric(m.generic, {})
    BY <1>6, <1>7 DEF IsMethod, IsProvenGeneric
  <2>2. IsMethod(n, m, {})
    BY <1>4, <1>6, <2>1 DEF IsMethod
  <2>3. m \in MethodsOf(n, {})
    BY <1>6, <2>2 DEF MethodsOf
  <2> QED
    BY <1>4, <1>5, <2>3
<1>8. CASE FactsOf(code, m.generic) = {}
  BY <1>4, <1>5, <1>6, <1>8 DEF IsMethod, IsProvenGeneric
<1> QED
  BY <1>7, <1>8

\* At the end every usage has been classified twice.
LEMMA UsageIs ==
  ASSUME UsageInv, stage = "done", NEW j \in DOMAIN usages,
         IsLeftToProof(input.blocks[usages[j].block])
  PROVE  LET n == Object(input.blocks[usages[j].block])
         IN  Chosen(usages[j]) = IF Own(n) # {} THEN Own(n) ELSE MethodsOf(n, code.installed)
<1>1. Times(j) = 2
  BY DEF Times, Later
<1>2. Tells(usages[j], 2)
  BY <1>1 DEF UsageInv
<1> QED
  BY <1>2 DEF Tells, IsFound

\* It shows what is chosen for it.
LEMMA ShownIs ==
  ASSUME NEW u
  PROVE  Shown(u) = {Says(m) : m \in Chosen(u)} /\ Cardinality(Chosen(u)) <= 1
<1>1. CASE u.method = NoMethod
  BY <1>1, FS_EmptySet DEF Shown, Chosen
<1>2. CASE u.method # NoMethod
  <2>1. Chosen(u) = {u.method} /\ Shown(u) = {Says(u.method)}
    BY <1>2 DEF Chosen, Shown
  <2>2. Cardinality({u.method}) = 1 /\ {Says(m) : m \in {u.method}} = {Says(u.method)}
    BY FS_Singleton
  <2> QED
    BY <2>1, <2>2
<1> QED
  BY <1>1, <1>2

LEMMA UsageMeans ==
  ASSUME UsageInv
  PROVE  UsagesAreProven
<1> SUFFICES ASSUME stage = "done", NEW j \in DOMAIN usages,
                    IsLeftToProof(input.blocks[usages[j].block])
             PROVE  LET n == Object(input.blocks[usages[j].block])
                        proven == IF MethodsOf(n, {}) # {} THEN MethodsOf(n, {})
                                  ELSE MethodsOf(n, code.installed)
                    IN  Shown(usages[j]) = {Says(m) : m \in proven} /\ Cardinality(proven) <= 1
  BY DEF UsagesAreProven, Range
<1> QED
  BY UsageIs, ShownIs DEF Own

\* And every bare export is collected.
LEMMA UsageMeets ==
  ASSUME InputInv, code \in Code, UsageInv, ProvenInv
  PROVE  UsagesMeetNamespace
<1> SUFFICES ASSUME stage = "done", NEW j \in DOMAIN usages, NEW k \in BareExports,
                    requests[k].block = usages[j].block, IsLeftToProof(input.blocks[usages[j].block]),
                    Registered(k) # Shown(usages[j])
             PROVE  \E m \in MethodsOf(Object(input.blocks[usages[j].block]), code.installed) :
                      /\ Registered(k) = {Says(m)} /\ usages[j].method # NoMethod
                      /\ FactsOf(code, usages[j].method.generic) # {}
                      /\ FactsOf(code, m.generic) = {} /\ m.generic \in code.installed
  BY DEF UsagesMeetNamespace, Range
<1>1. PICK u, n : u = usages[j] /\ n = Object(input.blocks[u.block])
  OBVIOUS
<1>2. k \in DOMAIN requests /\ AsksExport(requests[k]) /\ n = Object(BlockOf(requests[k]))
  BY <1>1 DEF BareExports, BlockOf
<1>3. n \in Names
  BY <1>2, ObjectIs
<1>4. Registered(k) = {Says(m) : m \in MethodsOf(n, code.installed)}
  <2>1. SaidOf(k) = Proven(n)
    BY <1>2 DEF ProvenInv, IsCollected
  <2>2. /\ \A m : Says(m).kind = "S3method"
        /\ \A x : Directive("export", NoWord, x).kind # "S3method"
    BY DEF Says, Directive
  <2> QED
    BY <2>1, <2>2 DEF Proven, Registered
<1>5. Shown(u) = {Says(m) : m \in Chosen(u)}
  BY ShownIs
<1>6. Chosen(u) = IF Own(n) # {} THEN Own(n) ELSE MethodsOf(n, code.installed)
  BY <1>1, UsageIs
<1>7. Own(n) # {} /\ Chosen(u) = Own(n)
  BY <1>1, <1>4, <1>5, <1>6
<1>8. u.method # NoMethod /\ MethodsOf(n, {}) = {u.method}
  BY <1>7 DEF Chosen, Own
<1>9. FactsOf(code, u.method.generic) # {}
  BY <1>3, <1>8, OwnMethod
<1>10. PICK m : /\ MethodsOf(n, code.installed) = {m}
                /\ m = u.method \/ (FactsOf(code, m.generic) = {} /\ m.generic \in code.installed)
  BY <1>3, <1>8, OwnMethod
<1>11. Registered(k) = {Says(m)}
  BY <1>4, <1>10
<1>12. m # u.method
  BY <1>1, <1>5, <1>7, <1>8, <1>11 DEF Own
<1> QED
  BY <1>1, <1>8, <1>9, <1>10, <1>11, <1>12

\* Whatever a package assigns, in whatever files, the walks along its
\* assignments agree with R: what the analyzer remembers is certain, the
\* formals and functions that bindings.rs finds are those of the assignment at
\* the end of the aliases, and an S7 block documents the class of the latest
\* assignment.  So a usage is written as the method that its object is by the
\* generics of the package alone, or else by those installed too; and it is a
\* method exactly when NAMESPACE registers its object as one, which is another
\* one only over an installed generic that the package does not bind
\* (S3Analyzer::resolve, binding_function_formals and its siblings,
\* s7_binding_results, classify_usage_methods).
THEOREM WalksMeet == Spec => []WalksAgree
<1> DEFINE Inv == ExportInv /\ TrackInv /\ UsageInv /\ ClassifyInv
<1>1. Init => Inv
  <2> SUFFICES ASSUME Init PROVE Inv
    OBVIOUS
  <2>1. IsInFileOrder(code)
    BY FamiliesAssumption DEF Init
  <2>2. stage = "extract" /\ s7 = <<>> /\ usages = <<>> /\ object = NoName
    BY DEF Init, NewAnalyzer
  <2>3. code \in Code
    BY FamiliesAssumption DEF Init
  <2>4. s7 \in Seq(Nat) /\ Len(s7) = 0 /\ DOMAIN s7 = {} /\ Len(code.facts) \in Nat
    BY <2>2, <2>3, LenProperties DEF Code
  <2>5. TrackInv
    BY <2>1, <2>2, <2>4 DEF TrackInv, S7FollowsTheLatest
  <2>6. usages \in Seq({}) /\ DOMAIN usages = {}
    BY <2>2
  <2>7. UsageInv /\ ClassifyInv
    BY <2>2, <2>6 DEF UsageInv, ClassifyInv
  <2> QED
    BY <2>5, <2>7, ExportStarts
<1>2. Inv /\ [Next]_vars => Inv'
  <2> SUFFICES ASSUME Inv, [Next]_vars PROVE Inv'
    OBVIOUS
  <2>1. InputInv /\ AskInv /\ AnalyzerInv /\ ProviderInv /\ code \in Code
    BY DEF ExportInv, ReachInv, AnalyzerInv
  <2> QED
    BY <2>1, ExportKeeps, TrackStays, UsageStays, ClassifyStays
<1>3. Inv => WalksAgree
  <2> SUFFICES ASSUME Inv PROVE WalksAgree
    OBVIOUS
  <2>1. MemoIsMeaning /\ code \in Code
    BY DEF ExportInv, AnalyzerInv
  <2>2. AliasesAreCertain
    BY <2>1, WalksFind DEF AliasesAreCertain, IsEnd, FoundAt
  <2>3. S7FollowsTheLatest
    BY DEF TrackInv
  <2>4. UsagesAreProven /\ UsagesMeetNamespace
    BY <2>1, UsageMeans, UsageMeets DEF ExportInv, ReachInv
  <2> QED
    BY <2>1, <2>2, <2>3, <2>4 DEF WalksAgree
<1> QED
  BY <1>1, <1>2, <1>3, PTL DEF Spec

-----------------------------------------------------------------------------
(* Matching the arguments of a registrar call *)

\* The slot of a named argument is the role with its name.
LEMMA SlotIs ==
  ASSUME NEW roles \in Seq(Roles), NEW name
  PROVE  /\ SlotOf(roles, name) \in Nat \ {0}
         /\ SlotOf(roles, name) <= Len(roles) =>
              SlotOf(roles, name) \in DOMAIN roles /\ roles[SlotOf(roles, name)] = name
         /\ \A j \in DOMAIN roles : roles[j] = name =>
              SlotOf(roles, name) \in DOMAIN roles /\ roles[SlotOf(roles, name)] = name
<1>1. Len(roles) \in Nat /\ DOMAIN roles = 1 .. Len(roles)
  BY LenProperties
<1>2. CASE \E j \in DOMAIN roles : roles[j] = name
  <2>1. SlotOf(roles, name) \in DOMAIN roles /\ roles[SlotOf(roles, name)] = name
    BY <1>2 DEF SlotOf
  <2> DEFINE j == SlotOf(roles, name)
  <2>2. j \in DOMAIN roles /\ roles[j] = name
    BY <2>1
  <2> HIDE DEF j
  <2>3. j \in Nat \ {0}
    BY <1>1, <2>2
  <2> QED
    BY <2>2, <2>3, Zenon DEF j
<1>3. CASE ~ \E j \in DOMAIN roles : roles[j] = name
  <2>1. SlotOf(roles, name) = Len(roles) + 1
    BY <1>3 DEF SlotOf
  <2> DEFINE j == SlotOf(roles, name)
  <2>2. j = Len(roles) + 1
    BY <2>1
  <2> HIDE DEF j
  <2>3. j \in Nat \ {0} /\ ~ (j <= Len(roles))
    BY <1>1, <2>2
  <2> QED
    BY <1>3, <2>3, Zenon DEF j
<1> QED
  BY <1>2, <1>3

\* What a matching is about: slots for the roles.
Slots(roles) == [1 .. Len(roles) -> Nat]
MatchingOf(roles) == [slots : Slots(roles), next : Nat \ {0}, failed : BOOLEAN]

\* The first free slot from a place on.
LEMMA FreeIs ==
  ASSUME NEW L \in Nat, NEW slots \in [1 .. L -> Nat], NEW k \in Nat \ {0}
  PROVE  /\ FreeFrom(slots, k) \in Nat \ {0}
         /\ FreeFrom(slots, k) <= L =>
              /\ FreeFrom(slots, k) \in 1 .. L /\ FreeFrom(slots, k) >= k
              /\ slots[FreeFrom(slots, k)] = Unassigned
              /\ \A i \in k .. FreeFrom(slots, k) - 1 : slots[i] # Unassigned
<1> DEFINE K == {j \in 1 .. L : j >= k /\ slots[j] = Unassigned}
           Least(j) == /\ j >= k /\ slots[j] = Unassigned
                       /\ \A i \in DOMAIN slots : i >= k /\ slots[i] = Unassigned => j <= i
<1>0. DOMAIN slots = 1 .. L /\ Len(slots) = L
  <2>1. slots \in Seq(Nat)
    BY SeqDef
  <2> QED
    BY <2>1, LenProperties
<1>1. CASE K # {}
  <2>1. PICK m \in K : \A j \in K : m <= j
    <3> K \in SUBSET Nat
      OBVIOUS
    <3> HIDE DEF K
    <3> QED
      BY <1>1, LeastExists
  <2>2. \E j \in DOMAIN slots : Least(j)
    BY <1>0, <2>1
  <2>3. FreeFrom(slots, k) = CHOOSE j \in DOMAIN slots : Least(j)
    BY <1>0, <1>1 DEF FreeFrom
  <2>4. FreeFrom(slots, k) \in DOMAIN slots /\ Least(FreeFrom(slots, k))
    <3> HIDE DEF Least
    <3> QED
      BY <2>2, <2>3
  <2> QED
    BY <1>0, <2>4
<1>2. CASE K = {}
  <2>1. FreeFrom(slots, k) = L + 1
    BY <1>0, <1>2 DEF FreeFrom
  <2> QED
    BY <2>1
<1> QED
  BY <1>1, <1>2

\* One step of the matching stays a matching.
LEMMA MatchOneTypes ==
  ASSUME NEW call \in Call, NEW roles \in Seq(Roles), NEW k \in DOMAIN call.arguments,
         NEW m \in MatchingOf(roles)
  PROVE  MatchOne(m, roles, k, call.arguments[k]) \in MatchingOf(roles)
<1> DEFINE argument == call.arguments[k]
           free == FreeFrom(m.slots, m.next)
           j == IF argument.name # "" THEN SlotOf(roles, argument.name) ELSE free
<1>1. argument \in Argument /\ argument.name \in STRING /\ k \in Nat
  <2>1. call.arguments \in Seq(Argument)
    BY DEF Call
  <2>2. argument \in Argument /\ k \in Nat
    BY <2>1, LenProperties
  <2> QED
    BY <2>2 DEF Argument
<1>2. /\ Len(roles) \in Nat /\ m.slots \in [1 .. Len(roles) -> Nat] /\ m.next \in Nat \ {0}
      /\ m.failed \in BOOLEAN
  BY LenProperties DEF MatchingOf, Slots
<1>3. j \in Nat \ {0}
  BY <1>1, <1>2, SlotIs, FreeIs
<1>4. \/ MatchOne(m, roles, k, argument) = m
      \/ MatchOne(m, roles, k, argument) = [m EXCEPT !.failed = TRUE]
      \/ MatchOne(m, roles, k, argument) =
           [slots |-> [m.slots EXCEPT ![j] = k], next |-> IF argument.name # "" THEN m.next ELSE j + 1,
            failed |-> FALSE]
  BY DEF MatchOne
<1> HIDE DEF j
<1>5. [m.slots EXCEPT ![j] = k] \in [1 .. Len(roles) -> Nat]
  BY <1>1, <1>2
<1> DEFINE slots == [m.slots EXCEPT ![j] = k]
           next == IF argument.name # "" THEN m.next ELSE j + 1
<1>8. slots \in Slots(roles) /\ next \in Nat \ {0}
  <2>1. m.next \in Nat \ {0} /\ j + 1 \in Nat \ {0}
    BY <1>2, <1>3
  <2>2. next = m.next \/ next = j + 1
    OBVIOUS
  <2> HIDE DEF next
  <2>3. next \in Nat \ {0}
    BY <2>1, <2>2
  <2> QED
    BY <1>5, <2>3 DEF Slots
<1> HIDE DEF slots, next
<1>6. [slots |-> slots, next |-> next, failed |-> FALSE] \in MatchingOf(roles)
  BY <1>8 DEF MatchingOf
<1>7. [m EXCEPT !.failed = TRUE] \in MatchingOf(roles)
  BY DEF MatchingOf
<1> QED
  BY <1>4, <1>6, <1>7 DEF slots, next

\* Before any argument, and after each of them.
NoMatch(roles) ==
  [slots |-> [j \in DOMAIN roles |-> Unassigned], next |-> 1, failed |-> FALSE]
MatchSteps(m, call, roles) ==
  /\ m \in [0 .. Len(call.arguments) -> MatchingOf(roles)]
  /\ m[0] = NoMatch(roles) /\ m[Len(call.arguments)] = MatchArguments(call, roles)
  /\ \A k \in 1 .. Len(call.arguments) :
       m[k] = MatchOne(m[k - 1], roles, k, call.arguments[k])

LEMMA MatchHasSteps ==
  ASSUME NEW call \in Call, NEW roles \in Seq(Roles)
  PROVE  \E m : MatchSteps(m, call, roles)
<1> DEFINE N == Len(call.arguments)
           R == MatchingOf(roles)
           start == NoMatch(roles)
           F == [p \in R \X (1 .. N) |-> MatchOne(p[1], roles, p[2], call.arguments[p[2]])]
           Is(g) == g = [k \in 0 .. N |->
             IF k = 0 THEN start ELSE MatchOne(g[k - 1], roles, k, call.arguments[k])]
           a == CHOOSE h : Is(h)
<1>0. MatchArguments(call, roles) = a[N]
  BY DEF MatchArguments, NoMatch
<1>1. call.arguments \in Seq(Argument) /\ N \in Nat /\ DOMAIN call.arguments = 1 .. N
  BY LenProperties DEF Call
<1>2. \A m \in R : \A k \in 1 .. N : MatchOne(m, roles, k, call.arguments[k]) \in R
  BY <1>1, MatchOneTypes
<1>3. start \in R
  <2>1. DOMAIN roles = 1 .. Len(roles)
    BY LenProperties
  <2> QED
    BY <2>1 DEF MatchingOf, Slots, NoMatch, Unassigned
<1> HIDE DEF R, start
<1>4. F \in Steps(R, N)
  <2> HIDE DEF N
  <2> QED
    BY <1>2 DEF Steps
<1>5. PICK g : IsFold(g, R, N, start, F)
  <2> HIDE DEF F, N
  <2> QED
    BY <1>1, <1>3, <1>4, FoldExists
<1>6. g \in [0 .. N -> R] /\ g[0] = start /\ \A n \in 1 .. N : g[n] = F[<<g[n - 1], n>>]
  <2> HIDE DEF F, N
  <2> QED
    BY <1>5 DEF IsFold
<1> HIDE DEF N
<1>7. ASSUME NEW n \in 1 .. N
      PROVE  g[n] = MatchOne(g[n - 1], roles, n, call.arguments[n])
  <2>1. n - 1 \in 0 .. N
    BY <1>1
  <2>2. g[n - 1] \in R
    BY <1>6, <2>1
  <2> QED
    BY <1>6, <2>2
<1> HIDE DEF F
<1>8. Is(g)
  <2>1. \A n \in 0 .. N : g[n] = IF n = 0 THEN start
          ELSE MatchOne(g[n - 1], roles, n, call.arguments[n])
    BY <1>1, <1>6, <1>7
  <2>2. g = [n \in 0 .. N |-> g[n]]
    BY <1>6
  <2> QED
    BY <2>1, <2>2
<1>9. Is(a)
  BY <1>8
<1> HIDE DEF a
<1>10. a[0] = start /\ \A n \in 1 .. N : a[n] = MatchOne(a[n - 1], roles, n, call.arguments[n])
  BY <1>1, <1>9
<1>11. \A n \in 0 .. N : a[n] \in R
  <2> DEFINE K == {n \in 0 .. N : a[n] \in R}
  <2>1. 0 \in K
    BY <1>1, <1>3, <1>10
  <2>2. \A n \in 1 .. N : n - 1 \in K => n \in K
    BY <1>1, <1>2, <1>10
  <2>3. \A n \in 0 .. N : n \in K
    <3> HIDE DEF K
    <3> QED
      BY <1>1, <2>1, <2>2, UpToBound
  <2> QED
    BY <2>3
<1>12. a \in [0 .. N -> R]
  <2>1. a = [n \in 0 .. N |-> a[n]]
    <3>1. DOMAIN a = 0 .. N
      BY <1>9
    <3> QED
      BY <1>9, <3>1
  <2> QED
    BY <1>11, <2>1
<1> QED
  BY <1>0, <1>10, <1>12 DEF MatchSteps, N, R, start

\* After n arguments that went well: every one of them has a slot, those with
\* a name the slot of that name, the others the first slots that were free.
ByName(call, l) == call.arguments[l].name # ""
MatchInv(m, n, call, roles) ==
  /\ \A j \in 1 .. Len(roles) : m.slots[j] \in 0 .. n
  /\ m.next \in Nat \ {0} /\ m.next <= Len(roles) + 1
  /\ \A l \in 1 .. n : \E j \in 1 .. Len(roles) : m.slots[j] = l
  /\ \A j \in 1 .. Len(roles) : m.slots[j] # 0 /\ ByName(call, m.slots[j]) =>
       roles[j] = call.arguments[m.slots[j]].name
  /\ \A j \in 1 .. Len(roles) : j < m.next => m.slots[j] # 0
  /\ \A j \in 1 .. Len(roles) : m.slots[j] # 0 /\ ~ ByName(call, m.slots[j]) => j < m.next
  /\ \A i, j \in 1 .. Len(roles) :
       i < j /\ m.slots[i] # 0 /\ m.slots[j] # 0 /\ ~ ByName(call, m.slots[i]) /\ ~ ByName(call, m.slots[j])
         => m.slots[i] < m.slots[j]
  /\ \A i, j \in 1 .. Len(roles) : m.slots[i] = m.slots[j] /\ m.slots[i] # 0 => i = j

LEMMA MatchOneKeeps ==
  ASSUME NEW call \in Call, NEW roles \in Seq(Roles), NEW n \in DOMAIN call.arguments,
         NEW m \in MatchingOf(roles), ~ m.failed => MatchInv(m, n - 1, call, roles),
         ~ MatchOne(m, roles, n, call.arguments[n]).failed
  PROVE  ~ m.failed /\ MatchInv(MatchOne(m, roles, n, call.arguments[n]), n, call, roles)
<1> DEFINE argument == call.arguments[n]
           named == argument.name # ""
           j == IF named THEN SlotOf(roles, argument.name) ELSE FreeFrom(m.slots, m.next)
           L == Len(roles)
           new == MatchOne(m, roles, n, argument)
<1>1. argument.name \in STRING /\ n \in Nat \ {0} /\ L \in Nat
  <2>1. call.arguments \in Seq(Argument)
    BY DEF Call
  <2>2. argument \in Argument /\ n \in Nat \ {0}
    BY <2>1, LenProperties
  <2> QED
    BY <2>2, LenProperties DEF Argument
<1>2. /\ m.slots \in [1 .. L -> Nat] /\ m.next \in Nat \ {0} /\ m.failed \in BOOLEAN
  BY DEF MatchingOf, Slots
<1>3. ~ m.failed
  BY DEF MatchOne
<1>4. MatchInv(m, n - 1, call, roles)
  BY <1>3
<1>5. /\ ~ (j > L) /\ (j <= L => m.slots[j] = Unassigned)
      /\ new = [slots |-> [m.slots EXCEPT ![j] = n], next |-> IF named THEN m.next ELSE j + 1,
                failed |-> FALSE]
  <2>1. CASE j > L \/ (j <= L /\ m.slots[j] # Unassigned)
    <3>1. new = [m EXCEPT !.failed = TRUE]
      BY <1>3, <2>1 DEF MatchOne
    <3>2. new.failed
      BY <3>1 DEF MatchingOf
    <3> QED
      BY <3>2
  <2>2. CASE ~ (j > L \/ (j <= L /\ m.slots[j] # Unassigned))
    <3>1. new = [slots |-> [m.slots EXCEPT ![j] = n], next |-> IF named THEN m.next ELSE j + 1,
                 failed |-> FALSE]
      BY <1>3, <2>2 DEF MatchOne
    <3> QED
      BY <2>2, <3>1
  <2> QED
    BY <2>1, <2>2
<1>51. ~ (j > L) /\ (j <= L => m.slots[j] = Unassigned)
  BY <1>5
<1> HIDE DEF L, new
<1>6. /\ j \in 1 .. L /\ m.slots[j] = 0
      /\ named => roles[j] = argument.name
      /\ ~ named => j >= m.next /\ \A i \in m.next .. j - 1 : m.slots[i] # 0
  <2>1. j \in Nat \ {0}
    BY <1>1, <1>2, SlotIs, FreeIs
  <2>2. j \in 1 .. L
    <3> HIDE DEF j
    <3> QED
      BY <1>1, <1>51, <2>1
  <2>3. ASSUME named PROVE roles[j] = argument.name
    <3>1. j = SlotOf(roles, argument.name)
      BY <2>3
    <3>2. j <= Len(roles)
      <4> HIDE DEF j
      <4> QED
        BY <1>1, <2>2 DEF L
    <3> HIDE DEF j
    <3> QED
      BY <1>1, <3>1, <3>2, SlotIs
  <2>4. ASSUME ~ named PROVE j >= m.next /\ \A i \in m.next .. j - 1 : m.slots[i] # 0
    <3>1. j = FreeFrom(m.slots, m.next)
      BY <2>4
    <3>2. j <= L
      <4> HIDE DEF j
      <4> QED
        BY <1>1, <2>2
    <3> HIDE DEF j
    <3> QED
      BY <1>1, <1>2, <3>1, <3>2, FreeIs DEF Unassigned
  <2> HIDE DEF j, named
  <2> QED
    BY <1>1, <1>51, <2>2, <2>3, <2>4 DEF Unassigned
<1> DEFINE slots == [m.slots EXCEPT ![j] = n]
           next == IF named THEN m.next ELSE j + 1
<1>7. new.slots = slots /\ new.next = next
  BY <1>5
<1> HIDE DEF j
<1>8. /\ named <=> ByName(call, n)
      /\ \A i \in 1 .. L : slots[i] = IF i = j THEN n ELSE m.slots[i]
      /\ \A i \in 1 .. L : m.slots[i] \in 0 .. n - 1
  <2>1. named <=> ByName(call, n)
    BY DEF ByName
  <2>2. \A i \in 1 .. L : slots[i] = IF i = j THEN n ELSE m.slots[i]
    BY <1>2
  <2>3. \A i \in 1 .. L : m.slots[i] \in 0 .. n - 1
    BY <1>4 DEF MatchInv, L
  <2> QED
    BY <2>1, <2>2, <2>3
<1> HIDE DEF slots, named
<1>9. MatchInv(m, n - 1, call, roles) /\ L = Len(roles)
  BY <1>4 DEF L
<1>10. \A i \in 1 .. L : slots[i] \in 0 .. n
  BY <1>1, <1>6, <1>8
<1>11. next \in Nat \ {0} /\ next <= L + 1 /\ m.next <= next
  BY <1>1, <1>2, <1>6, <1>9 DEF MatchInv
<1> HIDE DEF next, named
<1>12. ASSUME NEW l \in 1 .. n PROVE \E i \in 1 .. L : slots[i] = l
  <2>1. CASE l = n
    BY <1>6, <1>8, <2>1
  <2>2. CASE l # n
    <3>1. l \in 1 .. n - 1
      BY <1>1, <2>2
    <3>2. PICK i \in 1 .. L : m.slots[i] = l
      BY <1>9, <3>1 DEF MatchInv
    <3> QED
      BY <1>6, <1>8, <3>1, <3>2
  <2> QED
    BY <2>1, <2>2
<1>13. ASSUME NEW i \in 1 .. L, slots[i] # 0, ByName(call, slots[i])
       PROVE  roles[i] = call.arguments[slots[i]].name
  <2>1. CASE i = j
    BY <1>6, <1>8, <1>13, <2>1
  <2>2. CASE i # j
    BY <1>8, <1>9, <1>13, <2>2 DEF MatchInv
  <2> QED
    BY <2>1, <2>2
<1>14. ASSUME NEW i \in 1 .. L, i < next PROVE slots[i] # 0
  <2>1. CASE i = j
    BY <1>1, <1>8, <2>1
  <2>2. CASE i # j /\ i < m.next
    BY <1>8, <1>9, <2>2 DEF MatchInv
  <2>3. CASE i # j /\ ~ (i < m.next)
    <3>1. ~ named /\ next = j + 1
      BY <1>14, <2>3 DEF next
    <3>2. i \in m.next .. j - 1
      BY <1>2, <1>6, <1>14, <2>3, <3>1
    <3> QED
      BY <1>6, <1>8, <2>3, <3>1, <3>2
  <2> QED
    BY <2>1, <2>2, <2>3
<1>15. ASSUME NEW i \in 1 .. L, slots[i] # 0, ~ ByName(call, slots[i]) PROVE i < next
  <2>1. CASE i = j
    <3>1. ~ named
      BY <1>8, <1>15, <2>1
    <3> QED
      BY <1>6, <2>1, <3>1 DEF next
  <2>2. CASE i # j
    <3>1. i < m.next
      BY <1>8, <1>9, <1>15, <2>2 DEF MatchInv
    <3> QED
      BY <1>2, <1>11, <3>1
  <2> QED
    BY <2>1, <2>2
<1>16. ASSUME NEW h \in 1 .. L, NEW i \in 1 .. L, h < i, slots[h] # 0, slots[i] # 0,
              ~ ByName(call, slots[h]), ~ ByName(call, slots[i])
       PROVE  slots[h] < slots[i]
  <2>1. CASE i = j
    <3>1. slots[h] = m.slots[h] /\ slots[i] = n /\ m.slots[h] \in 0 .. n - 1
      BY <1>8, <1>16, <2>1
    <3> QED
      BY <1>1, <3>1
  <2>2. CASE h = j
    <3>1. ~ named /\ i # j
      BY <1>8, <1>16, <2>2
    <3>2. i < m.next
      BY <1>8, <1>9, <1>16, <3>1 DEF MatchInv
    <3> QED
      BY <1>2, <1>6, <1>16, <2>2, <3>1, <3>2
  <2>3. CASE h # j /\ i # j
    BY <1>8, <1>9, <1>16, <2>3 DEF MatchInv
  <2> QED
    BY <2>1, <2>2, <2>3
<1>17. ASSUME NEW h \in 1 .. L, NEW i \in 1 .. L, slots[h] = slots[i], slots[h] # 0 PROVE h = i
  <2>1. CASE h = j \/ i = j
    BY <1>1, <1>8, <1>17, <2>1
  <2>2. CASE h # j /\ i # j
    BY <1>8, <1>9, <1>17, <2>2 DEF MatchInv
  <2> QED
    BY <2>1, <2>2
<1>18. MatchInv([slots |-> slots, next |-> next, failed |-> FALSE], n, call, roles)
  BY <1>9, <1>10, <1>11, <1>12, <1>13, <1>14, <1>15, <1>16, <1>17 DEF MatchInv
<1> QED
  BY <1>3, <1>7, <1>18 DEF MatchInv, new, argument

LEMMA MatchIs ==
  ASSUME NEW call \in Call, NEW roles \in Seq(Roles), ~ MatchArguments(call, roles).failed
  PROVE  MatchInv(MatchArguments(call, roles), Len(call.arguments), call, roles)
<1> DEFINE N == Len(call.arguments)
<1>1. PICK m : MatchSteps(m, call, roles)
  BY MatchHasSteps
<1>2. N \in Nat /\ DOMAIN call.arguments = 1 .. N
  BY LenProperties DEF Call
<1> DEFINE K == {n \in 0 .. N : ~ m[n].failed => MatchInv(m[n], n, call, roles)}
<1>3. 0 \in K
  <2>1. Len(roles) \in Nat /\ DOMAIN roles = 1 .. Len(roles)
    BY LenProperties
  <2>2. /\ \A j \in 1 .. Len(roles) : m[0].slots[j] = 0
        /\ m[0].next = 1
    BY <1>1, <2>1 DEF MatchSteps, NoMatch, Unassigned
  <2>3. MatchInv(m[0], 0, call, roles)
    BY <2>1, <2>2 DEF MatchInv
  <2> QED
    BY <1>2, <2>3
<1>4. ASSUME NEW n \in 1 .. N, n - 1 \in K PROVE n \in K
  <2>1. m[n - 1] \in MatchingOf(roles) /\ m[n] = MatchOne(m[n - 1], roles, n, call.arguments[n])
    BY <1>2 , <1>1, SMTT(30) DEF MatchSteps
  <2>2. ~ m[n - 1].failed => MatchInv(m[n - 1], n - 1, call, roles)
    BY <1>4
  <2>3. ~ m[n].failed => MatchInv(m[n], n, call, roles)
    BY <1>2, <2>1, <2>2, MatchOneKeeps
  <2> QED
    BY <1>2, <2>3
<1>5. \A n \in 0 .. N : n \in K
  <2> HIDE DEF K, N
  <2> QED
    BY <1>2, <1>3, <1>4, UpToBound
<1>6. ~ m[N].failed => MatchInv(m[N], N, call, roles)
  BY <1>2, <1>5
<1> QED
  BY <1>1, <1>6 DEF MatchSteps

-----------------------------------------------------------------------------
(* What a matching that went well says R gives *)

LEMMA RolesAre ==
  ASSUME NEW roles \in Seq(Roles), IsInjective(roles)
  PROVE  /\ Len(roles) \in Nat /\ DOMAIN roles = 1 .. Len(roles)
         /\ \A i \in 1 .. Len(roles) : roles[i] \in Roles /\ roles[i] # ""
         /\ \A i, j \in 1 .. Len(roles) : roles[i] = roles[j] => i = j
<1>1. Len(roles) \in Nat /\ DOMAIN roles = 1 .. Len(roles)
  BY LenProperties
<1>2. \A i \in 1 .. Len(roles) : roles[i] \in Roles
  BY <1>1
<1>3. \A r \in Roles : r # ""
  BY DEF Roles
<1> QED
  BY <1>1, <1>2, <1>3 DEF IsInjective

LEMMA ArgumentsAre ==
  ASSUME NEW call \in Call
  PROVE  /\ Len(call.arguments) \in Nat /\ DOMAIN call.arguments = 1 .. Len(call.arguments)
         /\ \A k \in 1 .. Len(call.arguments) :
              call.arguments[k].name \in STRING /\ call.arguments[k].value \in ArgumentValue
<1>1. call.arguments \in Seq(Argument)
  BY DEF Call
<1>2. Len(call.arguments) \in Nat /\ DOMAIN call.arguments = 1 .. Len(call.arguments)
  BY <1>1, LenProperties
<1>3. \A k \in 1 .. Len(call.arguments) : call.arguments[k] \in Argument
  BY <1>1, <1>2
<1> QED
  BY <1>2, <1>3 DEF Argument

\* The roles that names take are the slots of the arguments with a name.
LEMMA OpenIs ==
  ASSUME NEW call \in Call, NEW roles \in Seq(Roles), IsInjective(roles), NEW m,
         MatchInv(m, Len(call.arguments), call, roles)
  PROVE  \A j \in 1 .. Len(roles) :
           IsOpen(call, roles, j) <=> m.slots[j] = 0 \/ ~ ByName(call, m.slots[j])
<1> DEFINE N == Len(call.arguments)
           L == Len(roles)
           Given == {k \in DOMAIN call.arguments : call.arguments[k].name # ""}
           S(k) == SlotOf(roles, call.arguments[k].name)
<1>1. /\ N \in Nat /\ L \in Nat /\ DOMAIN roles = 1 .. L /\ Given \subseteq 1 .. N
      /\ \A i, j \in 1 .. L : roles[i] = roles[j] => i = j
  BY RolesAre, ArgumentsAre
<1>2. \A k \in Given : ByName(call, k) /\ call.arguments[k].name \in STRING
  BY ArgumentsAre DEF ByName
<1>3. \A k \in 1 .. N : ByName(call, k) => k \in Given
  BY ArgumentsAre DEF ByName
<1>4. /\ \A j \in 1 .. L : m.slots[j] \in 0 .. N
      /\ \A k \in 1 .. N : \E j \in 1 .. L : m.slots[j] = k
      /\ \A j \in 1 .. L : m.slots[j] # 0 /\ ByName(call, m.slots[j]) =>
           roles[j] = call.arguments[m.slots[j]].name
  BY DEF MatchInv
<1>5. NamedSlots(call, roles) = {S(k) : k \in Given}
  BY DEF NamedSlots
<1> HIDE DEF Given, L, N
<1>6. ASSUME NEW j \in 1 .. L, NEW k \in Given, roles[j] = call.arguments[k].name PROVE S(k) = j
  <2>1. S(k) \in DOMAIN roles /\ roles[S(k)] = call.arguments[k].name
    BY <1>1, <1>2, <1>6, SlotIs
  <2> HIDE DEF S
  <2> QED
    BY <1>1, <1>6, <2>1
<1>7. ASSUME NEW j \in 1 .. L, m.slots[j] # 0, ByName(call, m.slots[j]) PROVE ~ IsOpen(call, roles, j)
  <2>1. m.slots[j] \in Given /\ roles[j] = call.arguments[m.slots[j]].name
    BY <1>1, <1>3, <1>4, <1>7
  <2>2. S(m.slots[j]) = j
    BY <1>6, <2>1
  <2> QED
    BY <1>5, <2>1, <2>2 DEF IsOpen
<1>8. ASSUME NEW j \in 1 .. L, ~ IsOpen(call, roles, j) PROVE m.slots[j] # 0 /\ ByName(call, m.slots[j])
  <2>1. PICK k \in Given : j = S(k)
    BY <1>5, <1>8 DEF IsOpen
  <2>2. PICK i \in 1 .. L : m.slots[i] = k
    BY <1>1, <1>4
  <2>3. k \in 1 .. N /\ k # 0 /\ ByName(call, k)
    BY <1>1, <1>2
  <2>4. roles[i] = call.arguments[k].name
    BY <1>4, <2>2, <2>3
  <2>5. i = j
    BY <1>6, <2>1, <2>4
  <2> QED
    BY <2>2, <2>3, <2>5
<1> QED
  BY <1>7, <1>8 DEF L

\* As many arguments without a name come before an argument as there are open
\* roles before its slot.
LEMMA SameRank ==
  ASSUME NEW call \in Call, NEW roles \in Seq(Roles), IsInjective(roles), NEW m,
         MatchInv(m, Len(call.arguments), call, roles),
         NEW s \in 1 .. Len(roles), m.slots[s] # 0, ~ ByName(call, m.slots[s])
  PROVE  Cardinality({i \in 1 .. s - 1 : IsOpen(call, roles, i)}) =
           Cardinality({l \in 1 .. m.slots[s] - 1 : IsUnnamed(call, l)})
<1> DEFINE N == Len(call.arguments)
           L == Len(roles)
           k == m.slots[s]
           I == {i \in 1 .. s - 1 : IsOpen(call, roles, i)}
           U == {l \in 1 .. k - 1 : IsUnnamed(call, l)}
           f == [i \in I |-> m.slots[i]]
<1>1. N \in Nat /\ L \in Nat
  BY RolesAre, ArgumentsAre
<1>2. /\ \A j \in 1 .. L : m.slots[j] \in 0 .. N
      /\ m.next \in Nat
      /\ \A l \in 1 .. N : \E j \in 1 .. L : m.slots[j] = l
      /\ \A j \in 1 .. L : j < m.next => m.slots[j] # 0
      /\ \A j \in 1 .. L : m.slots[j] # 0 /\ ~ ByName(call, m.slots[j]) => j < m.next
      /\ \A i, j \in 1 .. L :
           i < j /\ m.slots[i] # 0 /\ m.slots[j] # 0 /\ ~ ByName(call, m.slots[i]) /\ ~ ByName(call, m.slots[j])
             => m.slots[i] < m.slots[j]
      /\ \A i, j \in 1 .. L : m.slots[i] = m.slots[j] /\ m.slots[i] # 0 => i = j
  BY DEF MatchInv
<1>3. \A j \in 1 .. L : IsOpen(call, roles, j) <=> m.slots[j] = 0 \/ ~ ByName(call, m.slots[j])
  BY OpenIs
<1>4. \A l : IsUnnamed(call, l) <=> ~ ByName(call, l)
  BY DEF IsUnnamed, ByName
<1> HIDE DEF L, N
<1>0. s \in 1 .. L
  BY DEF L
<1>5. s < m.next /\ k \in 1 .. N
  BY <1>0, <1>1, <1>2
<1>6. ASSUME NEW i \in I
      PROVE  i \in 1 .. L /\ i < s /\ m.slots[i] # 0 /\ ~ ByName(call, m.slots[i]) /\ m.slots[i] \in U
  <2>1. i \in 1 .. L /\ i < s /\ i < m.next
    BY <1>0, <1>1, <1>2, <1>5
  <2>2. m.slots[i] # 0 /\ m.slots[i] \in 0 .. N
    BY <1>2, <2>1
  <2>3. ~ ByName(call, m.slots[i])
    BY <1>3, <2>1, <2>2
  <2>4. m.slots[i] < k
    BY <1>0, <1>2, <2>1, <2>2, <2>3
  <2>5. m.slots[i] \in 1 .. k - 1
    BY <1>1, <1>5, <2>2, <2>4
  <2> QED
    BY <1>4, <2>1, <2>2, <2>3, <2>5
<1>7. ASSUME NEW l \in U PROVE \E i \in I : m.slots[i] = l
  <2>1. l \in 1 .. N /\ l < k /\ ~ ByName(call, l)
    BY <1>1, <1>4, <1>5
  <2>2. PICK i \in 1 .. L : m.slots[i] = l
    BY <1>2, <2>1
  <2>5. l # 0 /\ ~ (k < l) /\ i # s
    BY <1>1, <1>5, <2>1, <2>2
  <2>6. s < i => k < l
    BY <1>0, <1>2, <2>1, <2>2, <2>5
  <2>3. ~ (s < i) /\ i # s
    BY <2>5, <2>6
  <2>4. i \in 1 .. s - 1
    BY <1>0, <1>1, <2>3
  <2> QED
    BY <1>3, <2>1, <2>2, <2>4
<1>8. \A i, j \in I : m.slots[i] = m.slots[j] => i = j
  BY <1>2, <1>6
<1>9. IsFiniteSet(I)
  <2>1. IsFiniteSet(1 .. s - 1)
    BY <1>0, <1>1, FS_Interval
  <2> QED
    BY <2>1, FS_Subset
<1> HIDE DEF I, U, k
<1>10. f \in Bijection(I, U)
  <2>1. f \in [I -> U]
    BY <1>6
  <2>2. \A i, j \in I : f[i] = f[j] => i = j
    BY <1>8
  <2>3. \A l \in U : \E i \in I : f[i] = l
    BY <1>7
  <2> HIDE DEF f
  <2> QED
    BY <2>1, <2>2, <2>3 DEF Bijection, Injection, Surjection, IsInjective
<1>11. Cardinality(I) = Cardinality(U)
  <2>1. ExistsBijection(I, U)
    BY <1>10 DEF ExistsBijection
  <2> QED
    BY <1>9, <2>1, FS_Bijection
<1> QED
  BY <1>11 DEF I, U, k

\* Of two open roles, more open roles come before the later one.
LEMMA RankGrows ==
  ASSUME NEW call, NEW roles, NEW i \in Nat \ {0}, NEW j \in Nat \ {0}, i < j, IsOpen(call, roles, i)
  PROVE  Cardinality({h \in 1 .. i - 1 : IsOpen(call, roles, h)}) #
           Cardinality({h \in 1 .. j - 1 : IsOpen(call, roles, h)})
<1> DEFINE I == {h \in 1 .. i - 1 : IsOpen(call, roles, h)}
           J == {h \in 1 .. j - 1 : IsOpen(call, roles, h)}
<1>1. IsFiniteSet(J)
  <2>1. IsFiniteSet(1 .. j - 1)
    BY FS_Interval
  <2> QED
    BY <2>1, FS_Subset
<1>2. I \subseteq J /\ i \in J /\ i \notin I
  OBVIOUS
<1> HIDE DEF I, J
<1>3. I \in SUBSET J /\ I # J
  BY <1>2
<1>6. Cardinality(I) # Cardinality(J)
  BY <1>1, <1>3, FS_Subset
<1> QED
  BY <1>6 DEF I, J

\* R gives a role the argument in its slot, and no other.
LEMMA SlotsAreGiven ==
  ASSUME NEW call \in Call, NEW roles \in Seq(Roles), IsInjective(roles),
         ~ MatchArguments(call, roles).failed,
         NEW j \in DOMAIN roles, NEW k \in DOMAIN call.arguments
  PROVE  RGives(call, roles, j, k) <=> MatchArguments(call, roles).slots[j] = k
<1> DEFINE m == MatchArguments(call, roles)
           N == Len(call.arguments)
           L == Len(roles)
           Ahead(i) == Cardinality({h \in 1 .. i - 1 : IsOpen(call, roles, h)})
           Earlier(l) == Cardinality({h \in 1 .. l - 1 : IsUnnamed(call, h)})
<1>1. MatchInv(m, N, call, roles)
  BY MatchIs
<1> HIDE DEF m
<1>0. N \in Nat /\ L \in Nat /\ j \in 1 .. L /\ k \in 1 .. N /\ k # 0
  <2>1. N \in Nat /\ L \in Nat /\ DOMAIN roles = 1 .. L /\ DOMAIN call.arguments = 1 .. N
    BY RolesAre, ArgumentsAre
  <2> HIDE DEF N, L
  <2> QED
    BY <2>1
<1>2. /\ \A i \in 1 .. L : roles[i] # ""
      /\ \A h, i \in 1 .. L : roles[h] = roles[i] => h = i
  BY RolesAre, ArgumentsAre
<1>3. /\ \A l \in 1 .. N : \E i \in 1 .. L : m.slots[i] = l
      /\ \A i \in 1 .. L : m.slots[i] # 0 /\ ByName(call, m.slots[i]) =>
           roles[i] = call.arguments[m.slots[i]].name
      /\ \A h, i \in 1 .. L : m.slots[h] = m.slots[i] /\ m.slots[h] # 0 => h = i
  BY <1>1 DEF MatchInv
<1> HIDE DEF L, N
<1>4. PICK s \in 1 .. L : m.slots[s] = k
  BY <1>0, <1>3
<1>5. m.slots[j] = k <=> j = s
  BY <1>0, <1>3, <1>4
<1>6. CASE ByName(call, k)
  <2>1. roles[s] = call.arguments[k].name /\ ~ IsUnnamed(call, k)
    BY <1>0, <1>3, <1>4, <1>6 DEF IsUnnamed, ByName
  <2>2. RGives(call, roles, j, k) <=> roles[j] = roles[s]
    BY <2>1 DEF RGives
  <2> QED
    BY <1>0, <1>2, <1>4, <1>5, <2>2 DEF m
<1>7. CASE ~ ByName(call, k)
  <2>1. IsUnnamed(call, k) /\ call.arguments[k].name # roles[j]
    BY <1>0, <1>2, <1>7 DEF IsUnnamed, ByName
  <2>2. IsOpen(call, roles, s)
    BY <1>1, <1>4, <1>7, OpenIs DEF L, N
  <2>3. Ahead(s) = Earlier(k)
    <3>1. m.slots[s] # 0
      BY <1>0, <1>4
    <3> QED
      BY <1>1, <1>4, <1>7, <3>1, SameRank DEF L, N
  <2>4. RGives(call, roles, j, k) <=> IsOpen(call, roles, j) /\ Earlier(k) = Ahead(j)
    BY <2>1 DEF RGives
  <2> HIDE DEF Ahead, Earlier
  <2>8. j \in Nat \ {0} /\ s \in Nat \ {0}
    BY <1>0, <1>4
  <2>5. IsOpen(call, roles, j) /\ j < s => Ahead(j) # Ahead(s)
    BY <2>8, RankGrows DEF Ahead
  <2>6. s < j => Ahead(s) # Ahead(j)
    BY <2>2, <2>8, RankGrows DEF Ahead
  <2>7. j < s \/ s < j \/ j = s
    BY <2>8
  <2> QED
    BY <1>5, <2>2, <2>3, <2>4, <2>5, <2>6, <2>7 DEF m
<1> QED
  BY <1>6, <1>7 DEF m

\* R takes every call that is matched without a complaint.
LEMMA MatchedIsAccepted ==
  ASSUME NEW call \in Call, NEW roles \in Seq(Roles), IsInjective(roles),
         ~ MatchArguments(call, roles).failed
  PROVE  RAccepts(call, roles)
<1> DEFINE m == MatchArguments(call, roles)
<1>1. MatchInv(m, Len(call.arguments), call, roles)
  BY MatchIs
<1>2. \A j \in DOMAIN roles : \A k \in DOMAIN call.arguments :
        RGives(call, roles, j, k) <=> m.slots[j] = k
  BY SlotsAreGiven
<1> HIDE DEF m
<1>3. \A k \in DOMAIN call.arguments : \E j \in DOMAIN roles : m.slots[j] = k
  <2>1. DOMAIN roles = 1 .. Len(roles) /\ DOMAIN call.arguments = 1 .. Len(call.arguments)
    BY RolesAre, ArgumentsAre
  <2> QED
    BY <1>1, <2>1 DEF MatchInv
<1>4. \A k \in DOMAIN call.arguments : \E j \in DOMAIN roles : RGives(call, roles, j, k)
  BY <1>2, <1>3
<1>5. \A j \in DOMAIN roles : \A k, l \in DOMAIN call.arguments :
        RGives(call, roles, j, k) /\ RGives(call, roles, j, l) => k = l
  <2>1. TAKE j \in DOMAIN roles
  <2>2. TAKE k, l \in DOMAIN call.arguments
  <2> QED
    BY <1>2
<1> QED
  BY <1>4, <1>5 DEF RAccepts

\* What a call is taken to register is what R would register.
SaysAsR(call, roles, says) ==
  LET given(role) == {call.arguments[i].value : i \in
                        {i \in DOMAIN call.arguments : \E j \in DOMAIN roles :
                           roles[j] = role /\ RGives(call, roles, j, i)}} IN
  /\ RAccepts(call, roles)
  /\ \E g \in given("generic") : g.kind = "string" /\ g.name = says.generic
  /\ \E c \in given("class") : c.kind = "string" /\ c.name = says.class
  /\ HasName(says) =>
       \/ \E m \in given("method") : m.kind = "symbol" /\ m.name = says.target.name
       \/ /\ \A m \in given("method") : m.kind = "null"
          /\ says.target.name = says.generic \o says.class

LEMMA ExtractFollowsR ==
  ASSUME NEW call \in Call, NEW roles \in Seq(Roles), IsInjective(roles),
         NEW says \in Range(Extract(call, roles).registrations)
  PROVE  /\ Extract(call, roles).registrations = <<says>>
         /\ SaysAsR(call, roles, says)
<1> DEFINE m == MatchArguments(call, roles)
           L == Len(roles)
           slot(role) == IF SlotOf(roles, role) > L THEN Unassigned ELSE m.slots[SlotOf(roles, role)]
           value(role) == IF slot(role) = Unassigned THEN NoValue ELSE call.arguments[slot(role)].value
           generic == value("generic")
           class == value("class")
           method == value("method")
           given(role) == {call.arguments[i].value : i \in
                             {i \in DOMAIN call.arguments : \E j \in DOMAIN roles :
                                roles[j] = role /\ RGives(call, roles, j, i)}}
           made == [generic |-> generic.name, class |-> class.name,
                    target |-> Target(generic, class, method)]
           wrong == \/ ~IsGeneric(generic) /\ ~IsDynamic(generic)
                    \/ ~IsClass(class) /\ ~IsDynamic(class)
<1>1. Extract(call, roles) =
        IF m.failed \/ slot("generic") = Unassigned \/ slot("class") = Unassigned \/ wrong
        THEN Reading(<<>>, {"invalid-s3-registration"})
        ELSE IF IsDynamic(generic) \/ IsDynamic(class)
        THEN Reading(<<>>, {"dynamic-s3-registration"})
        ELSE Reading(<<made>>, IF method.kind = "string" THEN {"invalid-s3-registration"} ELSE {})
  BY DEF Extract
<1> HIDE DEF m, L, slot, value, given
<1>2. Range(<<>>) = {} /\ Range(<<made>>) = {made}
  BY DEF Range
<1>3. /\ ~ m.failed /\ slot("generic") # Unassigned /\ slot("class") # Unassigned
      /\ ~ wrong /\ ~ IsDynamic(generic) /\ ~ IsDynamic(class)
      /\ says = made /\ Extract(call, roles).registrations = <<made>>
  <2> HIDE DEF generic, class, method, wrong, made
  <2>1. \A S : Reading(<<>>, S).registrations = <<>> /\ Reading(<<made>>, S).registrations = <<made>>
    BY DEF Reading
  <2> QED
    BY <1>1, <1>2, <2>1
<1>4. /\ L \in Nat /\ DOMAIN roles = 1 .. L
      /\ \A i, j \in 1 .. L : roles[i] = roles[j] => i = j
  BY RolesAre DEF L
<1>5. DOMAIN call.arguments = 1 .. Len(call.arguments) /\ Len(call.arguments) \in Nat
  BY ArgumentsAre
<1>6. MatchInv(m, Len(call.arguments), call, roles)
  BY <1>3, MatchIs DEF m
<1>7. \A j \in 1 .. L : m.slots[j] \in 0 .. Len(call.arguments)
  BY <1>6 DEF MatchInv, L
<1>8. \A j \in DOMAIN roles : \A k \in DOMAIN call.arguments :
        RGives(call, roles, j, k) <=> m.slots[j] = k
  BY <1>3, SlotsAreGiven DEF m
<1>91. {"generic", "class", "method"} = Roles
  BY Zenon DEF Roles
<1>9. ASSUME NEW role \in Roles, NEW v \in given(role)
      PROVE  slot(role) # Unassigned /\ v = value(role)
  <2>1. PICK i \in DOMAIN call.arguments, j \in DOMAIN roles :
          roles[j] = role /\ RGives(call, roles, j, i) /\ v = call.arguments[i].value
    BY DEF given
  <2>2. SlotOf(roles, role) \in DOMAIN roles /\ roles[SlotOf(roles, role)] = role
    BY <2>1, SlotIs
  <2>3. SlotOf(roles, role) = j
    BY <1>4, <2>1, <2>2
  <2>4. ~ (j > L)
    BY <1>4
  <2>5. slot(role) = m.slots[j]
    BY <2>3, <2>4 DEF slot
  <2>6. slot(role) = i
    BY <1>8, <2>1, <2>5
  <2>7. i # Unassigned
    BY <1>5 DEF Unassigned
  <2> QED
    BY <2>1, <2>6, <2>7 DEF value
<1>10. ASSUME NEW role \in Roles, slot(role) # Unassigned
       PROVE  value(role) \in given(role)
  <2> DEFINE j == SlotOf(roles, role)
  <2>1. ~ (j > L)
    BY <1>10 DEF slot
  <2>2. j \in DOMAIN roles /\ roles[j] = role
    <3>1. j \in Nat \ {0} /\ (j <= L => j \in DOMAIN roles /\ roles[j] = role)
      BY SlotIs DEF L
    <3> HIDE DEF j
    <3>2. j <= L
      BY <1>4, <2>1, <3>1
    <3> QED
      BY <3>1, <3>2
  <2>3. slot(role) = m.slots[j]
    BY <2>1 DEF slot
  <2> HIDE DEF j
  <2>4. slot(role) \in DOMAIN call.arguments
    BY <1>4, <1>5, <1>7, <1>10, <2>2, <2>3 DEF Unassigned
  <2>5. RGives(call, roles, j, slot(role))
    BY <1>8, <2>2, <2>3, <2>4
  <2>6. value(role) = call.arguments[slot(role)].value
    BY <1>10 DEF value
  <2> QED
    BY <2>2, <2>4, <2>5, <2>6 DEF given
<1>11. RAccepts(call, roles)
  BY <1>3, MatchedIsAccepted DEF m
<1>12. generic \in given("generic") /\ class \in given("class")
  BY <1>3, <1>91, <1>10
<1>13. generic.kind = "string" /\ class.kind = "string"
  BY <1>3 DEF IsGeneric, IsClass
<1>14. says.generic = generic.name /\ says.class = class.name /\ says.target = Target(generic, class, method)
  BY <1>3
<1>15. ASSUME HasName(says)
       PROVE  \/ \E x \in given("method") : x.kind = "symbol" /\ x.name = says.target.name
              \/ /\ \A x \in given("method") : x.kind = "null"
                 /\ says.target.name = says.generic \o says.class
  <2> HIDE DEF generic, class, method
  <2>1. CASE method.kind = "null"
    <3> DEFINE joined == generic.name \o class.name
    <3>0. Target(generic, class, method) = [kind |-> "implicit", name |-> joined]
      BY <2>1 DEF Target
    <3>1. Target(generic, class, method).name = joined
      <4> HIDE DEF joined
      <4> QED
        BY <3>0
    <3>2. \A x \in given("method") : x.kind = "null"
      BY <1>91, <1>9, <2>1 DEF method
    <3>3. says.target.name = joined /\ joined = says.generic \o says.class
      <4>1. joined = says.generic \o says.class
        BY <1>14
      <4> HIDE DEF joined
      <4> QED
        BY <1>14, <3>1, <4>1
    <3> QED
      BY <3>2, <3>3
  <2>2. CASE method.kind = "symbol"
    <3>1. Target(generic, class, method) = [kind |-> "explicit", name |-> method.name]
      BY <2>2 DEF Target
    <3>2. slot("method") # Unassigned
      BY <2>2 DEF method, value, NoValue
    <3>3. method \in given("method")
      BY <1>91, <1>10, <3>2 DEF method
    <3>4. method.name = says.target.name
      BY <1>14, <3>1
    <3> QED
      BY <2>2, <3>3, <3>4
  <2>3. CASE method.kind # "null" /\ method.kind # "symbol"
    <3>1. Target(generic, class, method).kind \in {"literal", "invalid", "unresolved"}
      BY <2>3 DEF Target
    <3>2. FALSE
      BY <1>14, <1>15, <3>1 DEF HasName
    <3> QED
      BY <3>2
  <2> QED
    BY <2>1, <2>2, <2>3
<1> HIDE DEF generic, class, method, made
<1>16. \A role : given(role) =
         {call.arguments[i].value : i \in
            {i \in DOMAIN call.arguments : \E j \in DOMAIN roles :
               roles[j] = role /\ RGives(call, roles, j, i)}}
  BY DEF given
<1> QED
  BY <1>3, <1>11, <1>12, <1>13, <1>14, <1>15, <1>16 DEF SaysAsR

-----------------------------------------------------------------------------
(* Registrations *)

\* A call gives one registration or none.
LEMMA ExtractGives ==
  ASSUME NEW call, NEW roles
  PROVE  \/ Extract(call, roles).registrations = <<>>
         \/ \E says : Extract(call, roles).registrations = <<says>>
<1> DEFINE m == MatchArguments(call, roles)
           slot(role) == IF SlotOf(roles, role) > Len(roles) THEN Unassigned
                         ELSE m.slots[SlotOf(roles, role)]
           value(role) == IF slot(role) = Unassigned THEN NoValue ELSE call.arguments[slot(role)].value
           generic == value("generic")
           class == value("class")
           made == [generic |-> generic.name, class |-> class.name,
                    target |-> Target(generic, class, value("method"))]
           rest == IF value("method").kind = "string" THEN {"invalid-s3-registration"} ELSE {}
<1>1. \/ Extract(call, roles) = Reading(<<>>, {"invalid-s3-registration"})
      \/ Extract(call, roles) = Reading(<<>>, {"dynamic-s3-registration"})
      \/ Extract(call, roles) = Reading(<<made>>, rest)
  BY DEF Extract
<1> HIDE DEF made, rest
<1>2. \A r, S : Reading(r, S).registrations = r
  BY DEF Reading
<1> QED
  BY <1>1, <1>2

\* What registrations say, and of which calls.
RegisterInv ==
  /\ input.calls \in Seq(Call) /\ input.signatures \in Seq(Signature)
  /\ AreSignatures(input.signatures) /\ at \in Nat \ {0}
  /\ registrations \in Seq(Range(registrations))
  /\ \A x \in Range(registrations) :
       /\ x.call \in DOMAIN input.calls
       /\ \E k \in DOMAIN input.signatures :
            /\ input.signatures[k].callee = input.calls[x.call].callee
            /\ SaysAsR(input.calls[x.call], input.signatures[k].roles, x.says)

\* Only registrar calls give registrations.
LEMMA RegistrationsStay ==
  ASSUME [Next]_vars
  PROVE  ExtractCall \/ UNCHANGED registrations
<1>1. CASE ExtractCall \/ TrackS7 \/ ValidateTarget \/ MergeBlock \/ SkipUsage \/ NameReexport \/ CollectTag
  BY <1>1 DEF TrackS7, ValidateTarget, MergeBlock, SkipUsage, NameReexport, CollectTag, model
<1>2. CASE ClassifyUsage \/ AskExport \/ AskFunction \/ Analyzer
  BY <1>2 DEF ClassifyUsage, AskExport, AskFunction, Analyzer, model
<1>3. CASE TakeUsageVerdict \/ TakeExportVerdict \/ TakeFunctionAnswer
  BY <1>3 DEF TakeUsageVerdict, TakeExportVerdict, TakeFunctionAnswer, model
<1>5. CASE Render \/ EndStage
  BY <1>5 DEF Render, EndStage, model
<1>7. CASE Built \/ UNCHANGED vars
  BY <1>7 DEF Built, vars, model
<1> QED
  BY <1>1, <1>2, <1>3, <1>5, <1>7 DEF Next

LEMMA RegisterKeeps ==
  ASSUME RegisterInv, InputInv, [Next]_vars
  PROVE  RegisterInv'
<1>1. UNCHANGED <<code, input>> /\ at' \in Nat \ {0}
  BY CodeStays, InputKeeps DEF InputInv
<1>2. CASE UNCHANGED registrations
  BY <1>1, <1>2 DEF RegisterInv
<1>3. CASE ExtractCall
  <2> DEFINE call == input.calls[at]
             signature == {k \in DOMAIN input.signatures : input.signatures[k].callee = call.callee}
             k == CHOOSE k \in signature : TRUE
             found == Extract(call, input.signatures[k].roles).registrations
             new == IF signature = {} THEN <<>>
                    ELSE [j \in DOMAIN found |-> [call |-> at, says |-> found[j]]]
  <2>1. at \in DOMAIN input.calls /\ call \in Call
    <3>1. at <= Len(input.calls)
      BY <1>3, ItemsAre DEF ExtractCall, Busy
    <3>2. at \in DOMAIN input.calls
      BY <3>1, LenProperties DEF RegisterInv
    <3> QED
      BY <3>2, ElementOfSeq, LenProperties DEF RegisterInv
  <2>2. registrations' = registrations \o new
    BY <1>3 DEF ExtractCall
  <2> DEFINE IsGood(x) ==
         /\ x.call \in DOMAIN input.calls
         /\ \E i \in DOMAIN input.signatures :
              /\ input.signatures[i].callee = input.calls[x.call].callee
              /\ SaysAsR(input.calls[x.call], input.signatures[i].roles, x.says)
  <2> HIDE DEF found, new, k
  <2>3. CASE new = <<>>
    <3>1. registrations' = registrations
      BY <2>2, <2>3, ConcatEmptySeq DEF RegisterInv
    <3> QED
      BY <1>2, <3>1
  <2>4. CASE new # <<>>
    <3>1. signature # {} /\ new = [j \in DOMAIN found |-> [call |-> at, says |-> found[j]]]
      BY <2>4 DEF new
    <3>2. k \in DOMAIN input.signatures /\ input.signatures[k].callee = call.callee
      BY <3>1 DEF k
    <3>3. input.signatures[k].roles \in Seq(Roles) /\ IsInjective(input.signatures[k].roles)
      <4>1. input.signatures[k] \in Signature
        BY <3>2, ElementOfSeq, LenProperties DEF RegisterInv
      <4> QED
        BY <3>2, <4>1 DEF RegisterInv, AreSignatures, IsSignature, Signature
    <3>4. found # <<>>
      <4>1. found = <<>> => new = <<>>
        BY <3>1
      <4> QED
        BY <2>4, <4>1
    <3>5. PICK says : found = <<says>>
      BY <3>4, ExtractGives DEF found
    <3>6. says \in Range(found)
      BY <3>5 DEF Range
    <3>7. SaysAsR(call, input.signatures[k].roles, says)
      BY <2>1, <3>3, <3>6, ExtractFollowsR DEF found
    <3> DEFINE x == [call |-> at, says |-> says]
    <3>8. new = <<x>>
      BY <3>1, <3>5
    <3>9. IsGood(x)
      BY <2>1, <3>2, <3>7
    <3>10. new \in Seq({x}) /\ Range(new) = {x}
      <4> HIDE DEF x
      <4> QED
        BY <3>8 DEF Range
    <3> HIDE DEF x, IsGood
    <3> DEFINE S == Range(registrations) \cup {x}
    <3>11. registrations \in Seq(S) /\ new \in Seq(S)
      BY <3>10 DEF RegisterInv
    <3>12. registrations' \in Seq(S) /\ Range(registrations') = S
      BY <2>2, <3>10, <3>11, Joined
    <3>13. \A y \in Range(registrations) : IsGood(y)
      BY DEF RegisterInv, IsGood
    <3>14. \A y \in Range(registrations') : IsGood(y)
      BY <3>9, <3>12, <3>13
    <3> QED
      BY <1>1, <3>12, <3>14 DEF RegisterInv, IsGood
  <2> QED
    BY <2>3, <2>4
<1> QED
  BY <1>2, <1>3, RegistrationsStay

\* Whatever registrars are configured, with whatever roles in whatever order,
\* and however their calls name their arguments: what a call is taken to
\* register is what R, which matches names first, would register
\* (match_arguments, extract_call in s3_register.rs).
THEOREM RegistrationsMatchR == Spec => []RegistrationsFollowR
<1> DEFINE Inv == RegisterInv /\ InputInv
<1>1. Init => Inv
  <2> SUFFICES ASSUME Init PROVE Inv
    OBVIOUS
  <2>1. registrations = <<>> /\ at = 1
    BY DEF Init
  <2>2. /\ input.calls \in Seq(Call) /\ input.signatures \in Seq(Signature)
        /\ AreSignatures(input.signatures)
    BY FamiliesAssumption DEF Init
  <2>3. registrations \in Seq(Range(registrations)) /\ Range(registrations) = {}
    BY <2>1 DEF Range
  <2> QED
    BY <2>1, <2>2, <2>3, ExportStarts DEF RegisterInv, ExportInv, ReachInv
<1>2. Inv /\ [Next]_vars => Inv'
  BY RegisterKeeps, InputKeeps
<1>3. Inv => RegistrationsFollowR
  BY DEF RegisterInv, RegistrationsFollowR, SaysAsR
<1> QED
  BY <1>1, <1>2, <1>3, PTL DEF Spec
=============================================================================
