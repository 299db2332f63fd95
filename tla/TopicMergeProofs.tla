-------------------------- MODULE TopicMergeProofs --------------------------
(* Proofs about TopicMerge: whatever the blocks of a package are, in any    *)
(* number and any order, its topics are what the blocks say.                *)
EXTENDS TopicMerge, FiniteSetTheorems, WellFoundedInduction, TLAPS

-----------------------------------------------------------------------------
(* Blocks *)

\* Some natural numbers have a least one.
LEMMA LeastExists ==
  ASSUME NEW K \in SUBSET Nat, K # {}
  PROVE  \E m \in K : \A j \in K : m <= j
<1> DEFINE R == {s \in Nat \X Nat : s[1] < s[2]}
<1>1. IsWellFoundedOn(R, Nat)
  BY NatLessThanWellFounded DEF OpToRel
<1>2. PICK m \in K : \A j \in K : <<j, m>> \notin R
  BY <1>1, WFMin
<1>3. ASSUME NEW j \in K PROVE m <= j
  <2>1. j \in Nat /\ m \in Nat /\ ~ (j < m)
    BY <1>2
  <2> QED
    BY <2>1
<1> QED
  BY <1>3

\* The package is one of those the parser makes.
PkgInv == \E P \in Packages : pkg = P.blocks /\ described = P.described

\* What PackagesAssumption says of the blocks.
LEMMA BlocksAreMade ==
  ASSUME PkgInv
  PROVE  /\ \A b \in Blocks : b \in Nat \ {0} /\ IsBlock(pkg[b])
         /\ described \subseteq Slots \cap FallbackSlots
  BY PackagesAssumption DEF PkgInv, IsSequence, Blocks

\* A block that has a tag has a first one.
LEMMA FirstTag ==
  ASSUME PkgInv, NEW b \in Blocks, NEW t, Has(b, t)
  PROVE  \E i \in TagsOf(b, t) : \A j \in TagsOf(b, t) : i <= j
<1>1. TagsOf(b, t) \subseteq Nat
  BY BlocksAreMade DEF TagsOf, Tags, IsBlock, IsSequence
<1> QED
  BY <1>1, LeastExists DEF Has

\* The value of the first tag is that of a tag.
LEMMA FirstOfIs ==
  ASSUME PkgInv, NEW b \in Blocks, NEW t, NEW other
  PROVE  \/ ~ Has(b, t) /\ FirstOf(b, t, other) = other
         \/ \E i \in TagsOf(b, t) : FirstOf(b, t, other) = Tags(b)[i].value
<1>1. CASE Has(b, t)
  <2>1. First(TagsOf(b, t)) \in TagsOf(b, t)
    BY <1>1, FirstTag DEF First
  <2>2. FirstOf(b, t, other) = Tags(b)[First(TagsOf(b, t))].value
    BY <1>1 DEF FirstOf
  <2> QED
    BY <2>1, <2>2
<1>2. CASE ~ Has(b, t)
  BY <1>2 DEF FirstOf
<1> QED
  BY <1>1, <1>2

\* What names a topic or an alias is a name.
LEMMA NamesAreNames ==
  ASSUME PkgInv, NEW b \in Blocks
  PROVE  /\ FirstOf(b, "name", Nobody) \in Names \cup {Nobody}
         /\ DefaultAliases(b) \subseteq Names
         /\ Verdict(b) = "merged" => TopicKey(b) \in Names
         /\ \A i \in TagsOf(b, "aliases") : Tags(b)[i].names \subseteq Names
         /\ \A i \in TagsOf(b, "param") : \A j \in DOMAIN Tags(b)[i].names : Tags(b)[i].names[j] \in Names
<1>1. \A t \in {"name", "rdname"} : \A i \in TagsOf(b, t) : Tags(b)[i].value \in Names
  BY BlocksAreMade DEF TagsOf, Tags, IsBlock, TagNames
<1>2. \A other \in Names \cup {Nobody} : \A t \in {"name", "rdname"} :
        /\ FirstOf(b, t, other) \in Names \cup {Nobody}
        /\ other # Nobody => FirstOf(b, t, other) \in Names
  BY <1>1, FirstOfIs DEF Names, Nobody
<1>3. ObjectName(b) \in Names \cup {Nobody}
  BY BlocksAreMade DEF ObjectName, IsBlock
<1>4. Primary(b) \in Names \cup {Nobody}
  BY <1>2, <1>3, SpecialAssumption DEF Primary
<1>5. DefaultAliases(b) \subseteq Names
  BY <1>3, <1>4 DEF DefaultAliases
<1>6. ASSUME Verdict(b) = "merged" PROVE TopicKey(b) \in Names
  <2>1. Target(b) \in {"package", "reexport"} \/ Primary(b) # Nobody
    BY <1>6 DEF Verdict
  <2> QED
    BY <1>2, <1>4, <2>1, SpecialAssumption DEF TopicKey
<1>7. \A i \in TagsOf(b, "aliases") : Tags(b)[i].names \subseteq Names
  BY BlocksAreMade DEF TagsOf, Tags, IsBlock, TagNames
<1>8. \A i \in TagsOf(b, "param") : \A j \in DOMAIN Tags(b)[i].names : Tags(b)[i].names[j] \in Names
  BY BlocksAreMade DEF TagsOf, Tags, IsBlock, TagNames
<1> QED
  BY <1>2, <1>5, <1>6, <1>7, <1>8

\* Nothing about the blocks changes.
LEMMA Static ==
  ASSUME pkg' = pkg
  PROVE  /\ Blocks' = Blocks
         /\ \A b : Target(b)' = Target(b) /\ Tags(b)' = Tags(b)
         /\ \A b, t : TagsOf(b, t)' = TagsOf(b, t) /\ Has(b, t)' = Has(b, t)
         /\ \A b, t : HasNull(b, t)' = HasNull(b, t)
         /\ \A b, t, other : FirstOf(b, t, other)' = FirstOf(b, t, other)
         /\ \A a, b : Precedes(a, b)' = Precedes(a, b)
         /\ \A b : Primary(b)' = Primary(b) /\ TopicKey(b)' = TopicKey(b)
         /\ \A b : Verdict(b)' = Verdict(b)
         /\ \A k : BlocksOf(k)' = BlocksOf(k)
<1>1. Blocks' = Blocks /\ \A b : Target(b)' = Target(b) /\ Tags(b)' = Tags(b)
  BY DEF Blocks, Target, Tags
<1>2. \A b, t : TagsOf(b, t)' = TagsOf(b, t)
  BY <1>1 DEF TagsOf
<1>3. \A b, t : Has(b, t)' = Has(b, t) /\ HasNull(b, t)' = HasNull(b, t)
  BY <1>1, <1>2 DEF Has, HasNull
<1>4. \A b, t, other : FirstOf(b, t, other)' = FirstOf(b, t, other)
  BY <1>1, <1>2, <1>3 DEF FirstOf
<1>5. \A a, b : Precedes(a, b)' = Precedes(a, b)
  BY <1>3, <1>4 DEF Precedes
<1>6. \A b : ObjectName(b)' = ObjectName(b)
  BY <1>1 DEF ObjectName
<1>7. \A b : Primary(b)' = Primary(b)
  BY <1>1, <1>4, <1>6 DEF Primary
<1>8. \A b : TopicKey(b)' = TopicKey(b)
  BY <1>1, <1>4, <1>7 DEF TopicKey
<1>9. \A b : NeedsDoc(b)' = NeedsDoc(b) /\ HasProse(b)' = HasProse(b)
  BY <1>1, <1>2, <1>3 DEF NeedsDoc, HasProse
<1>10. \A b : Verdict(b)' = Verdict(b)
  BY <1>1, <1>3, <1>7, <1>8, <1>9 DEF Verdict
<1>11. \A k : BlocksOf(k)' = BlocksOf(k)
  BY <1>1, <1>8, <1>10 DEF BlocksOf
<1> QED
  BY <1>1, <1>2, <1>3, <1>4, <1>5, <1>7, <1>8, <1>10, <1>11

-----------------------------------------------------------------------------
(* The fold *)

\* Blocks are taken one by one, and the one under way is part of a topic.
FoldInv ==
  /\ PkgInv
  /\ todo \subseteq Blocks /\ topics \subseteq Names
  /\ pc = "tags" => /\ block \in Blocks \ todo /\ Verdict(block) = "merged"
                    /\ Key \in topics /\ at \in Nat \ {0}
  /\ pc \notin {"blocks", "tags"} => todo = {}

\* What a tag leaves alone.
LEMMA TagFrame ==
  ASSUME ApplyTag
  PROVE  /\ pc = "tags" /\ at \in DOMAIN Tags(block) /\ at' = at + 1
         /\ UNCHANGED <<pc, pkg, described, todo, block, unnamed>>
         /\ UNCHANGED <<topics, name, merged, kind, firstKind, conflicting, reexports>>
         /\ UNCHANGED <<anchored, aliasing, suppressed>>
  BY DEF ApplyTag, ApplyUnique, ApplyField, ApplyDocType, ApplyMethod, ApplyParam, ApplyKept,
         ApplyAliases, ApplyKeywords, SkipNamespace, IsAt, Advance, input, identity, fallback

\* The steps of a fold, once more.
LEMMA Steps ==
  ASSUME [Next]_vars
  PROVE  \/ \E b \in Blocks : LeaveOut(b) \/ BeginPackage(b) \/ BeginTopic(b)
         \/ ApplyTag \/ CloseBlock \/ EndBlocks
         \/ \E k \in Names : NameDefaults(k)
         \/ NameReexports \/ Describe \/ UNCHANGED vars
  BY DEF Next

\* Nothing changes the package.
LEMMA PkgStays ==
  ASSUME [Next]_vars
  PROVE  pkg' = pkg /\ described' = described
<1>1. CASE \E b \in Blocks : LeaveOut(b) \/ BeginPackage(b) \/ BeginTopic(b)
  BY <1>1 DEF LeaveOut, BeginPackage, BeginTopic, OpenBlock, input
<1>2. CASE ApplyTag
  BY <1>2, TagFrame
<1>3. CASE CloseBlock \/ EndBlocks \/ NameReexports \/ Describe \/ \E k \in Names : NameDefaults(k)
  BY <1>3 DEF CloseBlock, EndBlocks, NameReexports, Describe, NameDefaults, input
<1>4. CASE UNCHANGED vars
  BY <1>4 DEF vars
<1> QED
  BY <1>1, <1>2, <1>3, <1>4, Steps

\* The blocks of a topic that have been folded.
Folded(k) == BlocksOf(k) \ todo

\* A block that is taken joins its topic.
LEMMA Joins ==
  ASSUME FoldInv, NEW b \in Blocks, pkg' = pkg, todo' = todo \ {b}, b \in todo,
         Verdict(b) = "merged"
  PROVE  \A k : Folded(k)' = IF k = TopicKey(b) THEN Folded(k) \cup {b} ELSE Folded(k)
<1>1. \A k : BlocksOf(k)' = BlocksOf(k)
  BY Static
<1>2. \A k : b \in BlocksOf(k) <=> k = TopicKey(b)
  BY DEF BlocksOf
<1> QED
  BY <1>1, <1>2 DEF Folded

\* A block that is left out joins none.
LEMMA JoinsNot ==
  ASSUME NEW b \in Blocks, pkg' = pkg, todo' = todo \ {b}, Verdict(b) # "merged"
  PROVE  \A k : Folded(k)' = Folded(k)
<1>1. \A k : BlocksOf(k)' = BlocksOf(k) /\ b \notin BlocksOf(k)
  BY Static DEF BlocksOf
<1> QED
  BY <1>1 DEF Folded

\* Elsewhere the blocks folded stay.
LEMMA JoinsNone ==
  ASSUME pkg' = pkg, todo' = todo
  PROVE  \A k : Folded(k)' = Folded(k)
  BY Static DEF Folded

\* Taking a block.
LEMMA Begins ==
  ASSUME FoldInv, NEW b \in Blocks, BeginPackage(b) \/ BeginTopic(b)
  PROVE  /\ pc = "blocks" /\ pc' = "tags" /\ pkg' = pkg /\ described' = described
         /\ b \in todo /\ todo' = todo \ {b} /\ \A c \in todo \ {b} : Precedes(b, c)
         /\ Verdict(b) = "merged" /\ TopicKey(b) \in Names
         /\ block' = b /\ at' = 1 /\ slots' = {}
         /\ topics' = topics \cup {TopicKey(b)}
         /\ merged' = [merged EXCEPT ![TopicKey(b)] = Append(@, b)]
         /\ unnamed' = unnamed
<1>1. /\ pc = "blocks" /\ pc' = "tags" /\ pkg' = pkg /\ described' = described
      /\ b \in todo /\ todo' = todo \ {b} /\ \A c \in todo \ {b} : Precedes(b, c)
      /\ Verdict(b) = "merged"
      /\ block' = b /\ at' = 1 /\ slots' = {}
      /\ topics' = topics \cup {TopicKey(b)}
      /\ merged' = [merged EXCEPT ![TopicKey(b)] = Append(@, b)]
      /\ unnamed' = unnamed
  BY DEF BeginPackage, BeginTopic, TakeBlock, IsNext, OpenBlock, input
<1>2. TopicKey(b) \in Names
  BY <1>1, NamesAreNames DEF FoldInv
<1> QED
  BY <1>1, <1>2

\* Each step keeps the fold in shape.
LEMMA FoldKeeps ==
  ASSUME FoldInv, [Next]_vars
  PROVE  FoldInv'
<1>1. pkg' = pkg /\ described' = described
  BY PkgStays
<1>2. PkgInv' /\ Blocks' = Blocks
  BY <1>1, Static DEF FoldInv, PkgInv
<1>3. ASSUME NEW b \in Blocks, LeaveOut(b) PROVE FoldInv'
  <2>1. todo' = todo \ {b} /\ UNCHANGED <<pc, block, at, topics>> /\ pc = "blocks"
    BY <1>3 DEF LeaveOut, TakeBlock, cursor, identity
  <2> QED
    BY <1>2, <2>1 DEF FoldInv
<1>4. ASSUME NEW b \in Blocks, BeginPackage(b) \/ BeginTopic(b) PROVE FoldInv'
  <2>1. Verdict(b)' = "merged" /\ TopicKey(b)' = TopicKey(b)
    BY <1>1, <1>4, Begins, Static
  <2>2. Verdict(block)' = "merged" /\ Key' = TopicKey(b)
    BY <1>4, <2>1, Begins DEF Key
  <2> QED
    BY <1>2, <1>4, <2>2, Begins DEF FoldInv
<1>5. CASE ApplyTag
  <2>1. /\ UNCHANGED <<pc, todo, block, topics>> /\ at' = at + 1
    BY <1>5, TagFrame
  <2>2. Verdict(block)' = Verdict(block) /\ Key' = Key
    BY <1>1, <2>1, Static DEF Key
  <2> QED
    BY <1>2, <2>1, <2>2 DEF FoldInv
<1>6. CASE CloseBlock
  BY <1>2, <1>6 DEF FoldInv, CloseBlock, identity, input
<1>7. CASE EndBlocks
  BY <1>2, <1>7 DEF FoldInv, EndBlocks, identity, input
<1>8. ASSUME NEW k \in Names, NameDefaults(k) PROVE FoldInv'
  BY <1>2, <1>8 DEF FoldInv, NameDefaults, identity, input
<1>9. CASE NameReexports
  BY <1>2, <1>9 DEF FoldInv, NameReexports, identity, input
<1>10. CASE Describe
  BY <1>2, <1>10 DEF FoldInv, Describe, identity, input
<1>11. CASE UNCHANGED vars
  <2>1. UNCHANGED <<pc, todo, block, at, topics>>
    BY <1>11 DEF vars
  <2>2. Verdict(block)' = Verdict(block) /\ Key' = Key
    BY <1>1, <2>1, Static DEF Key
  <2> QED
    BY <1>2, <2>1, <2>2 DEF FoldInv
<1> QED
  BY <1>3, <1>4, <1>5, <1>6, <1>7, <1>8, <1>9, <1>10, <1>11, Steps

-----------------------------------------------------------------------------
(* Kinds *)

IsPackage(k) == \E b \in Folded(k) : Target(b) = "package"
IsData(k) == \E b \in Folded(k) : Target(b) = "data"
Conflict(d, k) == d.code = "ConflictingTopicKind" /\ d.topic = k

\* The kind of a topic, its conflict, its anchor and the report of the
\* conflict are functions of the set of its blocks folded so far.
KindInv ==
  /\ kind = [k \in Names |-> kind[k]] /\ firstKind = [k \in Names |-> firstKind[k]]
  /\ \A k \in Names :
       /\ kind[k] = IF IsPackage(k) THEN "Package" ELSE IF IsData(k) THEN "Data" ELSE "Ordinary"
       /\ k \in conflicting <=> IsPackage(k) /\ IsData(k)
       /\ firstKind[k] = "Ordinary" <=> ~ IsPackage(k) /\ ~ IsData(k)
       /\ firstKind[k] \in {"Ordinary", "Package", "Data"}
       /\ firstKind[k] = "Package" => IsPackage(k)
       /\ firstKind[k] = "Data" => IsData(k)
       /\ k \in anchored <=> IsPackage(k)
       /\ k \in aliasing => IsPackage(k)
       /\ k \in conflicting <=> \E d \in diagnostics : Conflict(d, k)
       /\ \A d, e \in diagnostics : Conflict(d, k) /\ Conflict(e, k) => d = e

\* Where the blocks folded stay and nothing is said about kinds, kinds stay.
LEMMA KindFrame ==
  ASSUME KindInv, pkg' = pkg, \A k : Folded(k)' = Folded(k),
         UNCHANGED <<kind, firstKind, conflicting, anchored, aliasing>>,
         diagnostics \subseteq diagnostics',
         \A d \in diagnostics' \ diagnostics : d.code # "ConflictingTopicKind"
  PROVE  KindInv'
<1>1. \A k : IsPackage(k)' = IsPackage(k) /\ IsData(k)' = IsData(k)
  BY Static DEF IsPackage, IsData
<1>2. \A k : \A d : Conflict(d, k)' = Conflict(d, k)
  BY DEF Conflict
<1>3. \A k : \A d \in diagnostics' : Conflict(d, k) => d \in diagnostics
  BY DEF Conflict
<1> QED
  BY <1>1, <1>2, <1>3 DEF KindInv

\* What is said about aliases is not about kinds.
LEMMA AliasReports ==
  ASSUME NEW k, NEW N, NEW origin, NEW others, AddAliases(k, N, origin, others)
  PROVE  /\ diagnostics \cup others \subseteq diagnostics'
         /\ \A d \in diagnostics' \ (diagnostics \cup others) : d.code = "ConflictingAlias"
  BY DEF AddAliases, Report

\* What a tag says is not about kinds.
LEMMA TagReports ==
  ASSUME ApplyTag
  PROVE  /\ diagnostics \subseteq diagnostics'
         /\ \A d \in diagnostics' \ diagnostics :
              d.code \in {"DuplicateTag", "DuplicateMethod", "ConflictingParamDescription",
                          "ConflictingAlias"} /\ d.origin = Here
<1>1. CASE ApplyAliases
  BY <1>1 DEF ApplyAliases, AddAliases, Report
<1>2. CASE ApplyUnique
  BY <1>2 DEF ApplyUnique, Reserve, Report
<1>3. CASE ApplyField \/ ApplyDocType
  BY <1>3 DEF ApplyField, ApplyDocType, Report
<1>4. CASE ApplyMethod
  BY <1>4 DEF ApplyMethod, Report
<1>5. CASE ApplyParam
  BY <1>5 DEF ApplyParam, Report
<1>6. CASE ApplyKept \/ ApplyKeywords \/ SkipNamespace
  BY <1>6 DEF ApplyKept, ApplyKeywords, SkipNamespace
<1> QED
  BY <1>1, <1>2, <1>3, <1>4, <1>5, <1>6 DEF ApplyTag

\* A package or a data block registers its kind.
LEMMA Registers ==
  ASSUME KindInv, FoldInv, NEW b \in Blocks, NEW K \in {"Package", "Data"},
         NEW t \in Names, t = TopicKey(b),
         BeginPackage(b) \/ BeginTopic(b),
         Target(b) = IF K = "Package" THEN "package" ELSE "data",
         RegisterKind(t, K),
         diagnostics \cup KindReports(t, K, <<b, 0>>) \subseteq diagnostics',
         \A d \in diagnostics' \ (diagnostics \cup KindReports(t, K, <<b, 0>>)) :
           d.code = "ConflictingAlias",
         anchored' = IF K = "Package" THEN anchored \cup {t} ELSE anchored,
         aliasing' \subseteq IF K = "Package" THEN aliasing \cup {t} ELSE aliasing
  PROVE  KindInv'
<1>1. /\ pkg' = pkg /\ b \in todo /\ todo' = todo \ {b} /\ Verdict(b) = "merged" /\ t \in Names
  BY Begins
<1>2. \A k : Folded(k)' = IF k = t THEN Folded(k) \cup {b} ELSE Folded(k)
  BY <1>1, Joins
<1>3. \A c : Target(c)' = Target(c)
  BY <1>1, Static
<1>4. /\ \A k : k # t => IsPackage(k)' = IsPackage(k) /\ IsData(k)' = IsData(k)
      /\ IsPackage(t)' <=> IsPackage(t) \/ K = "Package"
      /\ IsData(t)' <=> IsData(t) \/ K = "Data"
  <2>1. ASSUME NEW k, k # t PROVE IsPackage(k)' = IsPackage(k) /\ IsData(k)' = IsData(k)
    BY <1>2, <1>3, <2>1 DEF IsPackage, IsData
  <2>2. Folded(t)' = Folded(t) \cup {b}
    BY <1>2
  <2>3. IsPackage(t)' <=> IsPackage(t) \/ K = "Package"
    BY <1>3, <2>2 DEF IsPackage
  <2>4. IsData(t)' <=> IsData(t) \/ K = "Data"
    BY <1>3, <2>2 DEF IsData
  <2> QED
    BY <2>1, <2>3, <2>4
<1>5. \A k : \A d : Conflict(d, k)' = Conflict(d, k)
  BY DEF Conflict
<1>6. \A d \in KindReports(t, K, <<b, 0>>) :
        /\ d = Report("ConflictingTopicKind", t, Nobody, <<b, 0>>)
        /\ t \notin conflicting /\ firstKind[t] \notin {"Ordinary", K}
  BY DEF KindReports
<1>7. t \notin conflicting /\ firstKind[t] \notin {"Ordinary", K} =>
        KindReports(t, K, <<b, 0>>) = {Report("ConflictingTopicKind", t, Nobody, <<b, 0>>)}
  BY DEF KindReports
<1>8. \A k : \A d \in diagnostics' : Conflict(d, k) =>
        d \in diagnostics \/ (k = t /\ d \in KindReports(t, K, <<b, 0>>))
  BY <1>6 DEF Conflict, Report
<1>9. \A d \in KindReports(t, K, <<b, 0>>) : Conflict(d, t)
  BY <1>6 DEF Conflict, Report
<1>10. /\ firstKind' = [firstKind EXCEPT ![t] = IF @ = "Ordinary" THEN K ELSE @]
       /\ conflicting' = IF firstKind[t] \in {"Ordinary", K} THEN conflicting
                         ELSE conflicting \cup {t}
       /\ kind' = [kind EXCEPT ![t] = IF t \in conflicting \/ firstKind[t] \notin {"Ordinary", K}
                                      THEN "Package" ELSE K]
  BY DEF RegisterKind
<1>11. /\ kind' = [k \in Names |-> kind'[k]] /\ firstKind' = [k \in Names |-> firstKind'[k]]
  BY <1>10 DEF KindInv
<1>12. ASSUME NEW k \in Names, k # t
       PROVE  /\ kind'[k] = kind[k] /\ firstKind'[k] = firstKind[k]
              /\ k \in conflicting' <=> k \in conflicting
              /\ k \in anchored' <=> k \in anchored
              /\ k \in aliasing' => k \in aliasing
              /\ \A d \in diagnostics' : Conflict(d, k) => d \in diagnostics
  BY <1>8, <1>10, <1>12 DEF KindInv
<1>13. /\ firstKind'[t] = IF firstKind[t] = "Ordinary" THEN K ELSE firstKind[t]
       /\ t \in conflicting' <=> t \in conflicting \/ firstKind[t] \notin {"Ordinary", K}
       /\ kind'[t] = IF t \in conflicting \/ firstKind[t] \notin {"Ordinary", K} THEN "Package" ELSE K
       /\ t \in anchored' <=> t \in anchored \/ K = "Package"
       /\ t \in aliasing' => t \in aliasing \/ K = "Package"
  BY <1>1, <1>10 DEF KindInv
<1>14. /\ kind'[t] = IF IsPackage(t)' THEN "Package" ELSE IF IsData(t)' THEN "Data" ELSE "Ordinary"
       /\ t \in conflicting' <=> IsPackage(t)' /\ IsData(t)'
       /\ firstKind'[t] = "Ordinary" <=> ~ IsPackage(t)' /\ ~ IsData(t)'
       /\ firstKind'[t] \in {"Ordinary", "Package", "Data"}
       /\ firstKind'[t] = "Package" => IsPackage(t)'
       /\ firstKind'[t] = "Data" => IsData(t)'
       /\ t \in anchored' <=> IsPackage(t)'
       /\ t \in aliasing' => IsPackage(t)'
  BY <1>1, <1>4, <1>13 DEF KindInv
<1>15. /\ t \in conflicting' <=> \E d \in diagnostics' : Conflict(d, t)
       /\ \A d, e \in diagnostics' : Conflict(d, t) /\ Conflict(e, t) => d = e
  <2>1. CASE t \in conflicting
    <3>1. \A d \in diagnostics' : Conflict(d, t) => d \in diagnostics
      BY <1>6, <1>8, <2>1
    <3> QED
      BY <1>1, <1>13, <2>1, <3>1 DEF KindInv
  <2>2. CASE t \notin conflicting
    <3>1. \A d \in diagnostics' : Conflict(d, t) => d \in KindReports(t, K, <<b, 0>>)
      BY <1>1, <1>8, <2>2 DEF KindInv
    <3>2. \A d, e \in KindReports(t, K, <<b, 0>>) : d = e
      BY <1>6
    <3>3. t \in conflicting' <=> KindReports(t, K, <<b, 0>>) # {}
      BY <1>6, <1>7, <1>13, <2>2
    <3>4. KindReports(t, K, <<b, 0>>) \subseteq diagnostics'
      OBVIOUS
    <3> QED
      BY <1>9, <3>1, <3>2, <3>3, <3>4
  <2> QED
    BY <2>1, <2>2
<1> QED
  BY <1>4, <1>5, <1>11, <1>12, <1>14, <1>15 DEF KindInv

\* Each step keeps what is known of kinds.
LEMMA KindKeeps ==
  ASSUME FoldInv, KindInv, [Next]_vars
  PROVE  KindInv'
<1>1. pkg' = pkg
  BY PkgStays
<1>2. ASSUME NEW b \in Blocks, LeaveOut(b) PROVE KindInv'
  <2>1. /\ todo' = todo \ {b} /\ Verdict(b) # "merged"
        /\ UNCHANGED <<kind, firstKind, conflicting, anchored, aliasing>>
        /\ diagnostics \subseteq diagnostics'
        /\ \A d \in diagnostics' \ diagnostics : d.code \in Refusals
    BY <1>2 DEF LeaveOut, TakeBlock, identity, fallback, Report
  <2>2. "ConflictingTopicKind" \notin Refusals
    BY DEF Refusals
  <2> QED
    BY <1>1, <2>1, <2>2, JoinsNot, KindFrame
<1>3. ASSUME NEW b \in Blocks, BeginPackage(b) PROVE KindInv'
  <2>1. /\ Target(b) = "package" /\ RegisterKind(TopicKey(b), "Package")
        /\ anchored' = anchored \cup {TopicKey(b)}
        /\ aliasing' \subseteq aliasing \cup {TopicKey(b)}
        /\ AddAliases(TopicKey(b), {FirstOf(b, "name", Nobody)} \ {Nobody}, <<b, 0>>,
                      KindReports(TopicKey(b), "Package", <<b, 0>>))
    BY <1>3 DEF BeginPackage
  <2>2. TopicKey(b) \in Names
    BY <1>3, Begins
  <2>3. /\ diagnostics \cup KindReports(TopicKey(b), "Package", <<b, 0>>) \subseteq diagnostics'
        /\ \A d \in diagnostics' \ (diagnostics \cup KindReports(TopicKey(b), "Package", <<b, 0>>)) :
             d.code = "ConflictingAlias"
    BY <2>1, AliasReports
  <2> QED
    BY <1>3, <2>1, <2>2, <2>3, Registers
<1>4. ASSUME NEW b \in Blocks, BeginTopic(b) PROVE KindInv'
  <2>1. CASE Target(b) = "data"
    <3>1. /\ RegisterKind(TopicKey(b), "Data") /\ UNCHANGED <<anchored, aliasing>>
          /\ AddAliases(TopicKey(b), DefaultAliases(b), <<b, 0>>,
                        KindReports(TopicKey(b), "Data", <<b, 0>>))
      BY <1>4, <2>1 DEF BeginTopic
    <3>2. TopicKey(b) \in Names
      BY <1>4, Begins
    <3>3. /\ diagnostics \cup KindReports(TopicKey(b), "Data", <<b, 0>>) \subseteq diagnostics'
          /\ \A d \in diagnostics' \ (diagnostics \cup KindReports(TopicKey(b), "Data", <<b, 0>>)) :
               d.code = "ConflictingAlias"
      BY <3>1, AliasReports
    <3> QED
      BY <1>4, <2>1, <3>1, <3>2, <3>3, Registers
  <2>2. CASE Target(b) # "data"
    <3>1. /\ Target(b) # "package" /\ UNCHANGED <<kind, firstKind, conflicting, anchored, aliasing>>
          /\ AddAliases(TopicKey(b), DefaultAliases(b), <<b, 0>>, {})
      BY <1>4, <2>2 DEF BeginTopic
    <3>2. \A k : Folded(k)' = IF k = TopicKey(b) THEN Folded(k) \cup {b} ELSE Folded(k)
      BY <1>4, Begins, Joins
    <3>3. \A k : IsPackage(k)' = IsPackage(k) /\ IsData(k)' = IsData(k)
      BY <1>1, <2>2, <3>1, <3>2, Static DEF IsPackage, IsData
    <3>4. /\ diagnostics \subseteq diagnostics'
          /\ \A d \in diagnostics' \ diagnostics : d.code = "ConflictingAlias"
      BY <3>1, AliasReports
    <3>5. \A k : \A d \in diagnostics' : Conflict(d, k) => d \in diagnostics
      BY <3>4 DEF Conflict
    <3>6. \A k : \A d : Conflict(d, k)' = Conflict(d, k)
      BY DEF Conflict
    <3> QED
      BY <3>1, <3>3, <3>4, <3>5, <3>6 DEF KindInv
  <2> QED
    BY <2>1, <2>2
<1>5. CASE ApplyTag
  BY <1>1, <1>5, TagFrame, TagReports, JoinsNone, KindFrame
<1>6. CASE CloseBlock \/ EndBlocks \/ NameReexports \/ Describe \/ UNCHANGED vars
  <2>1. UNCHANGED <<todo, kind, firstKind, conflicting, anchored, aliasing, diagnostics>>
    BY <1>6 DEF CloseBlock, EndBlocks, NameReexports, Describe, identity, fallback, vars
  <2> QED
    BY <1>1, <2>1, JoinsNone, KindFrame
<1>7. ASSUME NEW k \in Names, NameDefaults(k) PROVE KindInv'
  <2>1. /\ UNCHANGED <<todo, kind, firstKind, conflicting, anchored, aliasing>>
        /\ diagnostics \subseteq diagnostics'
        /\ \A d \in diagnostics' \ diagnostics : d.code = "ConflictingAlias"
    BY <1>7 DEF NameDefaults, identity, fallback, AddAliases, Report
  <2> QED
    BY <1>1, <2>1, JoinsNone, KindFrame
<1> QED
  BY <1>2, <1>3, <1>4, <1>5, <1>6, <1>7, Steps

-----------------------------------------------------------------------------
(* Aliases *)

Told(k, a) == \E d \in diagnostics : d.code = "ConflictingAlias" /\ d.topic = k /\ d.name = a

\* An alias that someone has belongs to a topic that has it, and whoever else
\* has it was told.
AliasInv ==
  /\ aliases \in [Names -> SUBSET Names] /\ owner \in [Names -> Names \cup {Nobody}]
  /\ \A a \in Names : owner[a] # Nobody => owner[a] \in topics /\ a \in aliases[owner[a]]
  /\ \A k \in Names : \A a \in aliases[k] :
       owner[a] # Nobody /\ (owner[a] # k => Told(k, a))

\* Adding aliases to a topic.
LEMMA AddKeeps ==
  ASSUME AliasInv, NEW k \in Names, NEW N \in SUBSET Names, NEW origin, NEW others,
         AddAliases(k, N, origin, others), topics \subseteq topics', k \in topics'
  PROVE  AliasInv'
<1>1. /\ aliases' = [aliases EXCEPT ![k] = @ \cup N]
      /\ owner' = [a \in Names |-> IF a \in N /\ owner[a] = Nobody THEN k ELSE owner[a]]
      /\ \A a \in N \ aliases[k] : owner[a] \notin {Nobody, k} =>
           Report("ConflictingAlias", k, a, origin) \in diagnostics'
      /\ diagnostics \subseteq diagnostics'
  BY DEF AddAliases
<1>2. /\ aliases \in [Names -> SUBSET Names] /\ owner \in [Names -> Names \cup {Nobody}]
  BY DEF AliasInv
<1>3. aliases' \in [Names -> SUBSET Names] /\ owner' \in [Names -> Names \cup {Nobody}]
  BY <1>1, <1>2
<1>4. \A l \in Names : aliases'[l] = IF l = k THEN aliases[l] \cup N ELSE aliases[l]
  BY <1>1, <1>2
<1>5. \A a \in Names : owner'[a] = IF a \in N /\ owner[a] = Nobody THEN k ELSE owner[a]
  BY <1>1
<1>6. \A l, a : Told(l, a) => Told(l, a)'
  BY <1>1 DEF Told
<1>7. \A a \in N \ aliases[k] : owner[a] \notin {Nobody, k} => Told(k, a)'
  BY <1>1 DEF Told, Report
<1>8. ASSUME NEW a \in Names, owner'[a] # Nobody
      PROVE  owner'[a] \in topics' /\ a \in aliases'[owner'[a]]
  <2>1. CASE a \in N /\ owner[a] = Nobody
    BY <1>4, <1>5, <2>1
  <2>2. CASE ~ (a \in N /\ owner[a] = Nobody)
    BY <1>2, <1>4, <1>5, <1>8, <2>2, ZenonT(30) DEF AliasInv
  <2> QED
    BY <2>1, <2>2
<1>9. ASSUME NEW l \in Names, NEW a \in aliases'[l]
      PROVE  owner'[a] # Nobody /\ (owner'[a] # l => Told(l, a)')
  <2>1. a \in Names /\ k # Nobody
    BY <1>3 DEF Names, Nobody
  <2>2. CASE a \in aliases[l]
    BY <1>5, <1>6, <2>1, <2>2 DEF AliasInv
  <2>3. CASE a \notin aliases[l]
    <3>1. l = k /\ a \in N
      BY <1>4, <2>3
    <3> QED
      BY <1>5, <1>7, <2>1, <2>3, <3>1
  <2> QED
    BY <2>2, <2>3
<1> QED
  BY <1>3, <1>8, <1>9 DEF AliasInv

\* Where aliases stay, they stay unambiguous.
LEMMA AliasFrame ==
  ASSUME AliasInv, UNCHANGED <<aliases, owner, topics>>, diagnostics \subseteq diagnostics'
  PROVE  AliasInv'
<1>1. \A k, a : Told(k, a) => Told(k, a)'
  BY DEF Told
<1> QED
  BY <1>1 DEF AliasInv

\* Each step keeps aliases unambiguous.
LEMMA AliasKeeps ==
  ASSUME FoldInv, AliasInv, unnamed \subseteq topics, [Next]_vars
  PROVE  AliasInv'
<1>1. ASSUME NEW b \in Blocks, LeaveOut(b) PROVE AliasInv'
  BY <1>1, AliasFrame DEF LeaveOut, naming, identity
<1>2. ASSUME NEW b \in Blocks, BeginPackage(b) \/ BeginTopic(b) PROVE AliasInv'
  <2>1. TopicKey(b) \in Names /\ topics' = topics \cup {TopicKey(b)}
    BY <1>2, Begins
  <2>2. /\ {FirstOf(b, "name", Nobody)} \ {Nobody} \in SUBSET Names
        /\ DefaultAliases(b) \in SUBSET Names
    BY NamesAreNames DEF FoldInv
  <2>3. \E N \in SUBSET Names : \E others : AddAliases(TopicKey(b), N, <<b, 0>>, others)
    <3>1. CASE BeginPackage(b)
      BY <2>2, <3>1 DEF BeginPackage
    <3>2. CASE BeginTopic(b)
      BY <2>2, <3>2 DEF BeginTopic
    <3> QED
      BY <1>2, <3>1, <3>2
  <2> QED
    BY <2>1, <2>3, AddKeeps
<1>3. CASE ApplyTag
  <2>1. topics' = topics /\ diagnostics \subseteq diagnostics'
    BY <1>3, TagFrame, TagReports
  <2>2. CASE ApplyAliases
    <3>1. AddAliases(Key, Tag.names, Here, {}) /\ pc = "tags" /\ at \in DOMAIN Tags(block)
          /\ Tag.tag = "aliases"
      BY <2>2 DEF ApplyAliases, IsAt
    <3>2. Tag.names \in SUBSET Names
      BY <3>1, NamesAreNames DEF FoldInv, TagsOf, Tag
    <3>3. Key \in Names /\ Key \in topics'
      BY <2>1, <3>1 DEF FoldInv
    <3> QED
      BY <2>1, <3>1, <3>2, <3>3, AddKeeps
  <2>3. CASE ~ ApplyAliases
    <3>1. UNCHANGED <<aliases, owner>>
      BY <1>3, <2>3 DEF ApplyTag, ApplyUnique, ApplyField, ApplyDocType, ApplyMethod, ApplyParam,
                        ApplyKept, ApplyKeywords, SkipNamespace, naming
    <3> QED
      BY <2>1, <3>1, AliasFrame
  <2> QED
    BY <2>2, <2>3
<1>4. CASE CloseBlock \/ EndBlocks \/ NameReexports \/ Describe \/ UNCHANGED vars
  <2>1. UNCHANGED <<aliases, owner, topics, diagnostics>>
    BY <1>4 DEF CloseBlock, EndBlocks, NameReexports, Describe, identity, naming, vars
  <2> QED
    BY <2>1, AliasFrame
<1>5. ASSUME NEW k \in Names, NameDefaults(k) PROVE AliasInv'
  <2>1. topics' = topics /\ k \in topics
    BY <1>5 DEF NameDefaults, identity
  <2>2. \E N \in SUBSET {PkgName, k} : AddAliases(k, N, NoOrigin, {})
    BY <1>5 DEF NameDefaults
  <2>3. PkgName \in Names
    BY SpecialAssumption
  <2> QED
    BY <2>1, <2>2, <2>3, AddKeeps
<1> QED
  BY <1>1, <1>2, <1>3, <1>4, <1>5, Steps

\* A default alias conflicts with another package topic only.
YieldInv ==
  /\ unnamed \subseteq topics \cap aliasing
  /\ \A d \in diagnostics : d.code = "ConflictingAlias" /\ d.origin = NoOrigin =>
       /\ pc \notin {"blocks", "tags"}
       /\ d.topic \in Names /\ d.name \in Names /\ owner[d.name] # Nobody
       /\ kind[d.topic] = "Package" /\ kind[owner[d.name]] = "Package"

\* Where nothing is said of default aliases, and kinds stay once the blocks
\* are folded, default aliases yield.
LEMMA YieldFrame ==
  ASSUME YieldInv, unnamed' \subseteq topics' \cap aliasing',
         \A d \in diagnostics' \ diagnostics : d.code = "ConflictingAlias" => d.origin # NoOrigin,
         pc \notin {"blocks", "tags"} => UNCHANGED <<kind, owner>> /\ pc' \notin {"blocks", "tags"}
  PROVE  YieldInv'
<1>1. ASSUME NEW d \in diagnostics', d.code = "ConflictingAlias", d.origin = NoOrigin
      PROVE  /\ d \in diagnostics /\ pc \notin {"blocks", "tags"}
  BY <1>1 DEF YieldInv
<1>2. NoOrigin' = NoOrigin
  BY DEF NoOrigin
<1> QED
  BY <1>1, <1>2 DEF YieldInv

\* Each step keeps it so.
LEMMA YieldKeeps ==
  ASSUME FoldInv, KindInv, AliasInv, YieldInv, [Next]_vars
  PROVE  YieldInv'
<1>1. \A b \in Blocks : \A n : <<b, n>> # NoOrigin
  BY BlocksAreMade DEF FoldInv, NoOrigin
<1>2. ASSUME NEW b \in Blocks, LeaveOut(b) PROVE YieldInv'
  <2>1. /\ \A d \in diagnostics' \ diagnostics : d.code \in Refusals
        /\ UNCHANGED <<pc, unnamed, topics, aliasing>> /\ pc = "blocks"
    BY <1>2 DEF LeaveOut, TakeBlock, identity, fallback, Report
  <2>2. "ConflictingAlias" \notin Refusals
    BY DEF Refusals
  <2>3. unnamed' \subseteq topics' \cap aliasing'
    BY <2>1 DEF YieldInv
  <2> QED
    BY <2>1, <2>2, <2>3, YieldFrame
<1>3. ASSUME NEW b \in Blocks, BeginPackage(b) \/ BeginTopic(b) PROVE YieldInv'
  <2>1. unnamed' = unnamed /\ topics \subseteq topics' /\ aliasing \subseteq aliasing' /\ pc = "blocks"
    BY <1>3, Begins DEF BeginPackage, BeginTopic
  <2>2. \A d \in diagnostics' \ diagnostics : d.origin = <<b, 0>>
    <3>1. CASE BeginPackage(b)
      BY <3>1 DEF BeginPackage, AddAliases, KindReports, Report
    <3>2. CASE BeginTopic(b)
      BY <3>2 DEF BeginTopic, AddAliases, KindReports, Report
    <3> QED
      BY <1>3, <3>1, <3>2
  <2>3. unnamed' \subseteq topics' \cap aliasing'
    BY <2>1 DEF YieldInv
  <2> QED
    BY <1>1, <2>1, <2>2, <2>3, YieldFrame
<1>4. CASE ApplyTag
  <2>1. /\ UNCHANGED <<pc, unnamed, topics, aliasing>> /\ pc = "tags"
        /\ \A d \in diagnostics' \ diagnostics : d.origin = Here
    BY <1>4, TagFrame, TagReports
  <2>2. Here # NoOrigin
    BY <1>1, <2>1 DEF FoldInv, Here
  <2>3. unnamed' \subseteq topics' \cap aliasing'
    BY <2>1 DEF YieldInv
  <2> QED
    BY <2>1, <2>2, <2>3, YieldFrame
<1>5. CASE CloseBlock \/ EndBlocks \/ NameReexports \/ Describe \/ UNCHANGED vars
  <2>1. UNCHANGED <<kind, owner, topics, aliasing, diagnostics>>
    BY <1>5 DEF CloseBlock, EndBlocks, NameReexports, Describe, identity, naming, fallback, vars
  <2>2. unnamed' \subseteq topics' \cap aliasing'
    BY <1>5, <2>1 DEF YieldInv, CloseBlock, EndBlocks, NameReexports, Describe, vars
  <2>3. pc \notin {"blocks", "tags"} => pc' \notin {"blocks", "tags"}
    BY <1>5 DEF CloseBlock, EndBlocks, NameReexports, Describe, vars
  <2> QED
    BY <2>1, <2>2, <2>3, YieldFrame
<1>6. ASSUME NEW k \in Names, NameDefaults(k) PROVE YieldInv'
  <2> DEFINE free == {a \in {PkgName, k} :
                        \/ owner[a] \in {Nobody, k}
                        \/ owner[a] \in topics /\ kind[owner[a]] = "Package"}
  <2>1. /\ UNCHANGED <<pc, topics, kind, aliasing>> /\ pc = "aliases"
        /\ k \in unnamed /\ unnamed' = unnamed \ {k}
        /\ AddAliases(k, free, NoOrigin, {})
    BY <1>6 DEF NameDefaults, identity, fallback
  <2>2. /\ owner' = [a \in Names |-> IF a \in free /\ owner[a] = Nobody THEN k ELSE owner[a]]
        /\ \A d \in diagnostics' \ diagnostics :
             \E a \in free : owner[a] \notin {Nobody, k} /\ d = Report("ConflictingAlias", k, a, NoOrigin)
    BY <2>1 DEF AddAliases
  <2>3. kind[k] = "Package"
    BY <2>1 DEF YieldInv, KindInv
  <2>4. \A a \in free : a \in Names
    BY SpecialAssumption
  <2>5. \A a \in Names : owner[a] # Nobody => owner'[a] = owner[a]
    BY <2>2
  <2>6. ASSUME NEW d \in diagnostics' \ diagnostics
        PROVE  /\ d.topic \in Names /\ d.name \in Names /\ owner'[d.name] # Nobody
               /\ kind'[d.topic] = "Package" /\ kind'[owner'[d.name]] = "Package"
    <3>1. PICK a \in free : owner[a] \notin {Nobody, k} /\ d = Report("ConflictingAlias", k, a, NoOrigin)
      BY <2>2
    <3>2. d.topic = k /\ d.name = a
      BY <3>1 DEF Report
    <3>3. kind[owner[a]] = "Package"
      BY <3>1
    <3> QED
      BY <2>1, <2>3, <2>4, <2>5, <3>1, <3>2, <3>3
  <2>7. ASSUME NEW d \in diagnostics, d.code = "ConflictingAlias", d.origin = NoOrigin
        PROVE  /\ d.topic \in Names /\ d.name \in Names /\ owner'[d.name] # Nobody
               /\ kind'[d.topic] = "Package" /\ kind'[owner'[d.name]] = "Package"
    BY <2>1, <2>5, <2>7 DEF YieldInv
  <2>8. unnamed' \subseteq topics' \cap aliasing'
    BY <2>1 DEF YieldInv
  <2>9. NoOrigin' = NoOrigin
    BY DEF NoOrigin
  <2> QED
    BY <2>1, <2>6, <2>7, <2>8, <2>9 DEF YieldInv
<1> QED
  BY <1>2, <1>3, <1>4, <1>5, <1>6, Steps

-----------------------------------------------------------------------------
(* Order *)

\* The blocks of a topic are in order, before all that are still to come.
OrderInv ==
  /\ merged \in [Names -> Seq(Blocks)] /\ name = [k \in Names |-> name[k]]
  /\ \A k \in Names : k \in topics <=> merged[k] # <<>>
  /\ BlocksAreOrdered

\* Where topics stay, they stay in order.
LEMMA OrderFrame ==
  ASSUME OrderInv, pkg' = pkg, UNCHANGED <<merged, name, topics>>, todo' \subseteq todo
  PROVE  OrderInv'
<1>1. /\ Blocks' = Blocks /\ \A a, b : Precedes(a, b)' = Precedes(a, b)
      /\ \A b : Target(b)' = Target(b) /\ Primary(b)' = Primary(b)
  BY Static
<1>2. /\ merged' \in [Names -> Seq(Blocks')] /\ name' = [k \in Names |-> name'[k]]
      /\ \A k \in Names : k \in topics' <=> merged'[k] # <<>>
  BY <1>1 DEF OrderInv
<1>3. BlocksAreOrdered'
  BY <1>1 DEF OrderInv, BlocksAreOrdered
<1> QED
  BY <1>2, <1>3 DEF OrderInv

\* Each step keeps the blocks in order: the one that is taken next precedes
\* all that are left.
LEMMA OrderKeeps ==
  ASSUME FoldInv, OrderInv, [Next]_vars
  PROVE  OrderInv'
<1>1. pkg' = pkg
  BY PkgStays
<1>2. ASSUME NEW b \in Blocks, LeaveOut(b) PROVE OrderInv'
  BY <1>1, <1>2, OrderFrame DEF LeaveOut, TakeBlock, identity
<1>3. ASSUME NEW b \in Blocks, BeginPackage(b) \/ BeginTopic(b) PROVE OrderInv'
  <2>1. PICK t \in Names : t = TopicKey(b)
    BY <1>3, Begins
  <2>2. /\ b \in todo /\ todo' = todo \ {b} /\ \A c \in todo \ {b} : Precedes(b, c)
        /\ topics' = topics \cup {t} /\ merged' = [merged EXCEPT ![t] = Append(@, b)]
    BY <1>3, <2>1, Begins
  <2>3. /\ Blocks' = Blocks /\ \A x, y : Precedes(x, y)' = Precedes(x, y)
        /\ \A x : Target(x)' = Target(x) /\ Primary(x)' = Primary(x)
    BY <1>1, Static
  <2>4. merged \in [Names -> Seq(Blocks)]
    BY DEF OrderInv
  <2>5. /\ merged' \in [Names -> Seq(Blocks)]
        /\ \A k \in Names : k # t => merged'[k] = merged[k]
        /\ merged'[t] = Append(merged[t], b)
    BY <2>2, <2>4
  <2>6. /\ Len(merged[t]) \in Nat /\ DOMAIN merged[t] = 1 .. Len(merged[t])
        /\ DOMAIN merged'[t] = 1 .. Len(merged[t]) + 1
        /\ \A i \in 1 .. Len(merged[t]) : merged'[t][i] = merged[t][i]
        /\ merged'[t][Len(merged[t]) + 1] = b
        /\ merged'[t] # <<>>
    BY <2>4, <2>5
  <2>7. /\ name' = [k \in Names |-> name'[k]]
        /\ \A k \in Names : k # t => name'[k] = name[k]
        /\ merged[t] # <<>> => name'[t] = name[t]
        /\ merged[t] = <<>> /\ Target(b) # "package" => name'[t] = Primary(b)
    <3>1. CASE BeginPackage(b)
      BY <3>1 DEF BeginPackage, OrderInv
    <3>2. CASE BeginTopic(b)
      <4>1. name' = [name EXCEPT ![t] = IF merged[t] = <<>> THEN Primary(b) ELSE @]
        BY <2>1, <3>2 DEF BeginTopic
      <4> QED
        BY <4>1 DEF OrderInv
    <3> QED
      BY <1>3, <3>1, <3>2
  <2>8. \A k \in Names : k \in topics' <=> merged'[k] # <<>>
    BY <2>2, <2>5, <2>6 DEF OrderInv
  <2>9. ASSUME NEW k \in topics'
        PROVE  /\ \A i, j \in DOMAIN merged'[k] : i < j => Precedes(merged'[k][i], merged'[k][j])
               /\ Target(merged'[k][1]) # "package" => name'[k] = Primary(merged'[k][1])
               /\ \A c \in todo', i \in DOMAIN merged'[k] : Precedes(merged'[k][i], c)
    <3>1. k \in Names
      BY <2>2 DEF FoldInv
    <3>2. CASE k # t
      BY <2>2, <2>5, <2>7, <3>1, <3>2 DEF OrderInv, BlocksAreOrdered
    <3>3. CASE k = t /\ merged[t] = <<>>
      <4>1. Len(merged[t]) = 0
        BY <3>3
      <4>2. DOMAIN merged'[t] = 1 .. 1 /\ merged'[t][1] = b
        BY <2>6, <4>1
      <4> QED
        BY <2>2, <2>7, <3>3, <4>2
    <3>4. CASE k = t /\ merged[t] # <<>>
      <4>1. t \in topics
        BY <3>4 DEF OrderInv
      <4>2. /\ \A i, j \in DOMAIN merged[t] : i < j => Precedes(merged[t][i], merged[t][j])
            /\ Target(merged[t][1]) # "package" => name[t] = Primary(merged[t][1])
            /\ \A c \in todo, i \in DOMAIN merged[t] : Precedes(merged[t][i], c)
        BY <4>1 DEF OrderInv, BlocksAreOrdered
      <4>3. Len(merged[t]) >= 1
        BY <2>4, <3>4
      <4>4. ASSUME NEW i \in DOMAIN merged'[t], NEW j \in DOMAIN merged'[t], i < j
            PROVE  Precedes(merged'[t][i], merged'[t][j])
        <5>1. i \in 1 .. Len(merged[t]) /\ (j \in 1 .. Len(merged[t]) \/ j = Len(merged[t]) + 1)
          BY <2>6, <4>4
        <5> QED
          BY <2>2, <2>6, <4>2, <4>4, <5>1
      <4>5. merged'[t][1] = merged[t][1]
        BY <2>6, <4>3
      <4>6. ASSUME NEW c \in todo', NEW i \in DOMAIN merged'[t]
            PROVE  Precedes(merged'[t][i], c)
        <5>1. i \in 1 .. Len(merged[t]) \/ i = Len(merged[t]) + 1
          BY <2>6
        <5> QED
          BY <2>2, <2>6, <4>2, <5>1
      <4> QED
        BY <2>7, <3>4, <4>2, <4>4, <4>5, <4>6
    <3> QED
      BY <3>2, <3>3, <3>4
  <2>10. BlocksAreOrdered'
    BY <2>3, <2>9 DEF BlocksAreOrdered
  <2> QED
    BY <2>3, <2>5, <2>7, <2>8, <2>10 DEF OrderInv
<1>4. CASE ApplyTag
  BY <1>1, <1>4, TagFrame, OrderFrame
<1>5. CASE CloseBlock \/ EndBlocks \/ NameReexports \/ Describe \/ UNCHANGED vars
  BY <1>1, <1>5, OrderFrame
  DEF CloseBlock, EndBlocks, NameReexports, Describe, identity, vars
<1>6. ASSUME NEW k \in Names, NameDefaults(k) PROVE OrderInv'
  BY <1>1, <1>6, OrderFrame DEF NameDefaults, identity
<1> QED
  BY <1>2, <1>3, <1>4, <1>5, <1>6, Steps

-----------------------------------------------------------------------------
(* What has been said so far *)

\* The tag at origin o has been applied.
Seen(o) == /\ o[1] \in Blocks \ todo
           /\ pc = "tags" /\ o[1] = block => o[2] < at
Said(k, t) == {o \in Offers(k, t) : Seen(o)}
SaidNull(k, t) == {o \in Nulls(k, t) : Seen(o)}

\* Nothing about what the blocks say changes.
LEMMA StaticTags ==
  ASSUME pkg' = pkg
  PROVE  /\ \A k, t : Counted(k, t)' = Counted(k, t)
         /\ \A o : ValueAt(o)' = ValueAt(o)
         /\ \A k, t : Offers(k, t)' = Offers(k, t) /\ Nulls(k, t)' = Nulls(k, t)
         /\ \A o, p : Earlier(o, p)' = Earlier(o, p)
<1>1. \A k, t : Counted(k, t)' = Counted(k, t)
  BY Static DEF Counted
<1>2. \A o : ValueAt(o)' = ValueAt(o)
  BY Static DEF ValueAt
<1>3. \A k, t : Offers(k, t)' = Offers(k, t) /\ Nulls(k, t)' = Nulls(k, t)
  BY <1>1, <1>2 DEF Offers, Nulls
<1>4. \A o, p : Earlier(o, p)' = Earlier(o, p)
  BY Static DEF Earlier
<1> QED
  BY <1>1, <1>2, <1>3, <1>4

\* The tags of topic k that count.
LEMMA Counts ==
  ASSUME NEW k, NEW t, NEW o
  PROVE  o \in Counted(k, t) <=>
           \E b \in BlocksOf(k) : \E i \in TagsOf(b, t) :
             o = <<b, i>> /\ \A j \in TagsOf(b, t) : i <= j
<1>1. o \in Counted(k, t) => \E b \in BlocksOf(k) : \E i \in TagsOf(b, t) :
                                 o = <<b, i>> /\ \A j \in TagsOf(b, t) : i <= j
  <2> SUFFICES ASSUME o \in Counted(k, t)
               PROVE  \E b \in BlocksOf(k) : \E i \in TagsOf(b, t) :
                                 o = <<b, i>> /\ \A j \in TagsOf(b, t) : i <= j
    OBVIOUS
  <2>1. PICK b \in BlocksOf(k) : o \in {b} \X TagsOf(b, t)
    BY DEF Counted
  <2>2. PICK i \in TagsOf(b, t) : o = <<b, i>>
    BY <2>1
  <2>3. \A j \in TagsOf(o[1], t) : o[2] <= j
    BY DEF Counted
  <2> QED
    BY <2>2, <2>3
<1>2. ASSUME NEW b \in BlocksOf(k), NEW i \in TagsOf(b, t), o = <<b, i>>,
             \A j \in TagsOf(b, t) : i <= j
      PROVE  o \in Counted(k, t)
  <2>1. o \in {b} \X TagsOf(b, t) /\ o[1] = b /\ o[2] = i
    BY <1>2
  <2> QED
    BY <1>2, <2>1 DEF Counted
<1> QED
  BY <1>1, <1>2

\* Where no tag is applied, what has been said of a topic stays.
LEMMA SeenStays ==
  ASSUME FoldInv, [Next]_vars, ~ ApplyTag,
         NEW b \in Blocks, Verdict(b) = "merged", NEW i \in DOMAIN Tags(b)
  PROVE  Seen(<<b, i>>)' <=> Seen(<<b, i>>)
<1>1. pkg' = pkg /\ Blocks' = Blocks
  BY PkgStays, Static
<1>2. i \in Nat \ {0}
  BY BlocksAreMade DEF FoldInv, IsBlock, IsSequence, Tags
<1>3. ASSUME NEW c \in Blocks, LeaveOut(c) PROVE Seen(<<b, i>>)' <=> Seen(<<b, i>>)
  <2>1. todo' = todo \ {c} /\ pc' = pc /\ pc = "blocks" /\ Verdict(c) # "merged"
    BY <1>3 DEF LeaveOut, TakeBlock
  <2> QED
    BY <1>1, <2>1 DEF Seen
<1>4. ASSUME NEW c \in Blocks, BeginPackage(c) \/ BeginTopic(c)
      PROVE  Seen(<<b, i>>)' <=> Seen(<<b, i>>)
  <2>1. todo' = todo \ {c} /\ c \in todo /\ pc = "blocks" /\ block' = c /\ at' = 1
    BY <1>4, Begins
  <2>2. CASE b = c
    BY <1>1, <1>2, <1>4, <2>1, <2>2, Begins DEF Seen
  <2>3. CASE b # c
    BY <1>1, <2>1, <2>3 DEF Seen
  <2> QED
    BY <2>2, <2>3
<1>5. CASE CloseBlock
  <2>1. pc = "tags" /\ at \notin DOMAIN Tags(block) /\ pc' = "blocks" /\ todo' = todo
    BY <1>5 DEF CloseBlock
  <2>2. at \in Nat \ {0} /\ block \in Blocks \ todo
    BY <2>1 DEF FoldInv
  <2>3. b = block => i < at
    <3>1. 1 .. i \subseteq DOMAIN Tags(b)
      BY BlocksAreMade DEF FoldInv, IsBlock, IsSequence, Tags
    <3> QED
      BY <1>2, <2>1, <2>2, <3>1
  <2> QED
    BY <1>1, <2>1, <2>3 DEF Seen
<1>6. CASE EndBlocks \/ NameReexports \/ Describe \/ UNCHANGED vars \/ \E k \in Names : NameDefaults(k)
  <2>1. /\ UNCHANGED <<todo, block, at>>
        /\ pc' = "tags" <=> pc = "tags"
    BY <1>6 DEF EndBlocks, NameReexports, Describe, NameDefaults, cursor, vars
  <2> QED
    BY <1>1, <2>1 DEF Seen
<1> QED
  BY <1>3, <1>4, <1>5, <1>6, Steps

\* A tag that is applied has been seen then, and not before.
LEMMA SeenGrows ==
  ASSUME FoldInv, ApplyTag, NEW b \in Blocks, NEW i \in DOMAIN Tags(b)
  PROVE  /\ Seen(<<b, i>>)' <=> Seen(<<b, i>>) \/ <<b, i>> = Here
         /\ ~ Seen(Here)
<1>1. /\ pc = "tags" /\ at' = at + 1 /\ UNCHANGED <<pc, pkg, todo, block>>
  BY TagFrame
<1>2. at \in Nat \ {0} /\ block \in Blocks \ todo /\ Blocks' = Blocks
  BY <1>1, Static DEF FoldInv
<1>3. i \in Nat \ {0}
  BY BlocksAreMade DEF FoldInv, IsBlock, IsSequence, Tags
<1>4. ~ Seen(Here)
  BY <1>1, <1>2 DEF Seen, Here
<1>5. Seen(<<b, i>>)' <=> Seen(<<b, i>>) \/ <<b, i>> = Here
  BY <1>1, <1>2, <1>3 DEF Seen, Here
<1> QED
  BY <1>4, <1>5

\* What has been said, before and after a step.
LEMMA SaidStays ==
  ASSUME FoldInv, [Next]_vars, ~ ApplyTag
  PROVE  \A k, t : Said(k, t)' = Said(k, t) /\ SaidNull(k, t)' = SaidNull(k, t)
<1>1. pkg' = pkg
  BY PkgStays
<1>2. \A k, t : Offers(k, t)' = Offers(k, t) /\ Nulls(k, t)' = Nulls(k, t)
  BY <1>1, StaticTags
<1>3. ASSUME NEW k, NEW t, NEW o \in Counted(k, t) PROVE Seen(o)' <=> Seen(o)
  <2>1. PICK b \in BlocksOf(k) : \E i \in TagsOf(b, t) : o = <<b, i>>
    BY Counts
  <2>2. PICK i \in TagsOf(b, t) : o = <<b, i>>
    BY <2>1
  <2>3. b \in Blocks /\ Verdict(b) = "merged" /\ i \in DOMAIN Tags(b)
    BY DEF BlocksOf, TagsOf
  <2> QED
    BY <2>2, <2>3, SeenStays
<1>4. \A k, t : \A o \in Offers(k, t) \cup Nulls(k, t) : Seen(o)' <=> Seen(o)
  BY <1>3 DEF Offers, Nulls
<1> QED
  BY <1>2, <1>4 DEF Said, SaidNull

\* A tag that counts and has a value is said when it is applied.
LEMMA SaidGrows ==
  ASSUME FoldInv, ApplyTag, NEW k, NEW t
  PROVE  /\ Said(k, t)' = IF Here \in Offers(k, t) THEN Said(k, t) \cup {Here} ELSE Said(k, t)
         /\ SaidNull(k, t)' = IF Here \in Nulls(k, t) THEN SaidNull(k, t) \cup {Here}
                              ELSE SaidNull(k, t)
         /\ Here \notin Said(k, t)
<1>1. pkg' = pkg
  BY TagFrame
<1>2. Offers(k, t)' = Offers(k, t) /\ Nulls(k, t)' = Nulls(k, t)
  BY <1>1, StaticTags
<1>3. ASSUME NEW o \in Counted(k, t)
      PROVE  (Seen(o)' <=> Seen(o) \/ o = Here) /\ ~ Seen(Here)
  <2>1. PICK b \in BlocksOf(k) : \E i \in TagsOf(b, t) : o = <<b, i>>
    BY Counts
  <2>2. PICK i \in TagsOf(b, t) : o = <<b, i>>
    BY <2>1
  <2>3. b \in Blocks /\ i \in DOMAIN Tags(b)
    BY DEF BlocksOf, TagsOf
  <2> QED
    BY <2>2, <2>3, SeenGrows
<1>4. \A o \in Offers(k, t) \cup Nulls(k, t) :
        (Seen(o)' <=> Seen(o) \/ o = Here) /\ ~ Seen(Here)
  BY <1>3 DEF Offers, Nulls
<1> QED
  BY <1>2, <1>4 DEF Said, SaidNull

-----------------------------------------------------------------------------
(* The order of what is said *)

Single == Slots \cup {"docType"}

\* What a tag says of itself alone.
TagCodes == {"DuplicateTag", "ConflictingParamDescription"}
USE DEF TagCodes

\* What has been folded comes before what has not; the slots a block has
\* filled are those of its tags so far; and what is said twice has been said.
SaidInv ==
  /\ \A c \in Blocks \ todo : /\ \A d \in todo : Precedes(c, d)
                              /\ pc = "tags" /\ c # block => Precedes(c, block)
  /\ pc = "tags" => \A t \in Single : t \in slots <=> \E i \in TagsOf(block, t) : i < at
  /\ \A d \in diagnostics : d.code \in TagCodes => Seen(d.origin) /\ d.origin[2] \in Nat

\* What is said twice, where no tag is applied, and where one is.
LEMMA DupStays ==
  ASSUME [Next]_vars, ~ ApplyTag
  PROVE  /\ diagnostics \subseteq diagnostics'
         /\ \A d \in diagnostics' : d.code \in TagCodes => d \in diagnostics
         /\ \A o : Duplicated(o)' <=> Duplicated(o)
<1>1. /\ diagnostics \subseteq diagnostics'
      /\ \A d \in diagnostics' : d.code \in TagCodes => d \in diagnostics
  <2>1. ASSUME NEW b \in Blocks, LeaveOut(b)
        PROVE  /\ diagnostics \subseteq diagnostics'
               /\ \A d \in diagnostics' : d.code \in TagCodes => d \in diagnostics
    <3>1. /\ diagnostics \subseteq diagnostics'
          /\ \A d \in diagnostics' \ diagnostics : d.code \in Refusals
      BY <2>1 DEF LeaveOut, Report
    <3>2. TagCodes \cap Refusals = {}
      BY DEF Refusals
    <3> QED
      BY <3>1, <3>2
  <2>2. ASSUME NEW b \in Blocks, BeginPackage(b) \/ BeginTopic(b)
        PROVE  /\ diagnostics \subseteq diagnostics'
               /\ \A d \in diagnostics' : d.code \in TagCodes => d \in diagnostics
    <3>1. CASE BeginPackage(b)
      BY <3>1 DEF BeginPackage, AddAliases, KindReports, Report
    <3>2. CASE BeginTopic(b)
      BY <3>2 DEF BeginTopic, AddAliases, KindReports, Report
    <3> QED
      BY <2>2, <3>1, <3>2
  <2>3. CASE CloseBlock \/ EndBlocks \/ NameReexports \/ Describe \/ UNCHANGED vars
    BY <2>3 DEF CloseBlock, EndBlocks, NameReexports, Describe, vars
  <2>4. ASSUME NEW k \in Names, NameDefaults(k)
        PROVE  /\ diagnostics \subseteq diagnostics'
               /\ \A d \in diagnostics' : d.code \in TagCodes => d \in diagnostics
    BY <2>4 DEF NameDefaults, AddAliases, Report
  <2> QED
    BY <2>1, <2>2, <2>3, <2>4, Steps
<1> QED
  BY <1>1 DEF Duplicated

\* A tag reports what is said twice at its own place.
LEMMA DupGrows ==
  ASSUME ApplyTag
  PROVE  /\ \A o : Duplicated(o) => Duplicated(o)'
         /\ \A o : Duplicated(o)' => Duplicated(o) \/ o = Here
         /\ \A o : o = Here => (Duplicated(o)' <=>
              Duplicated(o) \/ \E d \in diagnostics' \ diagnostics : d.code = "DuplicateTag")
<1>1. /\ diagnostics \subseteq diagnostics'
      /\ \A d \in diagnostics' \ diagnostics : d.origin = Here
  BY TagReports
<1> QED
  BY <1>1 DEF Duplicated

\* A tag is said once it is applied; the slots are taken.
LEMMA SlotsGrow ==
  ASSUME ApplyTag
  PROVE  slots' \cap Single = (slots \cup {Tag.tag}) \cap Single
<1>1. CASE ApplyUnique
  BY <1>1 DEF ApplyUnique, Reserve
<1>2. CASE ApplyField
  BY <1>2 DEF ApplyField
<1>3. CASE ApplyDocType
  BY <1>3 DEF ApplyDocType, IsAt
<1>4. CASE ApplyMethod
  BY <1>4 DEF ApplyMethod, IsAt
<1>5. CASE ApplyParam \/ ApplyKept \/ ApplyAliases \/ ApplyKeywords \/ SkipNamespace
  <2>1. slots' = slots /\ Tag.tag \in OtherTags \ {"docType"}
    BY <1>5 DEF ApplyParam, ApplyKept, ApplyAliases, ApplyKeywords, SkipNamespace, IsAt, OtherTags
  <2>2. Tag.tag \notin Single
    BY <2>1, SlotsAssumption DEF Single
  <2> QED
    BY <2>1, <2>2
<1> QED
  BY <1>1, <1>2, <1>3, <1>4, <1>5 DEF ApplyTag

\* Each step keeps the order of what is said.
LEMMA SaidKeeps ==
  ASSUME FoldInv, SaidInv, [Next]_vars
  PROVE  SaidInv'
<1>1. pkg' = pkg /\ Blocks' = Blocks
  BY PkgStays, Static
<1>2. /\ \A x, y : Precedes(x, y)' = Precedes(x, y)
      /\ \A x, t : TagsOf(x, t)' = TagsOf(x, t)
  BY <1>1, Static
<1>3. ASSUME NEW b \in Blocks, LeaveOut(b) PROVE SaidInv'
  <2>1. /\ pc = "blocks" /\ pc' = pc /\ b \in todo /\ todo' = todo \ {b}
        /\ \A d \in todo \ {b} : Precedes(b, d) /\ UNCHANGED block
    BY <1>3 DEF LeaveOut, TakeBlock, IsNext, cursor
  <2>2. \A c \in Blocks \ todo' : \A d \in todo' : Precedes(c, d)
    BY <2>1 DEF SaidInv
  <2>3. ~ ApplyTag
    BY <2>1 DEF ApplyTag, ApplyUnique, ApplyField, ApplyDocType, ApplyMethod, ApplyParam, ApplyKept,
                ApplyAliases, ApplyKeywords, SkipNamespace, IsAt
  <2>4. \A o : Seen(o) => Seen(o)'
    BY <1>1, <2>1 DEF Seen
  <2>5. \A d \in diagnostics' : d.code \in TagCodes => Seen(d.origin)' /\ d.origin[2] \in Nat
    BY <2>3, <2>4, DupStays DEF SaidInv
  <2> QED
    BY <1>1, <1>2, <2>1, <2>2, <2>5 DEF SaidInv
<1>4. ASSUME NEW b \in Blocks, BeginPackage(b) \/ BeginTopic(b) PROVE SaidInv'
  <2>1. /\ pc = "blocks" /\ pc' = "tags" /\ b \in todo /\ todo' = todo \ {b}
        /\ \A d \in todo \ {b} : Precedes(b, d)
        /\ block' = b /\ at' = 1 /\ slots' = {}
    BY <1>4, Begins
  <2>2. \A c \in Blocks \ todo' : /\ \A d \in todo' : Precedes(c, d)
                                  /\ c # b => Precedes(c, b)
    BY <2>1 DEF SaidInv
  <2>3. \A t : \A i \in TagsOf(b, t) : ~ (i < 1)
    BY BlocksAreMade DEF FoldInv, IsBlock, IsSequence, Tags, TagsOf
  <2>4. ~ ApplyTag
    BY <2>1 DEF ApplyTag, ApplyUnique, ApplyField, ApplyDocType, ApplyMethod, ApplyParam, ApplyKept,
                ApplyAliases, ApplyKeywords, SkipNamespace, IsAt
  <2>5. \A o : Seen(o) => Seen(o)'
    BY <1>1, <2>1 DEF Seen
  <2>6. \A d \in diagnostics' : d.code \in TagCodes => Seen(d.origin)' /\ d.origin[2] \in Nat
    BY <2>4, <2>5, DupStays DEF SaidInv
  <2>7. \A t : TagsOf(block, t)' = TagsOf(b, t)
    BY <1>2, <2>1
  <2>8. \A t \in Single : t \in slots' <=> \E i \in TagsOf(b, t) : i < at'
    BY <2>1, <2>3
  <2>9. Single' = Single
    BY DEF Single
  <2> QED
    BY <1>1, <1>2, <2>1, <2>2, <2>6, <2>7, <2>8, <2>9 DEF SaidInv
<1>5. CASE ApplyTag
  <2>1. /\ pc = "tags" /\ at' = at + 1 /\ at \in DOMAIN Tags(block)
        /\ UNCHANGED <<pc, todo, block>>
    BY <1>5, TagFrame
  <2>2. at \in Nat \ {0} /\ block \in Blocks \ todo
    BY <2>1 DEF FoldInv
  <2>3. \A t : \A i \in TagsOf(block, t) : i \in Nat
    BY <2>2, BlocksAreMade DEF FoldInv, IsBlock, IsSequence, Tags, TagsOf
  <2>4. \A t : at \in TagsOf(block, t) <=> t = Tag.tag
    BY <2>1 DEF TagsOf, Tag
  <2>5. \A t \in Single : t \in slots' <=> t \in slots \/ t = Tag.tag
    BY <1>5, SlotsGrow
  <2>6. \A t \in Single : t \in slots' <=> \E i \in TagsOf(block, t) : i < at'
    <3>1. \A i \in Nat : i < at + 1 <=> i < at \/ i = at
      BY <2>2
    <3> QED
      BY <2>1, <2>3, <2>4, <2>5, <3>1 DEF SaidInv
  <2>7. \A o : o = Here => Seen(o)' /\ o[2] \in Nat
    BY <1>1, <2>1, <2>2 DEF Seen, Here
  <2>8. \A o : Seen(o) /\ o[2] \in Nat => Seen(o)'
    BY <1>1, <2>1, <2>2 DEF Seen
  <2>9. \A d \in diagnostics' : d.code \in TagCodes => Seen(d.origin)' /\ d.origin[2] \in Nat
    BY <1>5, <2>7, <2>8, TagReports DEF SaidInv
  <2>10. Single' = Single
    BY DEF Single
  <2> QED
    BY <1>1, <1>2, <2>1, <2>6, <2>9, <2>10 DEF SaidInv
<1>6. CASE EndBlocks \/ NameReexports \/ Describe \/ UNCHANGED vars
           \/ \E k \in Names : NameDefaults(k)
  <2>1. /\ UNCHANGED <<todo, block, at, slots>> /\ (pc' = "tags" <=> pc = "tags")
    BY <1>6 DEF EndBlocks, NameReexports, Describe, NameDefaults, cursor, vars
  <2>2. \A o : Seen(o) => Seen(o)'
    BY <1>1, <2>1 DEF Seen
  <2>3. \A d \in diagnostics' : d.code \in TagCodes => d \in diagnostics
    BY <1>6 DEF EndBlocks, NameReexports, Describe, NameDefaults, AddAliases, Report, vars
  <2>4. \A d \in diagnostics' : d.code \in TagCodes => Seen(d.origin)' /\ d.origin[2] \in Nat
    BY <2>2, <2>3 DEF SaidInv
  <2>5. \A t : TagsOf(block, t)' = TagsOf(block, t)
    BY <1>2, <2>1
  <2>6. Single' = Single
    BY DEF Single
  <2> QED
    BY <1>1, <1>2, <2>1, <2>4, <2>5, <2>6 DEF SaidInv
<1>7. CASE CloseBlock
  <2>1. /\ UNCHANGED <<todo, block, diagnostics>> /\ pc' = "blocks" /\ pc = "tags"
    BY <1>7 DEF CloseBlock, cursor
  <2>2. \A o : Seen(o) => Seen(o)'
    BY <1>1, <2>1 DEF Seen
  <2>3. \A d \in diagnostics' : d.code \in TagCodes => Seen(d.origin)' /\ d.origin[2] \in Nat
    BY <2>1, <2>2 DEF SaidInv
  <2> QED
    BY <1>1, <1>2, <2>1, <2>3 DEF SaidInv
<1> QED
  BY <1>3, <1>4, <1>5, <1>6, <1>7, Steps

\* The tag that is applied counts when it is the first of its block, comes
\* after all that has been said, and has not been reported yet.
LEMMA HereCounts ==
  ASSUME FoldInv, SaidInv, ApplyTag
  PROVE  /\ \A k : \A t \in Single :
              Here \in Counted(k, t) <=> k = Key /\ t = Tag.tag /\ t \notin slots
         /\ \A k, t : \A o \in Said(k, t) : Earlier(o, Here)
         /\ ValueAt(Here) = Tag.value /\ ~ Duplicated(Here) /\ Here # NoOrigin
<1>1. pc = "tags" /\ at \in DOMAIN Tags(block) /\ block \in Blocks \ todo /\ at \in Nat \ {0}
      /\ Verdict(block) = "merged" /\ block \in Nat \ {0}
  BY TagFrame, BlocksAreMade DEF FoldInv
<1>2. ASSUME NEW k, NEW t \in Single
      PROVE  Here \in Counted(k, t) <=> k = Key /\ t = Tag.tag /\ t \notin slots
  <2>1. at \in TagsOf(block, t) <=> t = Tag.tag
    BY <1>1 DEF TagsOf, Tag
  <2>2. block \in BlocksOf(k) <=> k = Key
    BY <1>1 DEF BlocksOf, Key
  <2>3. t \in slots <=> \E i \in TagsOf(block, t) : i < at
    BY <1>1 DEF SaidInv
  <2>4. \A i \in TagsOf(block, t) : i \in Nat
    BY <1>1, BlocksAreMade DEF FoldInv, IsBlock, IsSequence, Tags, TagsOf
  <2>5. t \notin slots <=> \A i \in TagsOf(block, t) : at <= i
    BY <1>1, <2>3, <2>4
  <2>6. Here \in Counted(k, t) <=>
          /\ block \in BlocksOf(k) /\ at \in TagsOf(block, t)
          /\ \A j \in TagsOf(block, t) : at <= j
    <3>1. \A b, i : Here = <<b, i>> <=> b = block /\ i = at
      BY DEF Here
    <3> QED
      BY <3>1, Counts
  <2> QED
    BY <2>1, <2>2, <2>5, <2>6
<1>3. ASSUME NEW k, NEW t, NEW o \in Said(k, t) PROVE Earlier(o, Here)
  <2>1. o \in Counted(k, t) /\ Seen(o)
    BY DEF Said, Offers
  <2>2. PICK b \in BlocksOf(k) : \E i \in TagsOf(b, t) : o = <<b, i>>
    BY <2>1, Counts
  <2>3. PICK i \in TagsOf(b, t) : o = <<b, i>>
    BY <2>2
  <2>4. b \in Blocks \ todo /\ (b = block => i < at)
    BY <1>1, <2>1, <2>3 DEF Seen
  <2>5. b # block => Precedes(b, block)
    BY <1>1, <2>4 DEF SaidInv
  <2> QED
    BY <2>3, <2>4, <2>5 DEF Earlier, Here
<1>4. ValueAt(Here) = Tag.value
  BY DEF ValueAt, Here, Tag
<1>5. ~ Seen(Here)
  BY <1>1 DEF Seen, Here
<1>6. ~ Duplicated(Here)
  BY <1>5 DEF Duplicated, SaidInv
<1>7. Here # NoOrigin
  BY <1>1 DEF Here, NoOrigin
<1> QED
  BY <1>2, <1>3, <1>4, <1>6, <1>7

\* What has been said is at a tag of a block.
LEMMA SaidIsSomewhere ==
  ASSUME FoldInv, NEW k, NEW t, NEW o \in Said(k, t)
  PROVE  o # NoOrigin /\ o # Default
<1>1. o \in Counted(k, t)
  BY DEF Said, Offers
<1>2. PICK b \in BlocksOf(k) : \E i \in TagsOf(b, t) : o = <<b, i>>
  BY <1>1, Counts
<1>3. b \in Nat \ {0}
  BY BlocksAreMade DEF FoldInv, BlocksOf
<1> QED
  BY <1>2, <1>3 DEF NoOrigin, Default

\* The type of a topic is the first that has been said of it.
DocInv ==
  /\ docType = [k \in Names |-> docType[k]]
  /\ \A k \in Names :
       /\ Said(k, "docType") # {} => docType[k] \in Earliest(Said(k, "docType"))
       /\ Said(k, "docType") = {} =>
            docType[k] = NoOrigin \/ (pc \in {"defaults", "done", "panic"} /\ docType[k] = Default)
       /\ k \in noDocType <=> Said(k, "docType") = {} /\ SaidNull(k, "docType") # {}
       /\ \A o \in Said(k, "docType") : Duplicated(o) <=> ValueAt(o) # ValueAt(docType[k])

\* The first of what is said stays the first.
LEMMA EarliestStays ==
  ASSUME NEW S, NEW v \in Earliest(S), NEW o, \A p \in S : Earlier(p, o)
  PROVE  v \in Earliest(S \cup {o})
  BY DEF Earliest

\* Nor does a step that leaves the blocks alone change it.
LEMMA EarliestIsStatic ==
  ASSUME pkg' = pkg, NEW S, NEW v
  PROVE  v \in Earliest(S) <=> /\ v \in S
                               /\ \A p \in S : v = p \/ Earlier(v, p)'
  BY StaticTags DEF Earliest

\* Where nothing more is said of types, types stay.
LEMMA DocFrame ==
  ASSUME DocInv, pkg' = pkg, docType' = docType, noDocType' = noDocType,
         \A k : /\ Said(k, "docType")' = Said(k, "docType")
                /\ SaidNull(k, "docType")' = SaidNull(k, "docType")
                /\ \A o \in Said(k, "docType") : Duplicated(o)' <=> Duplicated(o),
         pc \in {"defaults", "done", "panic"} => pc' \in {"defaults", "done", "panic"}
  PROVE  DocInv'
<1>1. /\ \A o : ValueAt(o)' = ValueAt(o)
      /\ \A o, p : Earlier(o, p)' = Earlier(o, p)
  BY StaticTags
<1>2. \A k : Earliest(Said(k, "docType"))' = Earliest(Said(k, "docType"))
  BY <1>1 DEF Earliest
<1>3. \A k : ValueAt(docType[k])' = ValueAt(docType[k])
  BY <1>1
<1>4. NoOrigin' = NoOrigin /\ Default' = Default
  BY DEF NoOrigin, Default
<1> QED
  BY <1>1, <1>2, <1>3, <1>4 DEF DocInv

\* Each step keeps types first.
LEMMA DocKeeps ==
  ASSUME FoldInv, SaidInv, DocInv, [Next]_vars
  PROVE  DocInv'
<1>1. pkg' = pkg
  BY PkgStays
<1>2. /\ \A o : ValueAt(o)' = ValueAt(o)
      /\ \A o, p : Earlier(o, p)' = Earlier(o, p)
  BY <1>1, StaticTags
<1>3. ASSUME ~ ApplyTag
      PROVE  \A k : /\ Said(k, "docType")' = Said(k, "docType")
                    /\ SaidNull(k, "docType")' = SaidNull(k, "docType")
                    /\ \A o \in Said(k, "docType") : Duplicated(o)' <=> Duplicated(o)
  BY <1>3, SaidStays, DupStays
<1>4. CASE ApplyTag /\ ~ ApplyDocType
  <2>1. Tag.tag # "docType" /\ docType' = docType /\ noDocType' = noDocType
    <3>1. "docType" \notin Slots
      BY SlotsAssumption DEF OtherTags
    <3> QED
      BY <1>4, <3>1
      DEF ApplyTag, ApplyUnique, ApplyField, ApplyMethod, ApplyParam, ApplyKept, ApplyAliases,
          ApplyKeywords, SkipNamespace, IsAt, content
  <2>2. \A k : Here \notin Counted(k, "docType")
    BY <1>4, <2>1, HereCounts DEF Single
  <2>3. \A k : Here \notin Offers(k, "docType") /\ Here \notin Nulls(k, "docType")
    BY <2>2 DEF Offers, Nulls
  <2>4. \A k : /\ Said(k, "docType")' = Said(k, "docType")
               /\ SaidNull(k, "docType")' = SaidNull(k, "docType")
               /\ Here \notin Said(k, "docType")
    BY <1>4, <2>3, SaidGrows
  <2>5. \A k : \A o \in Said(k, "docType") : Duplicated(o)' <=> Duplicated(o)
    BY <1>4, <2>4, DupGrows
  <2>6. pc' = pc
    BY <1>4, TagFrame
  <2> QED
    BY <1>1, <2>1, <2>4, <2>5, <2>6, DocFrame
<1>5. CASE ApplyDocType
  <2>1. ApplyTag /\ pc = "tags" /\ pc' = pc /\ Key \in Names /\ Tag.tag = "docType"
    BY <1>5, TagFrame DEF ApplyTag, ApplyDocType, IsAt, FoldInv
  <2>2. /\ \A k : Here \in Counted(k, "docType") <=> k = Key /\ "docType" \notin slots
        /\ \A k : \A o \in Said(k, "docType") : Earlier(o, Here)
        /\ ValueAt(Here) = Tag.value /\ ~ Duplicated(Here) /\ Here # NoOrigin
    BY <2>1, HereCounts DEF Single
  <2>3. \A k : /\ Here \in Offers(k, "docType") <=>
                    k = Key /\ "docType" \notin slots /\ Tag.value # "null"
               /\ Here \in Nulls(k, "docType") <=>
                    k = Key /\ "docType" \notin slots /\ Tag.value = "null"
    BY <2>2 DEF Offers, Nulls
  <2>4. \A k : Here \notin Said(k, "docType")
    BY <2>1, SaidGrows
  <2>5. \A k : \A o \in Said(k, "docType") : Duplicated(o)' <=> Duplicated(o)
    BY <2>1, <2>4, DupGrows
  <2>6. CASE "docType" \in slots
    <3>1. docType' = docType /\ noDocType' = noDocType
      BY <1>5, <2>6 DEF ApplyDocType
    <3>2. \A k : /\ Said(k, "docType")' = Said(k, "docType")
                 /\ SaidNull(k, "docType")' = SaidNull(k, "docType")
      BY <2>1, <2>3, <2>6, SaidGrows
    <3> QED
      BY <1>1, <2>1, <2>5, <3>1, <3>2, DocFrame
  <2>7. CASE "docType" \notin slots
    <3> DEFINE S(k) == Said(k, "docType")
               old == docType[Key]
               same == Tags(old[1])[old[2]].value = Tag.value
    <3>1. /\ docType' = IF Tag.value # "null" /\ old = NoOrigin
                        THEN [docType EXCEPT ![Key] = Here] ELSE docType
          /\ noDocType' = IF old # NoOrigin THEN noDocType
                          ELSE IF Tag.value = "null" THEN noDocType \cup {Key}
                          ELSE noDocType \ {Key}
          /\ diagnostics' = IF Tag.value # "null" /\ old # NoOrigin /\ ~same
                            THEN diagnostics \cup {Report("DuplicateTag", Key, Nobody, Here)}
                            ELSE diagnostics
      BY <1>5, <2>7 DEF ApplyDocType
    <3>2. same <=> ValueAt(old) = ValueAt(Here)
      BY <2>2 DEF ValueAt
    <3>3. old = NoOrigin <=> S(Key) = {}
      <4>1. S(Key) # {} => old \in S(Key)
        BY <2>1 DEF DocInv, Earliest
      <4>2. S(Key) = {} => old = NoOrigin
        BY <2>1 DEF DocInv
      <4> QED
        BY <4>1, <4>2, SaidIsSomewhere
    <3>4. \A k : /\ S(k)' = IF k = Key /\ Tag.value # "null" THEN S(k) \cup {Here} ELSE S(k)
                 /\ SaidNull(k, "docType")' =
                      IF k = Key /\ Tag.value = "null" THEN SaidNull(k, "docType") \cup {Here}
                      ELSE SaidNull(k, "docType")
      BY <2>1, <2>3, <2>7, SaidGrows
    <3>5. \A o : o = Here => (Duplicated(o)' <=> Tag.value # "null" /\ old # NoOrigin /\ ~same)
      <4>1. \A d \in diagnostics : ~ (d.code = "DuplicateTag" /\ d.origin = Here)
        BY <2>2 DEF Duplicated
      <4>2. /\ Report("DuplicateTag", Key, Nobody, Here).code = "DuplicateTag"
            /\ Report("DuplicateTag", Key, Nobody, Here).origin = Here
        BY DEF Report
      <4> QED
        BY <3>1, <4>1, <4>2 DEF Duplicated
    <3>6. /\ docType' = [k \in Names |-> docType'[k]]
          /\ \A k \in Names : k # Key => /\ docType'[k] = docType[k]
                                         /\ k \in noDocType' <=> k \in noDocType
          /\ docType'[Key] = IF Tag.value # "null" /\ old = NoOrigin THEN Here ELSE old
          /\ Key \in noDocType' <=> IF old # NoOrigin THEN Key \in noDocType
                                    ELSE Tag.value = "null"
      BY <2>1, <3>1 DEF DocInv
    <3>7. NoOrigin' = NoOrigin /\ Default' = Default
      BY DEF NoOrigin, Default
    <3>8. ASSUME NEW k \in Names
          PROVE  /\ S(k)' # {} => /\ docType'[k] \in S(k)'
                                  /\ \A p \in S(k)' : docType'[k] = p \/ Earlier(docType'[k], p)
                 /\ S(k)' = {} => docType'[k] = NoOrigin
                 /\ k \in noDocType' <=> S(k)' = {} /\ SaidNull(k, "docType")' # {}
                 /\ \A o \in S(k)' : Duplicated(o)' <=> ValueAt(o) # ValueAt(docType'[k])
      <4>1. /\ S(k) # {} => docType[k] \in S(k) /\ \A p \in S(k) : docType[k] = p \/ Earlier(docType[k], p)
            /\ S(k) = {} => docType[k] = NoOrigin
            /\ k \in noDocType <=> S(k) = {} /\ SaidNull(k, "docType") # {}
            /\ \A o \in S(k) : Duplicated(o) <=> ValueAt(o) # ValueAt(docType[k])
        BY <2>1 DEF DocInv, Earliest
      <4>2. \A o \in S(k) : Duplicated(o)' <=> Duplicated(o)
        BY <2>5
      <4>3. CASE k # Key
        BY <3>4, <3>6, <4>1, <4>2, <4>3
      <4>4. CASE k = Key /\ Tag.value = "null"
        <5>1. /\ S(k)' = S(k) /\ docType'[k] = docType[k]
              /\ SaidNull(k, "docType")' = SaidNull(k, "docType") \cup {Here}
          BY <3>4, <3>6, <4>4
        <5>2. k \in noDocType' <=> S(k)' = {} /\ SaidNull(k, "docType")' # {}
          BY <3>3, <3>6, <4>1, <4>4, <5>1
        <5> QED
          BY <4>1, <4>2, <5>1, <5>2
      <4>5. CASE k = Key /\ Tag.value # "null" /\ old = NoOrigin
        <5>1. S(k) = {} /\ S(k)' = {Here} /\ docType'[k] = Here /\ k \notin noDocType'
          BY <3>3, <3>4, <3>6, <4>5
        <5> QED
          BY <3>5, <4>5, <5>1
      <4>6. CASE k = Key /\ Tag.value # "null" /\ old # NoOrigin
        <5>1. /\ S(k) # {} /\ S(k)' = S(k) \cup {Here} /\ docType'[k] = docType[k]
              /\ k \notin noDocType' /\ docType[k] = old
          BY <3>3, <3>4, <3>6, <4>1, <4>6
        <5>2. Earlier(old, Here)
          BY <2>2, <4>1, <5>1
        <5>3. \A o : o = Here => (Duplicated(o)' <=> ValueAt(o) # ValueAt(old))
          BY <3>2, <3>5, <4>6
        <5> QED
          BY <4>1, <4>2, <5>1, <5>2, <5>3
      <4> QED
        BY <4>3, <4>4, <4>5, <4>6
    <3>9. \A k \in Names : ValueAt(docType[k])' = ValueAt(docType'[k])
      BY Static, <1>1 DEF ValueAt
    <3>10. \A k \in Names : S(k)' # {} => (docType[k] \in Earliest(S(k)))'
      BY <1>2, <3>8 DEF Earliest
    <3>11. \A k \in Names : \A o \in S(k)' : Duplicated(o)' <=> ValueAt(o)' # ValueAt(docType[k])'
      BY <1>2, <3>8, <3>9
    <3> QED
      BY <3>6, <3>7, <3>8, <3>10, <3>11 DEF DocInv
  <2> QED
    BY <2>6, <2>7
<1>6. CASE ~ ApplyTag /\ ~ NameReexports
  <2>1. /\ docType' = docType /\ noDocType' = noDocType
        /\ pc \in {"defaults", "done", "panic"} => pc' \in {"defaults", "done", "panic"}
    <3>1. CASE \E b \in Blocks : LeaveOut(b) \/ BeginPackage(b) \/ BeginTopic(b)
      BY <3>1 DEF LeaveOut, BeginPackage, BeginTopic, TakeBlock, OpenBlock, content
    <3>2. CASE CloseBlock \/ EndBlocks \/ Describe \/ UNCHANGED vars \/ \E k \in Names : NameDefaults(k)
      BY <3>2 DEF CloseBlock, EndBlocks, Describe, NameDefaults, content, vars
    <3> QED
      BY <1>6, <3>1, <3>2, Steps
  <2> QED
    BY <1>1, <1>3, <1>6, <2>1, DocFrame
<1>7. CASE NameReexports /\ ~ ApplyTag
  <2>1. pc = "aliases" /\ pc' = "defaults" /\ noDocType' = noDocType /\ UNCHANGED diagnostics
    BY <1>7 DEF NameReexports
  <2>2. /\ docType' = [k \in Names |-> docType'[k]]
        /\ \A k \in Names : \/ docType'[k] = docType[k]
                            \/ docType[k] = NoOrigin /\ docType'[k] = Default
    BY <1>7 DEF NameReexports
  <2>3. \A k : /\ Said(k, "docType")' = Said(k, "docType")
               /\ SaidNull(k, "docType")' = SaidNull(k, "docType")
               /\ \A o \in Said(k, "docType") : Duplicated(o)' <=> Duplicated(o)
    BY <1>3, <1>7
  <2>4. ASSUME NEW k \in Names, Said(k, "docType") # {}
        PROVE  docType'[k] = docType[k]
    <3>1. docType[k] \in Said(k, "docType")
      BY <2>4 DEF DocInv, Earliest
    <3> QED
      BY <2>2, <3>1, SaidIsSomewhere
  <2>5. \A k \in Names : ValueAt(docType[k])' = ValueAt(docType'[k])
    BY Static, <1>1 DEF ValueAt
  <2>6. \A k \in Names : Said(k, "docType")' # {} => (docType[k] \in Earliest(Said(k, "docType")))'
    BY <1>2, <2>3, <2>4 DEF DocInv, Earliest
  <2>7. \A k \in Names : \A o \in Said(k, "docType")' :
          Duplicated(o)' <=> ValueAt(o)' # ValueAt(docType[k])'
    BY <1>2, <2>3, <2>4, <2>5 DEF DocInv
  <2>8. NoOrigin' = NoOrigin /\ Default' = Default
    BY DEF NoOrigin, Default
  <2>9. \A k \in Names : Said(k, "docType") = {} => docType[k] = NoOrigin
    BY <2>1 DEF DocInv
  <2> QED
    BY <2>1, <2>2, <2>3, <2>6, <2>7, <2>8, <2>9 DEF DocInv
<1> QED
  BY <1>4, <1>5, <1>6, <1>7 DEF ApplyTag

-----------------------------------------------------------------------------
(* Values and defaults *)

IsReexport(k) == \E b \in Folded(k) : Target(b) = "reexport"
Suppressing(k, s) == s \in FallbackSlots /\ \E b \in Folded(k) : HasNull(b, s)

\* A topic has the blocks folded into it, the suppressions they ask for and
\* what they re-export.
FallInv ==
  /\ suppressed = [k \in Names |-> suppressed[k]] /\ reexports = [k \in Names |-> reexports[k]]
  /\ \A k \in Names : /\ Folded(k) # {} => k \in topics
                      /\ \A s : s \in suppressed[k] <=> Suppressing(k, s)
                      /\ reexports[k] # {} <=> IsReexport(k)

\* Where the blocks of the topics stay, all of it stays.
LEMMA FallFrame ==
  ASSUME FallInv, pkg' = pkg, \A k : Folded(k)' = Folded(k),
         UNCHANGED <<topics, suppressed, reexports>>
  PROVE  FallInv'
<1>1. \A k : IsReexport(k)' = IsReexport(k)
  BY Static DEF IsReexport
<1>2. \A k, s : Suppressing(k, s)' = Suppressing(k, s)
  BY Static DEF Suppressing, FallbackSlots
<1> QED
  BY <1>1, <1>2 DEF FallInv

\* Each step keeps it so.
LEMMA FallKeeps ==
  ASSUME FoldInv, FallInv, [Next]_vars
  PROVE  FallInv'
<1>1. pkg' = pkg
  BY PkgStays
<1>2. ASSUME NEW b \in Blocks, LeaveOut(b) PROVE FallInv'
  <2>1. todo' = todo \ {b} /\ Verdict(b) # "merged" /\ UNCHANGED <<topics, suppressed, reexports>>
    BY <1>2 DEF LeaveOut, TakeBlock, identity, fallback
  <2> QED
    BY <1>1, <2>1, JoinsNot, FallFrame
<1>3. ASSUME NEW b \in Blocks, BeginPackage(b) \/ BeginTopic(b) PROVE FallInv'
  <2>1. PICK t \in Names : t = TopicKey(b)
    BY <1>3, Begins
  <2>2. topics' = topics \cup {t} /\ RecordSuppression(b, t)
    BY <1>3, <2>1, Begins DEF BeginPackage, BeginTopic
  <2>3. \A k : Folded(k)' = IF k = t THEN Folded(k) \cup {b} ELSE Folded(k)
    BY <1>3, <2>1, Begins, Joins
  <2>4. /\ reexports' = [k \in Names |-> reexports'[k]]
        /\ \A k \in Names : reexports'[k] # {} <=> reexports[k] # {} \/ (k = t /\ Target(b) = "reexport")
    <3>1. CASE BeginPackage(b)
      BY <3>1 DEF BeginPackage, FallInv
    <3>2. CASE BeginTopic(b)
      <4>1. reexports' = [reexports EXCEPT ![t] =
                            IF Target(b) = "reexport" THEN @ \cup {ObjectName(b)} ELSE @]
        BY <2>1, <3>2 DEF BeginTopic
      <4> QED
        BY <4>1 DEF FallInv
    <3> QED
      BY <1>3, <3>1, <3>2
  <2>5. /\ suppressed' = [k \in Names |-> suppressed'[k]]
        /\ \A k \in Names : \A s : s \in suppressed'[k] <=>
             s \in suppressed[k] \/ (k = t /\ s \in FallbackSlots /\ HasNull(b, s))
    BY <2>2 DEF RecordSuppression, FallInv
  <2>6. \A k : \A s : Suppressing(k, s)' <=>
          Suppressing(k, s) \/ (k = t /\ s \in FallbackSlots /\ HasNull(b, s))
    <3> SUFFICES ASSUME NEW k, NEW s
                 PROVE  Suppressing(k, s)' <=>
                          Suppressing(k, s) \/ (k = t /\ s \in FallbackSlots /\ HasNull(b, s))
      OBVIOUS
    <3>1. \A c : HasNull(c, s)' = HasNull(c, s)
      BY <1>1, Static
    <3>2. Suppressing(k, s)' <=> s \in FallbackSlots /\ \E c \in Folded(k)' : HasNull(c, s)
      BY <3>1 DEF Suppressing, FallbackSlots
    <3>3. Suppressing(k, s) <=> s \in FallbackSlots /\ \E c \in Folded(k) : HasNull(c, s)
      BY DEF Suppressing
    <3>4. Folded(k)' = IF k = t THEN Folded(k) \cup {b} ELSE Folded(k)
      BY <2>3
    <3> HIDE DEF Folded, Suppressing
    <3> QED
      BY <3>2, <3>3, <3>4
  <2>7. \A k : IsReexport(k)' <=> IsReexport(k) \/ (k = t /\ Target(b) = "reexport")
    <3>1. \A c : Target(c)' = Target(c)
      BY <1>1, Static
    <3> QED
      BY <2>3, <3>1 DEF IsReexport
  <2> QED
    BY <2>2, <2>3, <2>4, <2>5, <2>6, <2>7 DEF FallInv
<1>4. CASE ApplyTag
  BY <1>1, <1>4, TagFrame, JoinsNone, FallFrame
<1>5. CASE CloseBlock \/ EndBlocks \/ NameReexports \/ Describe \/ UNCHANGED vars
           \/ \E k \in Names : NameDefaults(k)
  <2>1. UNCHANGED <<todo, topics, suppressed, reexports>>
    BY <1>5 DEF CloseBlock, EndBlocks, NameReexports, Describe, NameDefaults, identity, fallback, vars
  <2> QED
    BY <1>1, <2>1, JoinsNone, FallFrame
<1> QED
  BY <1>2, <1>3, <1>4, <1>5, Steps

\* What stands where nothing is said.
Gap(k, s) ==
  IF \/ pc \in {"done", "panic"} /\ IsPackage(k) /\ s \in described /\ ~ Suppressing(k, s)
     \/ pc \in {"defaults", "done", "panic"} /\ s = "title" /\ IsReexport(k)
  THEN Default ELSE NoOrigin

\* Slot s of topic k has the first value that has been said, and any other
\* tag so far is reported.
IsKept(k, s) ==
  /\ Said(k, s) # {} => value[k][s] \in Earliest(Said(k, s))
  /\ Said(k, s) = {} => value[k][s] = Gap(k, s)
  /\ \A b \in BlocksOf(k) : \A i \in TagsOf(b, s) :
       Seen(<<b, i>>) =>
         (Duplicated(<<b, i>>) <=>
            <<b, i>> \notin Counted(k, s) \/ (<<b, i>> \in Offers(k, s) /\ <<b, i>> # value[k][s]))

ValueInv ==
  /\ value = [k \in Names |-> [s \in Slots |-> value[k][s]]]
  /\ \A k \in Names : \A s \in Slots : IsKept(k, s)

\* Where nothing more is said of a slot, it stays.
LEMMA KeptFrame ==
  ASSUME NEW k, NEW s, IsKept(k, s), pkg' = pkg, value'[k][s] = value[k][s],
         Said(k, s)' = Said(k, s), Said(k, s) = {} => Gap(k, s)' = Gap(k, s),
         \A b \in BlocksOf(k) : \A i \in TagsOf(b, s) :
           (Seen(<<b, i>>)' <=> Seen(<<b, i>>)) /\ (Duplicated(<<b, i>>)' <=> Duplicated(<<b, i>>))
  PROVE  IsKept(k, s)'
<1>1. /\ \A o, p : Earlier(o, p)' = Earlier(o, p)
      /\ Offers(k, s)' = Offers(k, s) /\ Counted(k, s)' = Counted(k, s)
  BY StaticTags
<1>2. BlocksOf(k)' = BlocksOf(k) /\ \A b : TagsOf(b, s)' = TagsOf(b, s)
  BY Static
<1>3. Said(k, s)' # {} => (value[k][s] \in Earliest(Said(k, s)))'
  BY <1>1 DEF IsKept, Earliest
<1>4. Said(k, s)' = {} => value'[k][s] = Gap(k, s)'
  BY DEF IsKept
<1>5. \A b \in BlocksOf(k)' : \A i \in TagsOf(b, s)' :
        Seen(<<b, i>>)' =>
          (Duplicated(<<b, i>>)' <=> <<b, i>> \notin Counted(k, s)'
               \/ (<<b, i>> \in Offers(k, s)' /\ <<b, i>> # value'[k][s]))
  BY <1>1, <1>2 DEF IsKept
<1> QED
  BY <1>3, <1>4, <1>5 DEF IsKept

\* Nothing stands in a gap until the blocks are folded.
LEMMA GapStays ==
  ASSUME FoldInv, [Next]_vars, ~ NameReexports, ~ Describe, NEW k, NEW s
  PROVE  Gap(k, s)' = Gap(k, s)
<1>1. NoOrigin' = NoOrigin /\ Default' = Default
  BY DEF NoOrigin, Default
<1>2. CASE UNCHANGED vars
  <2>1. pkg' = pkg /\ described' = described /\ todo' = todo /\ pc' = pc
    BY <1>2 DEF vars
  <2>2. Folded(k)' = Folded(k) /\ \A b : Target(b)' = Target(b) /\ HasNull(b, s)' = HasNull(b, s)
    BY <2>1, JoinsNone, Static
  <2>3. IsPackage(k)' = IsPackage(k) /\ IsReexport(k)' = IsReexport(k)
        /\ Suppressing(k, s)' = Suppressing(k, s)
    BY <2>2 DEF IsPackage, IsReexport, Suppressing, FallbackSlots
  <2> QED
    BY <1>1, <2>1, <2>3 DEF Gap
<1>3. CASE /\ ~ UNCHANGED vars
           /\ pc \notin {"defaults", "done", "panic"} /\ pc' \notin {"defaults", "done", "panic"}
  BY <1>1, <1>3 DEF Gap
<1>4. ~ UNCHANGED vars => /\ pc \notin {"defaults", "done", "panic"}
                          /\ pc' \notin {"defaults", "done", "panic"}
  <2> SUFFICES ASSUME ~ UNCHANGED vars
               PROVE  pc \notin {"defaults", "done", "panic"} /\ pc' \notin {"defaults", "done", "panic"}
    OBVIOUS
  <2>1. CASE \E b \in Blocks : LeaveOut(b) \/ BeginPackage(b) \/ BeginTopic(b)
    BY <2>1 DEF LeaveOut, BeginPackage, BeginTopic, TakeBlock, OpenBlock
  <2>2. CASE ApplyTag
    BY <2>2, TagFrame
  <2>3. CASE CloseBlock \/ EndBlocks \/ \E l \in Names : NameDefaults(l)
    BY <2>3 DEF CloseBlock, EndBlocks, NameDefaults
  <2> QED
    BY <2>1, <2>2, <2>3, Steps
<1> QED
  BY <1>2, <1>3, <1>4

\* A tag says something new of its own slot only.
LEMMA TagKeepsOthers ==
  ASSUME FoldInv, SaidInv, ApplyTag, [Next]_vars, NEW k \in Names, NEW s \in Slots, IsKept(k, s),
         ~ (k = Key /\ s = Tag.tag), value'[k][s] = value[k][s]
  PROVE  IsKept(k, s)'
<1>1. pkg' = pkg
  BY PkgStays
<1>2. Here \notin Counted(k, s)
  BY HereCounts DEF Single
<1>3. Said(k, s)' = Said(k, s)
  BY <1>2, SaidGrows DEF Offers
<1>4. Gap(k, s)' = Gap(k, s)
  <2>1. pc = "tags"
    BY TagFrame
  <2>2. ~ NameReexports /\ ~ Describe
    BY <2>1 DEF NameReexports, Describe
  <2> QED
    BY <2>2, GapStays
<1>5. ASSUME NEW b \in BlocksOf(k), NEW i \in TagsOf(b, s)
      PROVE  (Seen(<<b, i>>)' <=> Seen(<<b, i>>)) /\ (Duplicated(<<b, i>>)' <=> Duplicated(<<b, i>>))
  <2>1. b \in Blocks /\ i \in DOMAIN Tags(b) /\ TopicKey(b) = k /\ Tags(b)[i].tag = s
    BY DEF BlocksOf, TagsOf
  <2>2. <<b, i>> # Here
    BY <2>1 DEF Here, Key, Tag
  <2> QED
    BY <2>1, <2>2, SeenGrows, DupGrows
<1> QED
  BY <1>1, <1>3, <1>4, <1>5, KeptFrame

\* A tag of a slot.
LEMMA FieldKeeps ==
  ASSUME FoldInv, SaidInv, ApplyField, [Next]_vars,
         NEW k \in Names, NEW s \in Slots, IsKept(k, s), k = Key, s = Tag.tag,
         value = [l \in Names |-> [u \in Slots |-> value[l][u]]]
  PROVE  IsKept(k, s)'
<1>1. pkg' = pkg
  BY PkgStays
<1>2. ApplyTag /\ pc = "tags" /\ pc' = "tags"
  BY TagFrame DEF ApplyTag
<1>3. /\ \A o, p : Earlier(o, p)' = Earlier(o, p)
      /\ Offers(k, s)' = Offers(k, s) /\ Counted(k, s)' = Counted(k, s)
  BY <1>1, StaticTags
<1>4. BlocksOf(k)' = BlocksOf(k) /\ \A b : TagsOf(b, s)' = TagsOf(b, s)
  BY <1>1, Static
<1>5. /\ Here \in Counted(k, s) <=> s \notin slots
      /\ \A o \in Said(k, s) : Earlier(o, Here)
      /\ ValueAt(Here) = Tag.value /\ ~ Duplicated(Here) /\ Here # NoOrigin
  BY <1>2, HereCounts DEF Single
<1>6. Here \in Offers(k, s) <=> s \notin slots /\ Tag.value # "null"
  BY <1>5 DEF Offers
<1>7. /\ Said(k, s)' = IF s \notin slots /\ Tag.value # "null" THEN Said(k, s) \cup {Here} ELSE Said(k, s)
      /\ Here \notin Said(k, s)
  BY <1>2, <1>6, SaidGrows
<1>8. Gap(k, s) = NoOrigin /\ Gap(k, s)' = NoOrigin
  BY <1>2 DEF Gap, NoOrigin
<1>9. value[k][s] = NoOrigin <=> Said(k, s) = {}
  <2>1. Said(k, s) # {} => value[k][s] \in Said(k, s)
    BY DEF IsKept, Earliest
  <2>2. Said(k, s) = {} => value[k][s] = NoOrigin
    BY <1>8 DEF IsKept
  <2> QED
    BY <2>1, <2>2, SaidIsSomewhere
<1>10. /\ value' = IF s \notin slots /\ Tag.value # "null" /\ value[k][s] = NoOrigin
                   THEN [value EXCEPT ![k][s] = Here] ELSE value
       /\ diagnostics' = IF s \in slots \/ (Tag.value # "null" /\ value[k][s] # NoOrigin)
                         THEN diagnostics \cup {Report("DuplicateTag", Key, Nobody, Here)}
                         ELSE diagnostics
  BY DEF ApplyField
<1>11. value'[k][s] = IF s \notin slots /\ Tag.value # "null" /\ value[k][s] = NoOrigin
                      THEN Here ELSE value[k][s]
  BY <1>10
<1>12. \A o : o = Here =>
         (Duplicated(o)' <=> s \in slots \/ (Tag.value # "null" /\ value[k][s] # NoOrigin))
  <2>1. \A d \in diagnostics : ~ (d.code = "DuplicateTag" /\ d.origin = Here)
    BY <1>5 DEF Duplicated
  <2>2. /\ Report("DuplicateTag", Key, Nobody, Here).code = "DuplicateTag"
        /\ Report("DuplicateTag", Key, Nobody, Here).origin = Here
    BY DEF Report
  <2> QED
    BY <1>10, <2>1, <2>2 DEF Duplicated
<1>13. Said(k, s)' # {} => (value[k][s] \in Earliest(Said(k, s)))'
  <2>1. Said(k, s)' # {} => /\ value'[k][s] \in Said(k, s)'
                            /\ \A p \in Said(k, s)' : value'[k][s] = p \/ Earlier(value'[k][s], p)
    <3>1. Said(k, s) # {} => /\ value[k][s] \in Said(k, s)
                             /\ \A p \in Said(k, s) : value[k][s] = p \/ Earlier(value[k][s], p)
      BY DEF IsKept, Earliest
    <3>2. CASE s \notin slots /\ Tag.value # "null" /\ value[k][s] = NoOrigin
      BY <1>7, <1>9, <1>11, <3>2
    <3>3. CASE s \notin slots /\ Tag.value # "null" /\ value[k][s] # NoOrigin
      BY <1>5, <1>7, <1>9, <1>11, <3>1, <3>3
    <3>4. CASE ~ (s \notin slots /\ Tag.value # "null")
      BY <1>7, <1>11, <3>1, <3>4
    <3> QED
      BY <3>2, <3>3, <3>4
  <2> QED
    BY <1>3, <2>1 DEF Earliest
<1>14. Said(k, s)' = {} => value'[k][s] = Gap(k, s)'
  BY <1>7, <1>8, <1>9, <1>11
<1>15. ASSUME NEW b \in BlocksOf(k), NEW i \in TagsOf(b, s), Seen(<<b, i>>)'
       PROVE  Duplicated(<<b, i>>)' <=> \/ <<b, i>> \notin Counted(k, s)
                                        \/ <<b, i>> \in Offers(k, s) /\ <<b, i>> # value'[k][s]
  <2>1. b \in Blocks /\ i \in DOMAIN Tags(b)
    BY DEF BlocksOf, TagsOf
  <2>2. CASE <<b, i>> = Here
    BY <1>5, <1>6, <1>7, <1>9, <1>11, <1>12, <2>2 DEF IsKept, Earliest
  <2>3. CASE <<b, i>> # Here
    <3>1. Seen(<<b, i>>) /\ (Duplicated(<<b, i>>)' <=> Duplicated(<<b, i>>))
      BY <1>2, <1>15, <2>1, <2>3, SeenGrows, DupGrows
    <3>2. <<b, i>> \in Offers(k, s) => <<b, i>> \in Said(k, s)
      BY <3>1 DEF Said
    <3>3. <<b, i>> \in Offers(k, s) => value'[k][s] = value[k][s]
      BY <1>9, <1>11, <3>2
    <3> QED
      BY <3>1, <3>3 DEF IsKept
  <2> QED
    BY <2>2, <2>3
<1>16. \A b \in BlocksOf(k)' : \A i \in TagsOf(b, s)' :
         Seen(<<b, i>>)' =>
           (Duplicated(<<b, i>>)' <=> <<b, i>> \notin Counted(k, s)'
               \/ (<<b, i>> \in Offers(k, s)' /\ <<b, i>> # value'[k][s]))
  BY <1>3, <1>4, <1>15
<1> QED
  BY <1>13, <1>14, <1>16 DEF IsKept

\* A default fills a gap, and nothing else.
LEMMA DefaultKeeps ==
  ASSUME FoldInv, [Next]_vars, ~ ApplyTag, NEW k \in Names, NEW s \in Slots, IsKept(k, s),
         Said(k, s) # {} => value'[k][s] = value[k][s],
         Said(k, s) = {} => value'[k][s] = Gap(k, s)'
  PROVE  IsKept(k, s)'
<1>1. pkg' = pkg
  BY PkgStays
<1>2. /\ \A o, p : Earlier(o, p)' = Earlier(o, p)
      /\ Offers(k, s)' = Offers(k, s) /\ Counted(k, s)' = Counted(k, s)
  BY <1>1, StaticTags
<1>3. BlocksOf(k)' = BlocksOf(k) /\ \A b : TagsOf(b, s)' = TagsOf(b, s)
  BY <1>1, Static
<1>4. Said(k, s)' = Said(k, s)
  BY SaidStays
<1>5. Said(k, s)' # {} => (value[k][s] \in Earliest(Said(k, s)))'
  BY <1>2, <1>4 DEF IsKept, Earliest
<1>6. ASSUME NEW b \in BlocksOf(k), NEW i \in TagsOf(b, s), Seen(<<b, i>>)'
      PROVE  Duplicated(<<b, i>>)' <=> \/ <<b, i>> \notin Counted(k, s)
                                       \/ <<b, i>> \in Offers(k, s) /\ <<b, i>> # value'[k][s]
  <2>1. b \in Blocks /\ Verdict(b) = "merged" /\ i \in DOMAIN Tags(b)
    BY DEF BlocksOf, TagsOf
  <2>2. Seen(<<b, i>>) /\ (Duplicated(<<b, i>>)' <=> Duplicated(<<b, i>>))
    BY <1>6, <2>1, SeenStays, DupStays
  <2>3. <<b, i>> \in Offers(k, s) => value'[k][s] = value[k][s]
    BY <2>2 DEF Said
  <2> QED
    BY <2>2, <2>3 DEF IsKept
<1>7. \A b \in BlocksOf(k)' : \A i \in TagsOf(b, s)' :
        Seen(<<b, i>>)' =>
          (Duplicated(<<b, i>>)' <=> <<b, i>> \notin Counted(k, s)'
               \/ (<<b, i>> \in Offers(k, s)' /\ <<b, i>> # value'[k][s]))
  BY <1>2, <1>3, <1>6
<1> QED
  BY <1>4, <1>5, <1>7 DEF IsKept

\* What a value is, before and after a default.
LEMMA KeptOrGap ==
  ASSUME FoldInv, NEW k \in Names, NEW s \in Slots, IsKept(k, s)
  PROVE  /\ Said(k, s) # {} => value[k][s] # NoOrigin
         /\ Said(k, s) = {} => value[k][s] = Gap(k, s)
<1>1. Said(k, s) # {} => value[k][s] \in Said(k, s)
  BY DEF IsKept, Earliest
<1> QED
  BY <1>1, SaidIsSomewhere DEF IsKept

\* Each step keeps the first values, and defaults in gaps only.
LEMMA ValueKeeps ==
  ASSUME FoldInv, KindInv, SaidInv, FallInv, ValueInv, [Next]_vars
  PROVE  ValueInv'
<1>1. pkg' = pkg /\ described' = described
  BY PkgStays
<1>2. value = [k \in Names |-> [s \in Slots |-> value[k][s]]]
  BY DEF ValueInv
<1>3. NoOrigin # Default /\ NoOrigin' = NoOrigin /\ Default' = Default
  BY DEF NoOrigin, Default
<1>4. CASE ApplyField
  <2>1. ApplyTag /\ Tag.tag \in Slots /\ Key \in Names
    BY <1>4, TagFrame DEF ApplyTag, ApplyField, IsAt, FoldInv
  <2>2. value' = value \/ value' = [value EXCEPT ![Key][Tag.tag] = Here]
    BY <1>4 DEF ApplyField
  <2>3. /\ value' = [k \in Names |-> [s \in Slots |-> value'[k][s]]]
        /\ \A k \in Names : \A s \in Slots : ~ (k = Key /\ s = Tag.tag) => value'[k][s] = value[k][s]
    <3>1. CASE value' = value
      BY <1>2, <3>1
    <3>2. CASE value' = [value EXCEPT ![Key][Tag.tag] = Here]
      BY <1>2, <2>1, <3>2
    <3> QED
      BY <2>2, <3>1, <3>2
  <2>4. ASSUME NEW k \in Names, NEW s \in Slots PROVE IsKept(k, s)'
    BY <1>2, <1>4, <2>1, <2>3, FieldKeeps, TagKeepsOthers DEF ValueInv
  <2> QED
    BY <2>3, <2>4 DEF ValueInv
<1>5. CASE ApplyTag /\ ~ ApplyField
  <2>1. value' = value /\ Tag.tag \notin Slots
    <3>1. OtherTags \cap Slots = {}
      BY SlotsAssumption
    <3> QED
      BY <1>5, <3>1
      DEF ApplyTag, ApplyUnique, ApplyDocType, ApplyMethod, ApplyParam, ApplyKept, ApplyAliases,
          ApplyKeywords, SkipNamespace, IsAt, content, OtherTags
  <2>2. ASSUME NEW k \in Names, NEW s \in Slots PROVE IsKept(k, s)'
    BY <1>5, <2>1, TagKeepsOthers DEF ValueInv
  <2> QED
    BY <1>2, <2>1, <2>2 DEF ValueInv
<1>6. CASE ~ ApplyTag /\ ~ NameReexports /\ ~ Describe
  <2>1. value' = value
    <3>1. CASE \E b \in Blocks : LeaveOut(b) \/ BeginPackage(b) \/ BeginTopic(b)
      BY <3>1 DEF LeaveOut, BeginPackage, BeginTopic, TakeBlock, OpenBlock, content
    <3>2. CASE CloseBlock \/ EndBlocks \/ UNCHANGED vars \/ \E k \in Names : NameDefaults(k)
      BY <3>2 DEF CloseBlock, EndBlocks, NameDefaults, content, vars
    <3> QED
      BY <1>6, <3>1, <3>2, Steps
  <2>2. ASSUME NEW k \in Names, NEW s \in Slots PROVE IsKept(k, s)'
    <3>1. Gap(k, s)' = Gap(k, s)
      BY <1>6, GapStays
    <3>2. IsKept(k, s)
      BY DEF ValueInv
    <3> QED
      BY <1>6, <2>1, <3>1, <3>2, KeptOrGap, DefaultKeeps
  <2> QED
    BY <1>2, <2>1, <2>2 DEF ValueInv
<1>7. ASSUME todo' = todo, NEW k, NEW s
      PROVE  /\ IsPackage(k)' = IsPackage(k) /\ IsReexport(k)' = IsReexport(k)
             /\ Suppressing(k, s)' = Suppressing(k, s)
  BY <1>1, <1>7, JoinsNone, Static DEF IsPackage, IsReexport, Suppressing, FallbackSlots
<1>8. CASE NameReexports /\ ~ ApplyTag
  <2> DEFINE shared == {k \in topics : reexports[k] # {}}
  <2>1. /\ pc = "aliases" /\ pc' = "defaults" /\ todo' = todo
        /\ value' = [k \in Names |-> IF k \in shared /\ value[k]["title"] = NoOrigin
                               THEN [value[k] EXCEPT !["title"] = Default] ELSE value[k]]
    BY <1>8 DEF NameReexports
  <2>2. \A k \in Names : k \in shared <=> IsReexport(k)
    BY DEF FallInv, IsReexport
  <2>3. ASSUME NEW k \in Names, NEW s \in Slots
        PROVE  value'[k][s] = IF IsReexport(k) /\ s = "title" /\ value[k][s] = NoOrigin
                              THEN Default ELSE value[k][s]
    BY <1>2, <2>1, <2>2, <2>3
  <2>4. value' = [k \in Names |-> [s \in Slots |-> value'[k][s]]]
    <3>1. value' = [k \in Names |-> value'[k]]
      BY <2>1
    <3>2. ASSUME NEW k \in Names PROVE value'[k] = [s \in Slots |-> value'[k][s]]
      <4>1. value[k] = [s \in Slots |-> value[k][s]]
        BY <1>2
      <4> QED
        BY <2>1, <4>1
    <3> QED
      BY <3>1, <3>2
  <2>5. ASSUME NEW k \in Names, NEW s \in Slots PROVE IsKept(k, s)'
    <3>1. /\ Said(k, s) # {} => value[k][s] # NoOrigin
          /\ Said(k, s) = {} => value[k][s] = Gap(k, s)
          /\ IsKept(k, s)
      BY KeptOrGap DEF ValueInv
    <3>2. Gap(k, s) = NoOrigin
      BY <2>1 DEF Gap
    <3>3. Gap(k, s)' = IF s = "title" /\ IsReexport(k) THEN Default ELSE NoOrigin
      BY <1>3, <1>7, <2>1 DEF Gap
    <3>4. Said(k, s) # {} => value'[k][s] = value[k][s]
      BY <2>3, <3>1
    <3>5. Said(k, s) = {} => value'[k][s] = Gap(k, s)'
      BY <2>3, <3>1, <3>2, <3>3
    <3> QED
      BY <1>8, <3>1, <3>4, <3>5, DefaultKeeps
  <2> QED
    BY <2>4, <2>5 DEF ValueInv
<1>9. CASE Describe /\ ~ ApplyTag
  <2>1. /\ pc = "defaults" /\ pc' \in {"done", "panic"} /\ todo' = todo
        /\ value' = [k \in Names |-> [s \in Slots |->
                 IF k \in PackageTopics /\ s \in described /\ value[k][s] = NoOrigin /\ s \notin suppressed[k]
                 THEN Default ELSE value[k][s]]]
    BY <1>9 DEF Describe
  <2>2. ASSUME NEW k \in Names, NEW s \in Slots
        PROVE  k \in PackageTopics /\ s \notin suppressed[k] <=> IsPackage(k) /\ ~ Suppressing(k, s)
    <3>1. s \in suppressed[k] <=> Suppressing(k, s)
      BY DEF FallInv
    <3>2. kind[k] = "Package" <=> IsPackage(k)
      BY DEF KindInv
    <3>3. IsPackage(k) => k \in topics
      BY DEF FallInv, IsPackage
    <3> QED
      BY <3>1, <3>2, <3>3 DEF PackageTopics
  <2>3. value' = [k \in Names |-> [s \in Slots |-> value'[k][s]]]
    BY <2>1
  <2>4. ASSUME NEW k \in Names, NEW s \in Slots PROVE IsKept(k, s)'
    <3>1. /\ Said(k, s) # {} => value[k][s] # NoOrigin
          /\ Said(k, s) = {} => value[k][s] = Gap(k, s)
          /\ IsKept(k, s)
      BY KeptOrGap DEF ValueInv
    <3>2. value'[k][s] = IF /\ IsPackage(k) /\ ~ Suppressing(k, s) /\ s \in described
                            /\ value[k][s] = NoOrigin
                         THEN Default ELSE value[k][s]
      BY <2>1, <2>2
    <3>3. Gap(k, s) = IF s = "title" /\ IsReexport(k) THEN Default ELSE NoOrigin
      BY <2>1 DEF Gap
    <3>4. Gap(k, s)' = IF \/ IsPackage(k) /\ s \in described /\ ~ Suppressing(k, s)
                          \/ s = "title" /\ IsReexport(k)
                       THEN Default ELSE NoOrigin
      BY <1>1, <1>3, <1>7, <2>1 DEF Gap
    <3>5. Said(k, s) # {} => value'[k][s] = value[k][s]
      BY <3>1, <3>2
    <3>6. Said(k, s) = {} => value'[k][s] = Gap(k, s)'
      BY <3>1, <3>2, <3>3, <3>4
    <3> QED
      BY <1>9, <3>1, <3>5, <3>6, DefaultKeeps
  <2> QED
    BY <2>3, <2>4 DEF ValueInv
<1> QED
  BY <1>4, <1>5, <1>6, <1>8, <1>9

-----------------------------------------------------------------------------
(* Parameters *)

\* The tags that have named parameter n of topic k so far.
Mentioned(k, n) == {o \in Mentions(k, n) : Seen(o)}
Refused(k, n, o) == Report("ConflictingParamDescription", k, n, o) \in diagnostics
Twice(n, o) == \E i, j \in Times(o, n) : i # j

\* A parameter has the description of the first tag that has named it.
ParamInv ==
  /\ params = [k \in Names |-> [n \in Names |-> params[k][n]]]
  /\ \A k \in Names : \A n \in Names :
       /\ params[k][n] \in IF Mentioned(k, n) = {} THEN {NoOrigin} ELSE Earliest(Mentioned(k, n))
       /\ \A o \in Mentioned(k, n) : Refused(k, n, o) <=> o # params[k][n] \/ Twice(n, o)

\* The tags that name a parameter.
LEMMA MentionsAre ==
  ASSUME NEW k, NEW n, NEW o
  PROVE  o \in Mentions(k, n) <=>
           /\ \E b \in BlocksOf(k) : \E i \in TagsOf(b, "param") : o = <<b, i>>
           /\ Times(o, n) # {}
<1>1. ASSUME o \in Mentions(k, n)
      PROVE  \E b \in BlocksOf(k) : \E i \in TagsOf(b, "param") : o = <<b, i>>
  <2>1. PICK b \in BlocksOf(k) : o \in {b} \X TagsOf(b, "param")
    BY <1>1 DEF Mentions
  <2> QED
    BY <2>1
<1>2. ASSUME NEW b \in BlocksOf(k), NEW i \in TagsOf(b, "param"), o = <<b, i>>, Times(o, n) # {}
      PROVE  o \in Mentions(k, n)
  <2>1. o \in {b} \X TagsOf(b, "param")
    BY <1>2
  <2> QED
    BY <1>2, <2>1 DEF Mentions
<1> QED
  BY <1>1, <1>2 DEF Mentions

\* Nothing about what the blocks say of parameters changes.
LEMMA StaticMentions ==
  ASSUME pkg' = pkg
  PROVE  /\ \A k, n : Mentions(k, n)' = Mentions(k, n)
         /\ \A n, o : Twice(n, o)' = Twice(n, o)
<1>1. \A o, n : Times(o, n)' = Times(o, n)
  BY Static DEF Times
<1>2. \A k, n : Mentions(k, n)' = Mentions(k, n)
  BY <1>1, Static DEF Mentions
<1>3. \A n, o : Twice(n, o)' = Twice(n, o)
  BY <1>1 DEF Twice
<1> QED
  BY <1>2, <1>3

\* What names a parameter is at a tag of a block.
LEMMA MentionedIsSomewhere ==
  ASSUME FoldInv, NEW k, NEW n, NEW o \in Mentioned(k, n)
  PROVE  o # NoOrigin
<1>1. PICK b \in BlocksOf(k) : \E i \in TagsOf(b, "param") : o = <<b, i>>
  BY MentionsAre DEF Mentioned
<1>2. b \in Nat \ {0}
  BY BlocksAreMade DEF FoldInv, BlocksOf
<1> QED
  BY <1>1, <1>2 DEF NoOrigin

\* What has named a parameter, before and after a step.
LEMMA MentionedStays ==
  ASSUME FoldInv, [Next]_vars, ~ ApplyTag
  PROVE  \A k, n : Mentioned(k, n)' = Mentioned(k, n)
<1>1. \A k, n : Mentions(k, n)' = Mentions(k, n)
  BY PkgStays, StaticMentions
<1>2. ASSUME NEW k, NEW n, NEW o \in Mentions(k, n) PROVE Seen(o)' <=> Seen(o)
  <2>1. PICK b \in BlocksOf(k) : \E i \in TagsOf(b, "param") : o = <<b, i>>
    BY MentionsAre
  <2>2. PICK i \in TagsOf(b, "param") : o = <<b, i>>
    BY <2>1
  <2>3. b \in Blocks /\ Verdict(b) = "merged" /\ i \in DOMAIN Tags(b)
    BY DEF BlocksOf, TagsOf
  <2> QED
    BY <2>2, <2>3, SeenStays
<1> QED
  BY <1>1, <1>2 DEF Mentioned

\* A tag that names a parameter does so when it is applied, after all others.
LEMMA MentionedGrows ==
  ASSUME FoldInv, SaidInv, ApplyTag, NEW k, NEW n
  PROVE  /\ Mentioned(k, n)' = IF Here \in Mentions(k, n) THEN Mentioned(k, n) \cup {Here}
                               ELSE Mentioned(k, n)
         /\ Here \notin Mentioned(k, n)
         /\ Here \in Mentions(k, n) <=> k = Key /\ Tag.tag = "param" /\ Times(Here, n) # {}
         /\ \A o \in Mentioned(k, n) : Earlier(o, Here)
<1>1. Mentions(k, n)' = Mentions(k, n)
  BY TagFrame, StaticMentions
<1>2. /\ pc = "tags" /\ at \in DOMAIN Tags(block) /\ block \in Blocks \ todo /\ at \in Nat \ {0}
      /\ Verdict(block) = "merged"
  BY TagFrame DEF FoldInv
<1>3. ASSUME NEW o \in Mentions(k, n)
      PROVE  /\ Seen(o)' <=> Seen(o) \/ o = Here
             /\ ~ Seen(Here) /\ (Seen(o) => Earlier(o, Here))
  <2>1. PICK b \in BlocksOf(k) : \E i \in TagsOf(b, "param") : o = <<b, i>>
    BY MentionsAre
  <2>2. PICK i \in TagsOf(b, "param") : o = <<b, i>>
    BY <2>1
  <2>3. b \in Blocks /\ i \in DOMAIN Tags(b)
    BY DEF BlocksOf, TagsOf
  <2>4. (Seen(o)' <=> Seen(o) \/ o = Here) /\ ~ Seen(Here)
    BY <2>2, <2>3, SeenGrows
  <2>5. ASSUME Seen(o) PROVE Earlier(o, Here)
    <3>1. b \in Blocks \ todo /\ (b = block => i < at)
      BY <1>2, <2>2, <2>5 DEF Seen
    <3>2. b # block => Precedes(b, block)
      BY <1>2, <3>1 DEF SaidInv
    <3> QED
      BY <2>2, <3>1, <3>2 DEF Earlier, Here
  <2> QED
    BY <2>4, <2>5
<1>4. Here \in Mentions(k, n) <=> k = Key /\ Tag.tag = "param" /\ Times(Here, n) # {}
  <2>1. block \in BlocksOf(k) <=> k = Key
    BY <1>2 DEF BlocksOf, Key
  <2>2. at \in TagsOf(block, "param") <=> Tag.tag = "param"
    BY <1>2 DEF TagsOf, Tag
  <2>3. \A b, i : Here = <<b, i>> <=> b = block /\ i = at
    BY DEF Here
  <2> QED
    BY <2>1, <2>2, <2>3, MentionsAre
<1> QED
  BY <1>1, <1>3, <1>4 DEF Mentioned

\* Where nothing more is said of parameters, descriptions stay.
LEMMA ParamFrame ==
  ASSUME ParamInv, pkg' = pkg, params' = params,
         \A k, n : /\ Mentioned(k, n)' = Mentioned(k, n)
                   /\ \A o \in Mentioned(k, n) : Refused(k, n, o)' <=> Refused(k, n, o)
  PROVE  ParamInv'
<1>1. \A k, n : Earliest(Mentioned(k, n))' = Earliest(Mentioned(k, n))
  BY StaticTags DEF Earliest
<1>2. \A n, o : Twice(n, o)' = Twice(n, o)
  BY StaticMentions
<1>3. NoOrigin' = NoOrigin
  BY DEF NoOrigin
<1> QED
  BY <1>1, <1>2, <1>3 DEF ParamInv

\* Each step keeps descriptions first.
LEMMA ParamKeeps ==
  ASSUME FoldInv, SaidInv, ParamInv, [Next]_vars
  PROVE  ParamInv'
<1>1. pkg' = pkg
  BY PkgStays
<1>2. CASE ~ ApplyTag
  <2>1. params' = params
    <3>1. CASE \E b \in Blocks : LeaveOut(b) \/ BeginPackage(b) \/ BeginTopic(b)
      BY <3>1 DEF LeaveOut, BeginPackage, BeginTopic, TakeBlock, OpenBlock, content
    <3>2. CASE CloseBlock \/ EndBlocks \/ NameReexports \/ Describe \/ UNCHANGED vars
               \/ \E k \in Names : NameDefaults(k)
      BY <3>2 DEF CloseBlock, EndBlocks, NameReexports, Describe, NameDefaults, content, vars
    <3> QED
      BY <1>2, <3>1, <3>2, Steps
  <2>2. \A k, n, o : Refused(k, n, o)' <=> Refused(k, n, o)
    <3>1. \A k, n, o : Report("ConflictingParamDescription", k, n, o).code \in TagCodes
      BY DEF Report
    <3> QED
      BY <1>2, <3>1, DupStays DEF Refused
  <2> QED
    BY <1>1, <1>2, <2>1, <2>2, MentionedStays, ParamFrame
<1>3. ASSUME ApplyTag
      PROVE  \A k, n : \A o \in Mentioned(k, n) : Refused(k, n, o)' <=> Refused(k, n, o)
  <2>1. \A k, n, o : Report("ConflictingParamDescription", k, n, o).origin = o
    BY DEF Report
  <2>2. \A k, n : Here \notin Mentioned(k, n)
    BY <1>3, MentionedGrows
  <2> QED
    BY <1>3, <2>1, <2>2, TagReports DEF Refused
<1>4. CASE ApplyTag /\ ~ ApplyParam
  <2>1. Tag.tag # "param" /\ params' = params
    <3>1. "param" \notin Slots
      BY SlotsAssumption DEF OtherTags
    <3> QED
      BY <1>4, <3>1
      DEF ApplyTag, ApplyUnique, ApplyField, ApplyDocType, ApplyMethod, ApplyKept, ApplyAliases,
          ApplyKeywords, SkipNamespace, IsAt, content
  <2>2. \A k, n : Mentioned(k, n)' = Mentioned(k, n)
    BY <1>4, <2>1, MentionedGrows
  <2> QED
    BY <1>1, <1>3, <1>4, <2>1, <2>2, ParamFrame
<1>5. CASE ApplyParam
  <2> DEFINE listed == {Tag.names[j] : j \in DOMAIN Tag.names}
  <2>1. ApplyTag /\ Key \in Names /\ Tag.tag = "param"
    BY <1>5, TagFrame DEF ApplyTag, ApplyParam, IsAt, FoldInv
  <2>2. \A n : Times(Here, n) = {j \in DOMAIN Tag.names : Tag.names[j] = n}
    BY DEF Times, Here, Tag
  <2>3. \A n : n \in listed <=> Times(Here, n) # {}
    BY <2>2
  <2>4. /\ params' = [params EXCEPT ![Key] = [n \in Names |->
                        IF n \in listed /\ @[n] = NoOrigin THEN Here ELSE @[n]]]
        /\ diagnostics' = diagnostics \cup
             {Report("ConflictingParamDescription", Key, n, Here) :
                n \in {m \in listed : params[Key][m] # NoOrigin \/ Twice(m, Here)}}
    <3>1. \A n : Twice(n, Here) <=> \E i, j \in DOMAIN Tag.names :
                                      i # j /\ Tag.names[i] = n /\ Tag.names[j] = n
      BY <2>2 DEF Twice
    <3>2. params' = [params EXCEPT ![Key] = [n \in Names |->
                        IF n \in listed /\ @[n] = NoOrigin THEN Here ELSE @[n]]]
      BY <1>5 DEF ApplyParam
    <3>3. diagnostics' = diagnostics \cup
            {Report("ConflictingParamDescription", Key, n, Here) :
               n \in {m \in listed : \/ params[Key][m] # NoOrigin
                                     \/ \E i, j \in DOMAIN Tag.names :
                                          i # j /\ Tag.names[i] = m /\ Tag.names[j] = m}}
      BY <1>5 DEF ApplyParam
    <3> QED
      BY <3>1, <3>2, <3>3
  <2>5. params = [k \in Names |-> [n \in Names |-> params[k][n]]]
    BY DEF ParamInv
  <2>6. /\ params' = [k \in Names |-> [n \in Names |-> params'[k][n]]]
        /\ \A k \in Names : \A n \in Names :
             params'[k][n] = IF k = Key /\ n \in listed /\ params[k][n] = NoOrigin
                             THEN Here ELSE params[k][n]
    BY <2>1, <2>4, <2>5
  <2>7. \A n \in listed : \A k, o : k = Key /\ o = Here =>
          (Refused(k, n, o)' <=> params[k][n] # NoOrigin \/ Twice(n, o))
    <3>1. ASSUME NEW n \in listed
          PROVE  Report("ConflictingParamDescription", Key, n, Here) \notin diagnostics
      <4>1. ~ Seen(Here)
        BY <2>1, TagFrame DEF Seen, Here, FoldInv
      <4>2. /\ Report("ConflictingParamDescription", Key, n, Here).code \in TagCodes
            /\ Report("ConflictingParamDescription", Key, n, Here).origin = Here
        BY DEF Report
      <4> QED
        BY <4>1, <4>2 DEF SaidInv
    <3>2. \A n, m : Report("ConflictingParamDescription", Key, n, Here)
                      = Report("ConflictingParamDescription", Key, m, Here) => n = m
      BY DEF Report
    <3>3. \A n, k, o : Refused(k, n, o)' <=> Report("ConflictingParamDescription", k, n, o) \in diagnostics'
      BY DEF Refused, Report
    <3> QED
      BY <2>4, <3>1, <3>2, <3>3
  <2>8. ASSUME NEW k \in Names, NEW n \in Names
        PROVE  /\ params'[k][n] \in IF Mentioned(k, n)' = {} THEN {NoOrigin}
                                    ELSE Earliest(Mentioned(k, n)')
               /\ \A o \in Mentioned(k, n)' : Refused(k, n, o)' <=> o # params'[k][n] \/ Twice(n, o)
    <3>1. /\ params[k][n] \in IF Mentioned(k, n) = {} THEN {NoOrigin} ELSE Earliest(Mentioned(k, n))
          /\ \A o \in Mentioned(k, n) : Refused(k, n, o) <=> o # params[k][n] \/ Twice(n, o)
      BY DEF ParamInv
    <3>2. /\ Mentioned(k, n)' = IF k = Key /\ n \in listed THEN Mentioned(k, n) \cup {Here}
                                ELSE Mentioned(k, n)
          /\ Here \notin Mentioned(k, n) /\ \A o \in Mentioned(k, n) : Earlier(o, Here)
      BY <2>1, <2>3, MentionedGrows
    <3>3. \A o \in Mentioned(k, n) : Refused(k, n, o)' <=> Refused(k, n, o)
      BY <1>3, <2>1
    <3>4. CASE ~ (k = Key /\ n \in listed)
      BY <2>6, <3>1, <3>2, <3>3, <3>4
    <3>5. params[k][n] = NoOrigin <=> Mentioned(k, n) = {}
      BY <3>1, MentionedIsSomewhere DEF Earliest
    <3>6. CASE k = Key /\ n \in listed /\ Mentioned(k, n) = {}
      <4>1. params'[k][n] = Here /\ Mentioned(k, n)' = {Here}
        BY <2>6, <3>2, <3>5, <3>6
      <4>2. Here \in Earliest({Here})
        BY DEF Earliest
      <4>3. \A o : o = Here => (Refused(k, n, o)' <=> Twice(n, o))
        BY <2>7, <3>5, <3>6
      <4> QED
        BY <4>1, <4>2, <4>3
    <3>7. CASE k = Key /\ n \in listed /\ Mentioned(k, n) # {}
      <4>1. params'[k][n] = params[k][n] /\ Mentioned(k, n)' = Mentioned(k, n) \cup {Here}
        BY <2>6, <3>2, <3>5, <3>7
      <4>2. params[k][n] \in Earliest(Mentioned(k, n)) /\ params[k][n] \in Mentioned(k, n)
        BY <3>1, <3>7 DEF Earliest
      <4>3. params[k][n] \in Earliest(Mentioned(k, n) \cup {Here})
        BY <3>2, <4>2, EarliestStays
      <4>4. \A o : o = Here => Refused(k, n, o)' /\ o # params[k][n]
        BY <2>7, <3>2, <3>5, <3>7, <4>2
      <4>5. \A o \in Mentioned(k, n)' : Refused(k, n, o)' <=> o # params'[k][n] \/ Twice(n, o)
        BY <3>1, <3>3, <4>1, <4>4
      <4> QED
        BY <4>1, <4>3, <4>5
    <3> QED
      BY <3>4, <3>6, <3>7
  <2>9. \A k, n : Earliest(Mentioned(k, n))' = Earliest(Mentioned(k, n)')
    BY <1>1, StaticTags DEF Earliest
  <2>10. \A n, o : Twice(n, o)' = Twice(n, o)
    BY <1>1, StaticMentions
  <2>11. NoOrigin' = NoOrigin
    BY DEF NoOrigin
  <2> QED
    BY <2>6, <2>8, <2>9, <2>10, <2>11 DEF ParamInv
<1> QED
  BY <1>2, <1>4, <1>5

-----------------------------------------------------------------------------
(* Theorems *)

\* What is known in each state.
IInv ==
  /\ FoldInv /\ KindInv /\ AliasInv /\ YieldInv /\ OrderInv
  /\ SaidInv /\ DocInv /\ FallInv /\ ValueInv /\ ParamInv
  /\ NothingPanics

\* The kinds of topics anchor every package topic, so no step panics.
LEMMA PanicKeeps ==
  ASSUME KindInv, NothingPanics, FoldInv, [Next]_vars
  PROVE  NothingPanics'
<1>1. CASE Describe
  <2>1. PackageTopics \subseteq anchored
    BY DEF PackageTopics, KindInv, FoldInv
  <2> QED
    BY <1>1, <2>1 DEF Describe, NothingPanics
<1>2. CASE \E b \in Blocks : LeaveOut(b) \/ BeginPackage(b) \/ BeginTopic(b)
  BY <1>2 DEF LeaveOut, BeginPackage, BeginTopic, TakeBlock, OpenBlock, NothingPanics
<1>3. CASE ApplyTag
  BY <1>3, TagFrame DEF NothingPanics
<1>4. CASE CloseBlock \/ EndBlocks \/ NameReexports \/ UNCHANGED vars
           \/ \E k \in Names : NameDefaults(k)
  BY <1>4 DEF CloseBlock, EndBlocks, NameReexports, NameDefaults, NothingPanics, vars
<1> QED
  BY <1>1, <1>2, <1>3, <1>4, Steps

\* All of it holds before the first block.
LEMMA Begun ==
  ASSUME Init
  PROVE  IInv
<1>1. /\ PkgInv /\ pc = "blocks" /\ todo = Blocks /\ topics = {} /\ diagnostics = {}
      /\ unnamed = {}
  BY DEF Init, PkgInv
<1>2. FoldInv
  BY <1>1 DEF FoldInv
<1>3. /\ \A k : Folded(k) = {}
      /\ \A o : ~ Seen(o)
  BY <1>1 DEF Folded, BlocksOf, Seen
<1>4. /\ \A k : ~ IsPackage(k) /\ ~ IsData(k) /\ ~ IsReexport(k)
      /\ \A k, s : ~ Suppressing(k, s)
      /\ \A k, t : Said(k, t) = {} /\ SaidNull(k, t) = {} /\ Mentioned(k, t) = {}
      /\ \A o : ~ Duplicated(o)
  BY <1>1, <1>3
  DEF IsPackage, IsData, IsReexport, Suppressing, Said, SaidNull, Mentioned, Duplicated
<1>5. KindInv
  <2>1. /\ kind = [k \in Names |-> "Ordinary"] /\ firstKind = [k \in Names |-> "Ordinary"]
        /\ conflicting = {} /\ anchored = {} /\ aliasing = {}
    BY DEF Init
  <2> QED
    BY <1>1, <1>4, <2>1 DEF KindInv
<1>6. AliasInv
  BY DEF Init, AliasInv
<1>7. YieldInv
  BY <1>1 DEF YieldInv
<1>8. OrderInv
  <2>1. merged = [k \in Names |-> <<>>] /\ name = [k \in Names |-> k]
    BY DEF Init
  <2>2. BlocksAreOrdered
    BY <1>1 DEF BlocksAreOrdered
  <2>3. <<>> \in Seq(Blocks)
    OBVIOUS
  <2> QED
    BY <1>1, <2>1, <2>2, <2>3 DEF OrderInv
<1>9. SaidInv
  BY <1>1 DEF SaidInv
<1>10. DocInv
  <2>1. docType = [k \in Names |-> NoOrigin] /\ noDocType = {}
    BY DEF Init
  <2> QED
    BY <1>4, <2>1 DEF DocInv
<1>11. FallInv
  <2>1. suppressed = [k \in Names |-> {}] /\ reexports = [k \in Names |-> {}]
    BY DEF Init
  <2> QED
    BY <1>3, <1>4, <2>1 DEF FallInv
<1>12. ValueInv
  <2>1. value = [k \in Names |-> [s \in Slots |-> NoOrigin]]
    BY DEF Init
  <2>2. \A k, s : Gap(k, s) = NoOrigin
    BY <1>1 DEF Gap
  <2>3. ASSUME NEW k \in Names, NEW s \in Slots PROVE IsKept(k, s)
    BY <1>3, <1>4, <2>1, <2>2 DEF IsKept
  <2> QED
    BY <2>1, <2>3 DEF ValueInv
<1>13. ParamInv
  <2>1. params = [k \in Names |-> [n \in Names |-> NoOrigin]]
    BY DEF Init
  <2> QED
    BY <1>4, <2>1 DEF ParamInv
<1>14. NothingPanics
  BY <1>1 DEF NothingPanics
<1> QED
  BY <1>2, <1>5, <1>6, <1>7, <1>8, <1>9, <1>10, <1>11, <1>12, <1>13, <1>14 DEF IInv

\* It holds in each state.
LEMMA Fold == Spec => []IInv
<1>1. Init => IInv
  BY Begun
<1>2. IInv /\ [Next]_vars => IInv'
  <2> SUFFICES ASSUME IInv, [Next]_vars PROVE IInv'
    OBVIOUS
  <2>1. /\ FoldInv /\ KindInv /\ AliasInv /\ YieldInv /\ OrderInv
        /\ SaidInv /\ DocInv /\ FallInv /\ ValueInv /\ ParamInv
        /\ NothingPanics
    BY DEF IInv
  <2>2. unnamed \subseteq topics
    BY <2>1 DEF YieldInv
  <2>3. FoldInv' /\ KindInv' /\ AliasInv' /\ YieldInv' /\ OrderInv'
    BY <2>1, <2>2, FoldKeeps, KindKeeps, AliasKeeps, YieldKeeps, OrderKeeps
  <2>4. SaidInv' /\ DocInv' /\ FallInv' /\ ValueInv' /\ ParamInv' /\ NothingPanics'
    BY <2>1, SaidKeeps, DocKeeps, FallKeeps, ValueKeeps, ParamKeeps, PanicKeeps
  <2> QED
    BY <2>3, <2>4 DEF IInv
<1> QED
  BY <1>1, <1>2, PTL DEF Spec

\* An alias leads to one topic or is an error at the topic that claims it
\* later, and the default aliases of package topics never conflict with
\* another topic's: add_alias and finalize_package_aliases, for any package.
THEOREM AliasesSafe == Spec => []AliasesAreUnambiguous
<1>1. ASSUME AliasInv, YieldInv PROVE AliasesAreUnambiguous
  <2>1. ClaimsAreUnambiguous
    <3> SUFFICES ASSUME NEW k \in Names, NEW a \in aliases[k]
                 PROVE  /\ owner[a] \in topics /\ a \in aliases[owner[a]]
                        /\ owner[a] # k => \E d \in diagnostics :
                             d.code = "ConflictingAlias" /\ d.topic = k /\ d.name = a
      BY DEF ClaimsAreUnambiguous
    <3> QED
      BY <1>1 DEF AliasInv, Told
  <2>2. DefaultAliasesYield
    BY <1>1 DEF YieldInv, DefaultAliasesYield
  <2> QED
    BY <2>1, <2>2 DEF AliasesAreUnambiguous
<1>2. IInv => AliasesAreUnambiguous
  BY <1>1 DEF IInv
<1> QED
  BY <1>2, Fold, PTL

\* When all is folded, all that the blocks of a topic say has been said.
LEMMA AllIsSaid ==
  ASSUME FoldInv, pc = "done"
  PROVE  /\ \A k : Folded(k) = BlocksOf(k)
         /\ \A b \in Blocks : \A i : Seen(<<b, i>>)
         /\ \A k, t : Said(k, t) = Offers(k, t) /\ SaidNull(k, t) = Nulls(k, t)
         /\ \A k, n : Mentioned(k, n) = Mentions(k, n)
<1>1. todo = {}
  BY DEF FoldInv
<1>2. \A b \in Blocks : \A i : Seen(<<b, i>>)
  BY <1>1 DEF Seen
<1>3. \A k : \A b \in BlocksOf(k) : b \in Blocks
  BY DEF BlocksOf
<1>4. \A k, t : \A o \in Counted(k, t) : Seen(o)
  BY <1>2, <1>3, Counts
<1>5. \A k, t : Said(k, t) = Offers(k, t) /\ SaidNull(k, t) = Nulls(k, t)
  BY <1>4 DEF Said, SaidNull, Offers, Nulls
<1>6. \A k, n : \A o \in Mentions(k, n) : Seen(o)
  BY <1>2, <1>3, MentionsAre
<1>7. \A k : Folded(k) = BlocksOf(k)
  BY <1>1 DEF Folded
<1> QED
  BY <1>2, <1>5, <1>6, <1>7 DEF Mentioned

\* @order and source order decide the sequence of the blocks of a topic, its
\* name and its type; its kind does not depend on them, and no expect of the
\* fold fails, for any number of blocks: build_package_model_inner.
THEOREM OrderSafe == Spec => []OrderDecides
<1>1. ASSUME IInv PROVE OrderDecides
  <2>1. /\ FoldInv /\ KindInv /\ OrderInv /\ DocInv /\ NothingPanics
    BY <1>1 DEF IInv
  <2>2. BlocksAreOrdered
    BY <2>1 DEF OrderInv
  <2>3. DocTypeIsFirst
    <3> SUFFICES ASSUME pc = "done", NEW k \in topics
                 PROVE  /\ Offers(k, "docType") # {} => docType[k] \in Earliest(Offers(k, "docType"))
                        /\ k \in noDocType <=> Offers(k, "docType") = {} /\ Nulls(k, "docType") # {}
                        /\ \A o \in Offers(k, "docType") :
                             Duplicated(o) <=> ValueAt(o) # ValueAt(docType[k])
      BY DEF DocTypeIsFirst
    <3>1. k \in Names /\ Said(k, "docType") = Offers(k, "docType")
          /\ SaidNull(k, "docType") = Nulls(k, "docType")
      BY <2>1, AllIsSaid DEF FoldInv
    <3> QED
      BY <2>1, <3>1 DEF DocInv
  <2>4. KindIsOrderFree
    <3> SUFFICES ASSUME pc = "done", NEW k \in topics
                 PROVE  LET targets == {Target(b) : b \in BlocksOf(k)} \cap {"package", "data"}
                            reports == {d \in diagnostics : d.code = "ConflictingTopicKind" /\ d.topic = k} IN
                        /\ kind[k] = IF "package" \in targets THEN "Package"
                                     ELSE IF "data" \in targets THEN "Data" ELSE "Ordinary"
                        /\ reports # {} <=> targets = {"package", "data"}
                        /\ \A d, e \in reports : d = e
      BY DEF KindIsOrderFree
    <3> DEFINE targets == {Target(b) : b \in BlocksOf(k)} \cap {"package", "data"}
               reports == {d \in diagnostics : d.code = "ConflictingTopicKind" /\ d.topic = k}
    <3>1. k \in Names /\ Folded(k) = BlocksOf(k)
      BY <2>1, AllIsSaid DEF FoldInv
    <3>2. /\ "package" \in targets <=> IsPackage(k)
          /\ "data" \in targets <=> IsData(k)
      BY <3>1 DEF IsPackage, IsData
    <3>3. targets = {"package", "data"} <=> IsPackage(k) /\ IsData(k)
      BY <3>2
    <3>4. \A d : d \in reports <=> d \in diagnostics /\ Conflict(d, k)
      BY DEF Conflict
    <3> HIDE DEF targets, reports
    <3>5. /\ kind[k] = IF "package" \in targets THEN "Package"
                       ELSE IF "data" \in targets THEN "Data" ELSE "Ordinary"
          /\ reports # {} <=> targets = {"package", "data"}
          /\ \A d, e \in reports : d = e
      BY <2>1, <3>1, <3>2, <3>3, <3>4 DEF KindInv
    <3> QED
      BY <3>5 DEF targets, reports
  <2> QED
    BY <2>1, <2>2, <2>3, <2>4 DEF OrderDecides, KindsAreOrderFree
<1> QED
  BY <1>1, Fold, PTL

\* However many blocks a topic has and however they are ordered, what is said
\* first stays, what is said again is reported at its own place, and a
\* default stands only where nothing is said.
THEOREM ValuesKept == Spec => []ValuesAreKept
<1>1. ASSUME IInv, pc = "done", NEW k \in topics, NEW s \in Slots
      PROVE  /\ k \in Names /\ IsKept(k, s) /\ Said(k, s) = Offers(k, s)
             /\ Folded(k) = BlocksOf(k)
  BY <1>1, AllIsSaid DEF IInv, FoldInv, ValueInv
<1>2. ASSUME IInv PROVE SlotsAreFirst
  <2> SUFFICES ASSUME pc = "done", NEW k \in topics, NEW s \in Slots
               PROVE  /\ Offers(k, s) # {} => value[k][s] \in Earliest(Offers(k, s))
                      /\ \A b \in BlocksOf(k) : \A i \in TagsOf(b, s) :
                           Duplicated(<<b, i>>) <=>
                             \/ <<b, i>> \notin Counted(k, s)
                             \/ <<b, i>> \in Offers(k, s) /\ <<b, i>> # value[k][s]
    BY DEF SlotsAreFirst
  <2>1. IsKept(k, s) /\ Said(k, s) = Offers(k, s)
    BY <1>1, <1>2
  <2>2. \A b \in BlocksOf(k) : \A i : Seen(<<b, i>>)
    BY <1>2, AllIsSaid DEF IInv, BlocksOf
  <2> QED
    BY <2>1, <2>2 DEF IsKept
<1>3. ASSUME IInv PROVE DefaultsFillGapsOnly
  <2> SUFFICES ASSUME pc = "done", NEW k \in topics, NEW s \in Slots, Offers(k, s) = {}
               PROVE  LET suppressing == \E b \in BlocksOf(k) : s \in FallbackSlots /\ HasNull(b, s)
                          isPackage == \E b \in BlocksOf(k) : Target(b) = "package" IN
                      value[k][s] = IF \/ isPackage /\ s \in described /\ ~suppressing
                                       \/ s = "title" /\ \E b \in BlocksOf(k) : Target(b) = "reexport"
                                    THEN Default ELSE NoOrigin
    BY DEF DefaultsFillGapsOnly
  <2>1. value[k][s] = Gap(k, s) /\ Folded(k) = BlocksOf(k)
    BY <1>1, <1>3 DEF IsKept
  <2>2. Gap(k, s) = IF \/ IsPackage(k) /\ s \in described /\ ~ Suppressing(k, s)
                       \/ s = "title" /\ IsReexport(k)
                    THEN Default ELSE NoOrigin
    BY DEF Gap
  <2>3. /\ IsPackage(k) <=> \E b \in BlocksOf(k) : Target(b) = "package"
        /\ IsReexport(k) <=> \E b \in BlocksOf(k) : Target(b) = "reexport"
        /\ Suppressing(k, s) <=> \E b \in BlocksOf(k) : s \in FallbackSlots /\ HasNull(b, s)
    BY <2>1 DEF IsPackage, IsReexport, Suppressing
  <2> QED
    BY <2>1, <2>2, <2>3
<1>4. ASSUME IInv PROVE DescriptionsAreFirst
  <2> SUFFICES ASSUME pc = "done", NEW k \in topics, NEW n \in Names
               PROVE  /\ params[k][n] \in IF Mentions(k, n) = {} THEN {NoOrigin}
                                          ELSE Earliest(Mentions(k, n))
                      /\ \A o \in Mentions(k, n) :
                           Report("ConflictingParamDescription", k, n, o) \in diagnostics
                             <=> o # params[k][n] \/ \E i, j \in Times(o, n) : i # j
    BY DEF DescriptionsAreFirst
  <2>1. k \in Names /\ Mentioned(k, n) = Mentions(k, n) /\ ParamInv
    BY <1>4, AllIsSaid DEF IInv, FoldInv
  <2> QED
    BY <2>1 DEF ParamInv, Refused, Twice
<1>5. IInv => ValuesAreKept
  BY <1>2, <1>3, <1>4 DEF ValuesAreKept, FirstValueStays
<1> QED
  BY <1>5, Fold, PTL

-----------------------------------------------------------------------------
(* No block is lost *)

\* Block b is among the blocks of topic k.
Within(b, k) == \E i \in DOMAIN merged[k] : merged[k][i] = b

\* A block that has been taken is in its topic, or has its error; a topic has
\* none but its blocks, and an error is of a block that deserves it.
AccountInv ==
  /\ \A b \in Blocks \ todo :
       /\ Verdict(b) = "merged" => Within(b, TopicKey(b))
       /\ Verdict(b) \in Refusals => Report(Verdict(b), Nobody, Nobody, <<b, 0>>) \in diagnostics
       /\ \E j \in DOMAIN namespace : namespace[j] = {b} \X TagsOf(b, "namespace")
  /\ \A k \in Names : \A b : Within(b, k) => Verdict(b) = "merged" /\ TopicKey(b) = k
  /\ \A d \in diagnostics : \A b :
       d.code \in Refusals /\ d.origin = <<b, 0>> => Verdict(b) = d.code
  /\ \E S : namespace \in Seq(S)

\* What is not about a block that is taken or its refusal changes nothing.
LEMMA AccountFrame ==
  ASSUME AccountInv, pkg' = pkg, UNCHANGED <<todo, merged, namespace>>,
         diagnostics \subseteq diagnostics',
         \A d \in diagnostics' \ diagnostics : d.code \notin Refusals
  PROVE  AccountInv'
<1>1. /\ Blocks' = Blocks
      /\ \A b : Verdict(b)' = Verdict(b) /\ TopicKey(b)' = TopicKey(b)
      /\ \A b, t : TagsOf(b, t)' = TagsOf(b, t)
  BY Static
<1>2. \A b, k : Within(b, k)' <=> Within(b, k)
  BY DEF Within
<1>3. \A b \in Blocks' \ todo' :
        /\ Verdict(b)' = "merged" => Within(b, TopicKey(b))'
        /\ Verdict(b)' \in Refusals => Report(Verdict(b), Nobody, Nobody, <<b, 0>>)' \in diagnostics'
        /\ \E j \in DOMAIN namespace' : namespace'[j] = {b} \X TagsOf(b, "namespace")'
  <2> SUFFICES ASSUME NEW b \in Blocks \ todo
               PROVE  /\ Verdict(b) = "merged" => Within(b, TopicKey(b))
                      /\ Verdict(b) \in Refusals => Report(Verdict(b), Nobody, Nobody, <<b, 0>>) \in diagnostics'
                      /\ \E j \in DOMAIN namespace : namespace[j] = {b} \X TagsOf(b, "namespace")
    BY <1>1, <1>2 DEF Within, Report
  <2> QED
    BY DEF AccountInv
<1>4. (\A k \in Names : \A b : Within(b, k) => Verdict(b) = "merged" /\ TopicKey(b) = k)'
  BY <1>1, <1>2 DEF AccountInv
<1>5. (\A d \in diagnostics : \A b :
         d.code \in Refusals /\ d.origin = <<b, 0>> => Verdict(b) = d.code)'
  BY <1>1 DEF AccountInv
<1>6. (\E S : namespace \in Seq(S))'
  BY DEF AccountInv
<1> QED
  BY <1>3, <1>4, <1>5, <1>6 DEF AccountInv

\* The block that is taken is in its topic, or has its error, and its
\* namespace tags are kept.
LEMMA TakenIsAccounted ==
  ASSUME FoldInv, OrderInv, AccountInv, pkg' = pkg, NEW b \in Blocks, TakeBlock(b),
         diagnostics \subseteq diagnostics',
         \A d \in diagnostics' \ diagnostics :
           d.code \in Refusals => d.code = Verdict(b) /\ d.origin = <<b, 0>>,
         Verdict(b) \in Refusals => Report(Verdict(b), Nobody, Nobody, <<b, 0>>) \in diagnostics',
         merged' = IF Verdict(b) = "merged"
                   THEN [merged EXCEPT ![TopicKey(b)] = Append(@, b)] ELSE merged
  PROVE  AccountInv'
<1>1. /\ Blocks' = Blocks
      /\ \A c : Verdict(c)' = Verdict(c) /\ TopicKey(c)' = TopicKey(c)
      /\ \A c, t : TagsOf(c, t)' = TagsOf(c, t)
  BY Static
<1>2. todo' = todo \ {b} /\ namespace' = Append(namespace, {b} \X TagsOf(b, "namespace"))
  BY DEF TakeBlock
<1>3. \A k \in Names : \A c : Within(c, k)' <=>
        Within(c, k) \/ (c = b /\ Verdict(b) = "merged" /\ k = TopicKey(b))
  <2> SUFFICES ASSUME NEW k \in Names, NEW c
               PROVE  Within(c, k)' <=>
                        Within(c, k) \/ (c = b /\ Verdict(b) = "merged" /\ k = TopicKey(b))
    OBVIOUS
  <2>1. merged \in [Names -> Seq(Blocks)]
    BY DEF OrderInv
  <2>2. CASE Verdict(b) = "merged" /\ k = TopicKey(b)
    <3>1. merged'[k] = Append(merged[k], b)
      BY <2>1, <2>2
    <3>2. /\ Len(merged[k]) \in Nat /\ DOMAIN merged[k] = 1 .. Len(merged[k])
          /\ DOMAIN merged'[k] = 1 .. Len(merged[k]) + 1
          /\ \A i \in 1 .. Len(merged[k]) : merged'[k][i] = merged[k][i]
          /\ merged'[k][Len(merged[k]) + 1] = b
      BY <2>1, <3>1
    <3>3. DOMAIN merged'[k] = DOMAIN merged[k] \cup {Len(merged[k]) + 1}
      BY <3>2
    <3> QED
      BY <2>2, <3>2, <3>3 DEF Within
  <2>3. CASE ~ (Verdict(b) = "merged" /\ k = TopicKey(b))
    <3>1. merged'[k] = merged[k]
      BY <2>1, <2>3
    <3> QED
      BY <2>3, <3>1 DEF Within
  <2> QED
    BY <2>2, <2>3
<1>4. /\ \A x \in DOMAIN namespace : x \in DOMAIN namespace' /\ namespace'[x] = namespace[x]
      /\ \E x \in DOMAIN namespace' : namespace'[x] = {b} \X TagsOf(b, "namespace")
      /\ \E S : namespace' \in Seq(S)
  <2> DEFINE new == {b} \X TagsOf(b, "namespace")
  <2>1. PICK S : namespace \in Seq(S)
    BY DEF AccountInv
  <2>2. namespace \in Seq(S \cup {new})
    BY <2>1
  <2> HIDE DEF new
  <2>3. namespace' = Append(namespace, new)
    BY <1>2 DEF new
  <2>4. /\ Len(namespace) \in Nat /\ DOMAIN namespace = 1 .. Len(namespace)
        /\ DOMAIN namespace' = 1 .. Len(namespace) + 1
        /\ \A i \in 1 .. Len(namespace) : namespace'[i] = namespace[i]
        /\ namespace'[Len(namespace) + 1] = new
        /\ namespace' \in Seq(S \cup {new})
    BY <2>2, <2>3
  <2>5. Len(namespace) + 1 \in DOMAIN namespace'
    BY <2>4
  <2>6. \A x \in DOMAIN namespace : x \in DOMAIN namespace' /\ namespace'[x] = namespace[x]
    BY <2>4
  <2> QED
    BY <2>4, <2>5, <2>6 DEF new
<1>5. ASSUME NEW c \in Blocks' \ todo'
      PROVE  /\ Verdict(c)' = "merged" => Within(c, TopicKey(c))'
             /\ Verdict(c)' \in Refusals
                  => Report(Verdict(c), Nobody, Nobody, <<c, 0>>)' \in diagnostics'
             /\ \E j \in DOMAIN namespace' : namespace'[j] = {c} \X TagsOf(c, "namespace")'
  <2>1. c \in Blocks /\ (c = b \/ c \in Blocks \ todo)
    BY <1>1, <1>2
  <2>2. Verdict(c) = "merged" => Within(c, TopicKey(c))'
    <3> SUFFICES ASSUME Verdict(c) = "merged" PROVE Within(c, TopicKey(c))'
      OBVIOUS
    <3>1. PICK k \in Names : k = TopicKey(c)
      BY <2>1, NamesAreNames DEF FoldInv
    <3>2. c = b \/ Within(c, k)
      BY <2>1, <3>1 DEF AccountInv
    <3>3. Within(c, k)'
      BY <1>3, <3>1, <3>2
    <3> QED
      BY <1>1, <3>1, <3>3 DEF Within
  <2>3. Verdict(c) \in Refusals => Report(Verdict(c), Nobody, Nobody, <<c, 0>>) \in diagnostics'
    BY <2>1 DEF AccountInv
  <2>4. \E j \in DOMAIN namespace' : namespace'[j] = {c} \X TagsOf(c, "namespace")
    BY <1>4, <2>1 DEF AccountInv
  <2>5. Report(Verdict(c), Nobody, Nobody, <<c, 0>>)' = Report(Verdict(c), Nobody, Nobody, <<c, 0>>)
    BY <1>1 DEF Report
  <2> QED
    BY <1>1, <2>2, <2>3, <2>4, <2>5
<1>6. (\A k \in Names : \A c : Within(c, k) => Verdict(c) = "merged" /\ TopicKey(c) = k)'
  BY <1>1, <1>3 DEF AccountInv
<1>7. (\A d \in diagnostics : \A c :
         d.code \in Refusals /\ d.origin = <<c, 0>> => Verdict(c) = d.code)'
  BY <1>1 DEF AccountInv
<1> QED
  BY <1>4, <1>5, <1>6, <1>7 DEF AccountInv

\* Each step keeps account.
LEMMA AccountKeeps ==
  ASSUME FoldInv, OrderInv, AccountInv, [Next]_vars
  PROVE  AccountInv'
<1>1. pkg' = pkg
  BY PkgStays
<1>2. ASSUME NEW b \in Blocks, LeaveOut(b) PROVE AccountInv'
  <2>1. /\ TakeBlock(b) /\ Verdict(b) # "merged" /\ merged' = merged
        /\ diagnostics' = diagnostics \cup
             {Report(v, Nobody, Nobody, <<b, 0>>) : v \in {Verdict(b)} \cap Refusals}
    BY <1>2 DEF LeaveOut, identity
  <2>2. \A d \in diagnostics' \ diagnostics :
          d.code \in Refusals => d.code = Verdict(b) /\ d.origin = <<b, 0>>
    BY <2>1 DEF Report
  <2> QED
    BY <1>1, <2>1, <2>2, TakenIsAccounted
<1>3. ASSUME NEW b \in Blocks, BeginPackage(b) \/ BeginTopic(b) PROVE AccountInv'
  <2>1. /\ TakeBlock(b) /\ Verdict(b) = "merged"
        /\ merged' = [merged EXCEPT ![TopicKey(b)] = Append(@, b)]
    BY <1>3, Begins DEF BeginPackage, BeginTopic
  <2>2. \A k, K, o : \A d \in KindReports(k, K, o) : d.code = "ConflictingTopicKind"
    BY DEF KindReports, Report
  <2>3. /\ diagnostics \subseteq diagnostics'
        /\ \A d \in diagnostics' \ diagnostics : d.code \in {"ConflictingAlias", "ConflictingTopicKind"}
    <3>1. CASE BeginPackage(b)
      BY <3>1, <2>2, AliasReports DEF BeginPackage
    <3>2. CASE BeginTopic(b)
      <4>1. CASE Target(b) = "data"
        BY <3>2, <4>1, <2>2, AliasReports DEF BeginTopic
      <4>2. CASE Target(b) # "data"
        BY <3>2, <4>2, AliasReports DEF BeginTopic
      <4> QED
        BY <4>1, <4>2
    <3> QED
      BY <1>3, <3>1, <3>2
  <2>4. \A d \in diagnostics' \ diagnostics : d.code \notin Refusals
    BY <2>3 DEF Refusals
  <2> QED
    BY <1>1, <2>1, <2>3, <2>4, TakenIsAccounted DEF Refusals
<1>4. CASE ApplyTag
  <2>1. UNCHANGED <<todo, merged, namespace>>
    BY <1>4, TagFrame
    DEF ApplyTag, ApplyUnique, ApplyField, ApplyDocType, ApplyMethod, ApplyParam, ApplyKept,
        ApplyAliases, ApplyKeywords, SkipNamespace, Advance
  <2> QED
    BY <1>1, <1>4, <2>1, TagReports, AccountFrame DEF Refusals
<1>5. CASE CloseBlock \/ EndBlocks \/ NameReexports \/ Describe \/ UNCHANGED vars
  BY <1>1, <1>5, AccountFrame
  DEF CloseBlock, EndBlocks, NameReexports, Describe, identity, vars
<1>6. ASSUME NEW k \in Names, NameDefaults(k) PROVE AccountInv'
  <2>1. \A d \in diagnostics' \ diagnostics : d.code = "ConflictingAlias"
    BY <1>6, AliasReports DEF NameDefaults
  <2>2. diagnostics \subseteq diagnostics'
    BY <1>6, AliasReports DEF NameDefaults
  <2> QED
    BY <1>1, <1>6, <2>1, <2>2, AccountFrame DEF NameDefaults, identity, Refusals
<1> QED
  BY <1>2, <1>3, <1>4, <1>5, <1>6, Steps

\* A block that documents something ends in a topic, or is refused.
LEMMA VerdictMeans ==
  ASSUME NEW b
  PROVE  /\ Verdict(b) \in {"noRd", "namespaceOnly", "merged"} \cup Refusals
         /\ Verdict(b) = "noRd" => Has(b, "noRd")
         /\ Verdict(b) = "namespaceOnly"
              => ~ NeedsDoc(b) /\ Target(b) \notin {"package", "reexport", "private", "badData"}
  BY DEF Verdict, Refusals

\* Whatever the blocks of a package are, each that documents something is part
\* of exactly one topic or has an error, unless it asks for no Rd, and what it
\* says on the namespace is kept: build_package_model_inner loses nothing.
THEOREM BlocksAccounted == Spec => []EveryBlockIsAccounted
<1>1. Init => AccountInv
  <2> SUFFICES ASSUME Init PROVE AccountInv
    OBVIOUS
  <2>1. /\ todo = Blocks /\ diagnostics = {} /\ namespace = <<>>
        /\ merged = [k \in Names |-> <<>>]
    BY DEF Init
  <2>2. \A k \in Names : \A b : ~ Within(b, k)
    BY <2>1 DEF Within
  <2>3. namespace \in Seq({})
    BY <2>1
  <2> QED
    BY <2>1, <2>2, <2>3 DEF AccountInv
<1>2. IInv /\ AccountInv /\ [Next]_vars => AccountInv'
  BY AccountKeeps DEF IInv
<1>3. ASSUME IInv, AccountInv PROVE EveryBlockIsAccounted
  <2> SUFFICES ASSUME pc = "done", NEW b \in Blocks
               PROVE  LET homes == {k \in topics : \E i \in DOMAIN merged[k] : merged[k][i] = b}
                          refused == \E d \in diagnostics : d.code \in Refusals /\ d.origin = <<b, 0>>
                          documents == NeedsDoc(b) \/ Target(b) \in {"package", "reexport", "private", "badData"} IN
                      /\ Cardinality(homes) <= 1
                      /\ refused => homes = {}
                      /\ documents /\ ~Has(b, "noRd") => homes # {} \/ refused
                      /\ \A i \in TagsOf(b, "namespace") : \E j \in DOMAIN namespace : <<b, i>> \in namespace[j]
    BY DEF EveryBlockIsAccounted
  <2> DEFINE homes == {k \in topics : \E i \in DOMAIN merged[k] : merged[k][i] = b}
             refused == \E d \in diagnostics : d.code \in Refusals /\ d.origin = <<b, 0>>
             documents == NeedsDoc(b) \/ Target(b) \in {"package", "reexport", "private", "badData"}
  <2>1. b \in Blocks \ todo /\ topics \subseteq Names /\ FoldInv /\ OrderInv
    BY <1>3 DEF IInv, FoldInv
  <2>2. \A k : k \in homes <=> k \in topics /\ Within(b, k)
    BY DEF Within
  <2>3. \A k \in homes : k = TopicKey(b) /\ Verdict(b) = "merged"
    BY <1>3, <2>1, <2>2 DEF AccountInv
  <2>4. ASSUME Verdict(b) = "merged" PROVE homes # {}
    <3>1. PICK k \in Names : k = TopicKey(b)
      BY <2>1, <2>4, NamesAreNames DEF FoldInv
    <3>2. Within(b, k)
      BY <1>3, <2>1, <2>4, <3>1 DEF AccountInv
    <3>3. merged[k] # <<>>
      BY <3>2 DEF Within
    <3>4. k \in topics
      BY <2>1, <3>3 DEF OrderInv
    <3> QED
      BY <2>2, <3>2, <3>4
  <2>5. refused => Verdict(b) \in Refusals
    BY <1>3 DEF AccountInv
  <2>6. Verdict(b) \in Refusals => refused
    <3>1. Verdict(b) \in Refusals => Report(Verdict(b), Nobody, Nobody, <<b, 0>>) \in diagnostics
      BY <1>3, <2>1 DEF AccountInv
    <3> QED
      BY <3>1 DEF Report
  <2> HIDE DEF homes, refused
  <2>7. Cardinality(homes) <= 1
    <3>1. homes \subseteq {TopicKey(b)}
      BY <2>3
    <3>2. IsFiniteSet({TopicKey(b)}) /\ Cardinality({TopicKey(b)}) = 1
      BY FS_Singleton
    <3>3. Cardinality(homes) <= Cardinality({TopicKey(b)})
      BY <3>1, <3>2, FS_Subset
    <3> QED
      BY <3>2, <3>3
  <2>8. refused => homes = {}
    BY <2>3, <2>5 DEF Refusals
  <2>9. documents /\ ~Has(b, "noRd") => homes # {} \/ refused
    BY <2>4, <2>6, VerdictMeans
  <2>10. \A i \in TagsOf(b, "namespace") : \E j \in DOMAIN namespace : <<b, i>> \in namespace[j]
    BY <1>3, <2>1 DEF AccountInv
  <2> QED
    BY <2>7, <2>8, <2>9, <2>10 DEF homes, refused
<1> QED
  BY <1>1, <1>2, <1>3, Fold, PTL DEF Spec
=============================================================================
