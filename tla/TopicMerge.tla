----------------------------- MODULE TopicMerge -----------------------------
(***************************************************************************)
(* build_package_model_inner: the documentation blocks of a package, in    *)
(* @order and then source order, are folded into Rd topics tag by tag.     *)
(* Each topic keeps the first value of a single-value slot, each alias     *)
(* the first topic that claims it; when all blocks are folded, package     *)
(* topics get their default aliases and what DESCRIPTION has for them.     *)
(*                                                                         *)
(* Names of topics, aliases and objects are numbers in the order of the    *)
(* strings.  A value is abstracted to its origin, the block and the tag it *)
(* comes from.  Generated usage, formals, the warnings about registered    *)
(* S3 methods and included files are left out.                             *)
(***************************************************************************)
EXTENDS Naturals, Sequences, FiniteSets

CONSTANTS NumNames,     \* names of topics, aliases, objects and parameters
          PkgName,      \* the name of the package
          PkgTopic,     \* <package>-package
          Reexports,    \* the name "reexports"
          Slots,        \* single-value fields under study
          Packages      \* the blocks in source order, and the slots that
                        \* DESCRIPTION has a default for

Names == 1 .. NumNames
Nobody == 0
FallbackSlots == {"title", "description", "seealso", "author"}

ASSUME NumNamesAssumption == NumNames \in Nat
ASSUME SpecialAssumption == {PkgName, PkgTopic, Reexports} \subseteq Names
\* Blocks as the parser makes them: sequences of tags, and what names a topic
\* or an alias is a name.
IsSequence(s) == \A i \in DOMAIN s : i \in Nat \ {0} /\ 1 .. i \subseteq DOMAIN s
TagNames(tag) ==
  IF tag.tag \in {"name", "rdname"} THEN {tag.value}
  ELSE IF tag.tag = "aliases" THEN tag.names
  ELSE IF tag.tag = "param" THEN {tag.names[j] : j \in DOMAIN tag.names}
  ELSE {}
IsBlock(b) ==
  /\ b.name \in Names \cup {Nobody}
  /\ IsSequence(b.tags) /\ \A i \in DOMAIN b.tags : TagNames(b.tags[i]) \subseteq Names
ASSUME PackagesAssumption ==
  \A P \in Packages :
    /\ IsSequence(P.blocks) /\ \A b \in DOMAIN P.blocks : IsBlock(P.blocks[b])
    /\ P.described \subseteq Slots \cap FallbackSlots
OtherTags == {"name", "rdname", "order", "usage", "docType", "method", "param", "section",
              "inherit", "inheritParams", "inheritSection", "aliases", "keywords", "namespace"}
ASSUME SlotsAssumption == "title" \in Slots /\ Slots \cap OtherTags = {}

VARIABLES
  pc,          \* blocks, tags, aliases, defaults, done, or panic
  pkg,         \* the blocks, constant through a run
  described,   \* the slots DESCRIPTION has a default for
  todo,        \* blocks yet to fold
  \* The block under way.
  block, at,   \* it, and its next tag
  slots,       \* block_slots: what it has filled already
  \* The model.  Topics are entries of the functions below.
  topics, name, merged, kind, aliases, value, docType, noDocType, params,
  kept,        \* sections and inheritance requests, in order
  keywords, reexports, missingFormat, undescribed,
  namespace,   \* namespace tags, block by block; those of a block stay in order
  \* Bookkeeping of the fold.
  firstKind, conflicting,     \* kind_origin, kind_conflict_reported
  owner,                      \* alias_owners
  claims,                     \* method_claims
  anchored, aliasing, suppressed, \* PackageFallbackState
  unnamed,                    \* keys whose default aliases are yet to add
  diagnostics

input == <<pkg, described>>
cursor == <<block, at, slots>>
content == <<value, docType, noDocType, params, kept, keywords>>
identity == <<topics, name, merged, kind, firstKind, conflicting, reexports, missingFormat>>
naming == <<aliases, owner>>
fallback == <<anchored, aliasing, suppressed>>
vars == <<pc, pkg, described, todo, block, at, slots, topics, name, merged, kind, aliases,
          value, docType, noDocType, params, kept, keywords, reexports, missingFormat,
          undescribed, namespace, firstKind, conflicting, owner, claims, anchored, aliasing,
          suppressed, unnamed, diagnostics>>

\* Where a value comes from: tag i of block b, nowhere, or a default.
NoOrigin == <<0, 0>>
Default == <<0, 1>>
Report(code, k, n, origin) == [code |-> code, topic |-> k, name |-> n, origin |-> origin]

-----------------------------------------------------------------------------
(* Blocks and their tags *)

Blocks == DOMAIN pkg
Target(b) == pkg[b].target
Tags(b) == pkg[b].tags
TagsOf(b, t) == {i \in DOMAIN Tags(b) : Tags(b)[i].tag = t}
Has(b, t) == TagsOf(b, t) # {}
HasNull(b, t) == \E i \in TagsOf(b, t) : Tags(b)[i].value = "null"

First(S) == CHOOSE i \in S : \A j \in S : i <= j
\* The value of the first tag t of block b, or other.
FirstOf(b, t, other) ==
  IF Has(b, t) THEN Tags(b)[First(TagsOf(b, t))].value ELSE other

\* block_sort_key: blocks with @order first, by its value; then by source.
Precedes(a, b) ==
  \/ Has(a, "order") /\ ~Has(b, "order")
  \/ /\ Has(a, "order") = Has(b, "order")
     /\ \/ FirstOf(a, "order", 0) < FirstOf(b, "order", 0)
        \/ FirstOf(a, "order", 0) = FirstOf(b, "order", 0) /\ a < b

\* Mutant: @order is not looked at.
IsNext_Source(b) == b \in todo /\ \A c \in todo : b <= c

IsNext(b) == b \in todo /\ \A c \in todo \ {b} : Precedes(b, c)

ObjectName(b) == IF Target(b) \in {"function", "value", "data", "reexport"}
                 THEN pkg[b].name ELSE Nobody
Primary(b) == IF Target(b) = "reexport" THEN Reexports
              ELSE FirstOf(b, "name", ObjectName(b))
TopicKey(b) == IF Target(b) = "reexport" THEN Reexports
               ELSE FirstOf(b, "rdname", IF Target(b) = "package" THEN PkgTopic ELSE Primary(b))

\* needs_doc.
DocTags == {"description", "param", "return", "title", "examples", "name", "rdname",
            "details", "inherit", "inheritSection"}
NeedsDoc(b) == \E t \in DocTags : Has(b, t)

\* reexport_content_conflict_span.
HasProse(b) ==
  \/ \E t \in {"description", "details"} : \E i \in TagsOf(b, t) : Tags(b)[i].value # "null"
  \/ \E i \in TagsOf(b, "title") : Tags(b)[i].value = "intro"

\* Mutant: a block is looked at for documentation before it is refused.
Verdict_DocFirst(b) ==
  IF Has(b, "noRd") THEN "noRd"
  ELSE IF Target(b) \notin {"package", "reexport"} /\ ~NeedsDoc(b) THEN "namespaceOnly"
  ELSE IF Target(b) = "private" THEN "UnsupportedReexport"
  ELSE IF Target(b) = "reexport" /\ (Has(b, "name") \/ Has(b, "rdname") \/ HasProse(b))
       THEN "UnsupportedReexport"
  ELSE IF Target(b) = "badData" THEN "InvalidDataName"
  ELSE IF Target(b) = "package" THEN "merged"
  ELSE IF Primary(b) = Nobody THEN "MissingTopicIdentity"
  ELSE IF /\ Target(b) # "reexport" /\ TopicKey(b) = Reexports
          /\ \E c \in Blocks : Target(c) = "reexport"
       THEN "UnsupportedReexport"
  ELSE "merged"

\* The early exits of the loop over the blocks, in their order.
Verdict(b) ==
  IF Has(b, "noRd") THEN "noRd"
  ELSE IF Target(b) = "private" THEN "UnsupportedReexport"
  ELSE IF Target(b) = "reexport" /\ (Has(b, "name") \/ Has(b, "rdname") \/ HasProse(b))
       THEN "UnsupportedReexport"
  ELSE IF Target(b) = "badData" THEN "InvalidDataName"
  ELSE IF Target(b) \notin {"package", "reexport"} /\ ~NeedsDoc(b) THEN "namespaceOnly"
  ELSE IF Target(b) = "package" THEN "merged"
  ELSE IF Primary(b) = Nobody THEN "MissingTopicIdentity"
  ELSE IF /\ Target(b) # "reexport" /\ TopicKey(b) = Reexports
          /\ \E c \in Blocks : Target(c) = "reexport"
       THEN "UnsupportedReexport"
  ELSE "merged"

Refusals == {"UnsupportedReexport", "InvalidDataName", "MissingTopicIdentity"}

-----------------------------------------------------------------------------
(* Helpers *)

\* Mutant: an alias of another topic is taken over without a report.
AddAliases_Quiet(k, N, origin, others) ==
  /\ aliases' = [aliases EXCEPT ![k] = @ \cup N]
  /\ owner' = [a \in Names |-> IF a \in N /\ owner[a] = Nobody THEN k ELSE owner[a]]
  /\ diagnostics' = diagnostics \cup others

\* add_alias for each name of N: what is new to topic k is reported when it
\* belongs to another topic, and added all the same.
AddAliases(k, N, origin, others) ==
  /\ aliases' = [aliases EXCEPT ![k] = @ \cup N]
  /\ owner' = [a \in Names |-> IF a \in N /\ owner[a] = Nobody THEN k ELSE owner[a]]
  /\ diagnostics' = diagnostics \cup others \cup
       {Report("ConflictingAlias", k, a, origin) :
          a \in {n \in N \ aliases[k] : owner[n] \notin {Nobody, k}}}

SuppressesAliases(b) == \E i \in TagsOf(b, "aliases") : Tags(b)[i].suppress
DefaultAliases(b) ==
  IF SuppressesAliases(b) THEN {} ELSE {Primary(b), ObjectName(b)} \ {Nobody}

\* Mutant: after a conflict the kind is that of the latest block.
RegisterKind_Latest(k, K) ==
  /\ firstKind' = [firstKind EXCEPT ![k] = IF @ = "Ordinary" THEN K ELSE @]
  /\ conflicting' = IF firstKind[k] \in {"Ordinary", K} THEN conflicting
                    ELSE conflicting \cup {k}
  /\ kind' = [kind EXCEPT ![k] = K]

\* register_topic_kind: package and data blocks in one topic are a conflict,
\* reported once, and leave a package topic.
RegisterKind(k, K) ==
  /\ firstKind' = [firstKind EXCEPT ![k] = IF @ = "Ordinary" THEN K ELSE @]
  /\ conflicting' = IF firstKind[k] \in {"Ordinary", K} THEN conflicting
                    ELSE conflicting \cup {k}
  /\ kind' = [kind EXCEPT ![k] = IF k \in conflicting \/ firstKind[k] \notin {"Ordinary", K}
                                 THEN "Package" ELSE K]
KindReports(k, K, origin) ==
  {Report("ConflictingTopicKind", k, Nobody, origin) :
     x \in {y \in {k} \ conflicting : firstKind[y] \notin {"Ordinary", K}}}

-----------------------------------------------------------------------------
(* The loop over the blocks *)

Init ==
  /\ pc = "blocks"
  /\ \E P \in Packages : pkg = P.blocks /\ described = P.described
  /\ todo = Blocks
  /\ block = 0 /\ at = 0 /\ slots = {}
  /\ topics = {}
  /\ name = [k \in Names |-> k]
  /\ merged = [k \in Names |-> <<>>]
  /\ kind = [k \in Names |-> "Ordinary"]
  /\ aliases = [k \in Names |-> {}]
  /\ value = [k \in Names |-> [s \in Slots |-> NoOrigin]]
  /\ docType = [k \in Names |-> NoOrigin] /\ noDocType = {}
  /\ params = [k \in Names |-> [n \in Names |-> NoOrigin]]
  /\ kept = [k \in Names |-> <<>>]
  /\ keywords = [k \in Names |-> {}]
  /\ reexports = [k \in Names |-> {}]
  /\ missingFormat = {} /\ undescribed = {}
  /\ namespace = <<>>
  /\ firstKind = [k \in Names |-> "Ordinary"] /\ conflicting = {}
  /\ owner = [a \in Names |-> Nobody]
  /\ claims = {}
  /\ anchored = {} /\ aliasing = {}
  /\ suppressed = [k \in Names |-> {}]
  /\ unnamed = {}
  /\ diagnostics = {}

\* The namespace tags of a block are kept before anything is decided on it.
TakeBlock(b) ==
  /\ pc = "blocks"
  /\ IsNext(b)
  /\ todo' = todo \ {b}
  /\ namespace' = Append(namespace, {b} \X TagsOf(b, "namespace"))

\* A block without a topic, or refused with an error.
LeaveOut(b) ==
  /\ TakeBlock(b)
  /\ Verdict(b) # "merged"
  /\ diagnostics' = diagnostics \cup
       {Report(v, Nobody, Nobody, <<b, 0>>) : v \in {Verdict(b)} \cap Refusals}
  /\ UNCHANGED <<pc, input, cursor, content, identity, naming, fallback, claims,
                 undescribed, unnamed>>

\* Mutant: only a package block suppresses.
RecordSuppression_Package(b, k) ==
  suppressed' = [suppressed EXCEPT ![k] =
    @ \cup {s \in FallbackSlots : HasNull(b, s) /\ Target(b) = "package"}]

\* record_package_fallback_suppression: of every block, whatever its target.
RecordSuppression(b, k) ==
  suppressed' = [suppressed EXCEPT ![k] = @ \cup {s \in FallbackSlots : HasNull(b, s)}]

\* merge_block begins.
OpenBlock(b, k) ==
  /\ pc' = "tags"
  /\ block' = b /\ at' = 1 /\ slots' = {}
  /\ topics' = topics \cup {k}
  /\ merged' = [merged EXCEPT ![k] = Append(@, b)]
  /\ UNCHANGED <<input, content, claims, undescribed, unnamed>>

\* merge_package_block: an explicit name is an alias, and no default alias is
\* added yet.
BeginPackage(b) ==
  LET k == TopicKey(b) IN
  /\ TakeBlock(b)
  /\ Verdict(b) = "merged" /\ Target(b) = "package"
  /\ RecordSuppression(b, k)
  /\ anchored' = anchored \cup {k}
  /\ aliasing' = IF SuppressesAliases(b) THEN aliasing ELSE aliasing \cup {k}
  /\ RegisterKind(k, "Package")
  /\ AddAliases(k, {FirstOf(b, "name", Nobody)} \ {Nobody}, <<b, 0>>,
                KindReports(k, "Package", <<b, 0>>))
  /\ OpenBlock(b, k)
  /\ UNCHANGED <<name, reexports, missingFormat>>

\* Any other block: the first one names the topic.
BeginTopic(b) ==
  LET k == TopicKey(b) IN
  /\ TakeBlock(b)
  /\ Verdict(b) = "merged" /\ Target(b) # "package"
  /\ RecordSuppression(b, k)
  /\ name' = [name EXCEPT ![k] = IF merged[k] = <<>> THEN Primary(b) ELSE @]
  /\ reexports' = [reexports EXCEPT ![k] =
                     IF Target(b) = "reexport" THEN @ \cup {ObjectName(b)} ELSE @]
  /\ IF Target(b) = "data"
     THEN /\ RegisterKind(k, "Data")
          /\ AddAliases(k, DefaultAliases(b), <<b, 0>>, KindReports(k, "Data", <<b, 0>>))
          /\ missingFormat' = IF Has(b, "format") THEN missingFormat
                              ELSE missingFormat \cup {k}
     ELSE /\ AddAliases(k, DefaultAliases(b), <<b, 0>>, {})
          /\ UNCHANGED <<kind, firstKind, conflicting, missingFormat>>
  /\ OpenBlock(b, k)
  /\ UNCHANGED <<anchored, aliasing>>

-----------------------------------------------------------------------------
(* merge_block: the tags of the block, one at a time *)

Key == TopicKey(block)
Here == <<block, at>>
Tag == Tags(block)[at]
IsAt(T) == pc = "tags" /\ at \in DOMAIN Tags(block) /\ Tag.tag \in T

Advance ==
  /\ at' = at + 1
  /\ UNCHANGED <<pc, input, todo, block, identity, fallback, undescribed, namespace, unnamed>>

\* reserve_block_slot: the second time is an error, and the tag is dropped.
Reserve(slot) ==
  /\ slots' = slots \cup {slot}
  /\ diagnostics' = IF slot \in slots
                    THEN diagnostics \cup {Report("DuplicateTag", Key, Nobody, Here)}
                    ELSE diagnostics

\* Tags that only have to be unique in their block.
ApplyUnique ==
  /\ IsAt({"name", "rdname", "order", "usage"})
  /\ Reserve(Tag.tag)
  /\ Advance
  /\ UNCHANGED <<content, naming, claims>>

\* Mutant: the last value wins.
ApplyField_Last ==
  /\ IsAt(Slots)
  /\ slots' = slots \cup {Tag.tag}
  /\ IF Tag.tag \in slots \/ (Tag.value # "null" /\ value[Key][Tag.tag] # NoOrigin)
     THEN diagnostics' = diagnostics \cup {Report("DuplicateTag", Key, Nobody, Here)}
     ELSE UNCHANGED diagnostics
  /\ value' = IF Tag.value = "null" THEN value ELSE [value EXCEPT ![Key][Tag.tag] = Here]
  /\ Advance
  /\ UNCHANGED <<docType, noDocType, params, kept, keywords, naming, claims>>

\* set_field and set_tag: the first value of the topic stays, another is an
\* error; NULL takes the slot of its block and nothing else.
ApplyField ==
  LET free == Tag.tag \notin slots
      old == value[Key][Tag.tag] IN
  /\ IsAt(Slots)
  /\ slots' = slots \cup {Tag.tag}
  /\ value' = IF free /\ Tag.value # "null" /\ old = NoOrigin
              THEN [value EXCEPT ![Key][Tag.tag] = Here] ELSE value
  /\ diagnostics' = IF ~free \/ (Tag.value # "null" /\ old # NoOrigin)
                    THEN diagnostics \cup {Report("DuplicateTag", Key, Nobody, Here)}
                    ELSE diagnostics
  /\ Advance
  /\ UNCHANGED <<docType, noDocType, params, kept, keywords, naming, claims>>

\* Mutant: an explicit type does not lift an earlier suppression.
ApplyDocType_StaySuppressed ==
  LET free == "docType" \notin slots
      old == docType[Key]
      same == Tags(old[1])[old[2]].value = Tag.value IN
  /\ IsAt({"docType"})
  /\ slots' = slots \cup {"docType"}
  /\ docType' = IF free /\ Tag.value # "null" /\ old = NoOrigin
                THEN [docType EXCEPT ![Key] = Here] ELSE docType
  /\ noDocType' = IF free /\ Tag.value = "null" /\ old = NoOrigin
                  THEN noDocType \cup {Key} ELSE noDocType
  /\ diagnostics' = IF ~free \/ (Tag.value # "null" /\ old # NoOrigin /\ ~same)
                    THEN diagnostics \cup {Report("DuplicateTag", Key, Nobody, Here)}
                    ELSE diagnostics
  /\ Advance
  /\ UNCHANGED <<value, params, kept, keywords, naming, claims>>

\* set_doc_type: equal types agree, and an explicit type lifts a suppression.
ApplyDocType ==
  LET free == "docType" \notin slots
      old == docType[Key]
      same == Tags(old[1])[old[2]].value = Tag.value IN
  /\ IsAt({"docType"})
  /\ slots' = slots \cup {"docType"}
  /\ docType' = IF free /\ Tag.value # "null" /\ old = NoOrigin
                THEN [docType EXCEPT ![Key] = Here] ELSE docType
  /\ noDocType' = IF ~free \/ old # NoOrigin THEN noDocType
                  ELSE IF Tag.value = "null" THEN noDocType \cup {Key} ELSE noDocType \ {Key}
  /\ diagnostics' = IF ~free \/ (Tag.value # "null" /\ old # NoOrigin /\ ~same)
                    THEN diagnostics \cup {Report("DuplicateTag", Key, Nobody, Here)}
                    ELSE diagnostics
  /\ Advance
  /\ UNCHANGED <<value, params, kept, keywords, naming, claims>>

\* A method of a topic is declared by one block.
ApplyMethod ==
  LET free == "method" \notin slots
      claim == <<Key, Tag.value>> IN
  /\ IsAt({"method"})
  /\ slots' = slots \cup {"method"}
  /\ claims' = IF free THEN claims \cup {claim} ELSE claims
  /\ diagnostics' = diagnostics \cup
       (IF ~free THEN {Report("DuplicateTag", Key, Nobody, Here)}
        ELSE IF claim \in claims THEN {Report("DuplicateMethod", Key, Tag.value, Here)}
        ELSE {})
  /\ Advance
  /\ UNCHANGED <<content, naming>>

\* Mutant: a name repeated within one tag is not noticed.
ApplyParam_OncePerTag ==
  LET listed == {Tag.names[j] : j \in DOMAIN Tag.names}
      again == {n \in listed : params[Key][n] # NoOrigin} IN
  /\ IsAt({"param"})
  /\ params' = [params EXCEPT ![Key] = [n \in Names |->
                  IF n \in listed /\ @[n] = NoOrigin THEN Here ELSE @[n]]]
  /\ diagnostics' = diagnostics \cup
       {Report("ConflictingParamDescription", Key, n, Here) : n \in again}
  /\ Advance
  /\ UNCHANGED <<slots, value, docType, noDocType, kept, keywords, naming, claims>>

\* The first description of each parameter stays.
ApplyParam ==
  LET listed == {Tag.names[j] : j \in DOMAIN Tag.names}
      again == {n \in listed : \/ params[Key][n] # NoOrigin
                               \/ \E i, j \in DOMAIN Tag.names :
                                    i # j /\ Tag.names[i] = n /\ Tag.names[j] = n} IN
  /\ IsAt({"param"})
  /\ params' = [params EXCEPT ![Key] = [n \in Names |->
                  IF n \in listed /\ @[n] = NoOrigin THEN Here ELSE @[n]]]
  /\ diagnostics' = diagnostics \cup
       {Report("ConflictingParamDescription", Key, n, Here) : n \in again}
  /\ Advance
  /\ UNCHANGED <<slots, value, docType, noDocType, kept, keywords, naming, claims>>

\* Sections and inheritance requests are all kept.
ApplyKept ==
  /\ IsAt({"section", "inherit", "inheritParams", "inheritSection"})
  /\ kept' = [kept EXCEPT ![Key] = Append(@, Here)]
  /\ Advance
  /\ UNCHANGED <<slots, value, docType, noDocType, params, keywords, naming, claims, diagnostics>>

ApplyAliases ==
  /\ IsAt({"aliases"})
  /\ AddAliases(Key, Tag.names, Here, {})
  /\ Advance
  /\ UNCHANGED <<slots, content, claims>>

ApplyKeywords ==
  /\ IsAt({"keywords"})
  /\ keywords' = IF Tag.value = "null" THEN keywords
                 ELSE [keywords EXCEPT ![Key] = @ \cup {Tag.value}]
  /\ Advance
  /\ UNCHANGED <<slots, value, docType, noDocType, params, kept, naming, claims, diagnostics>>

SkipNamespace ==
  /\ IsAt({"namespace"})
  /\ Advance
  /\ UNCHANGED <<slots, content, naming, claims, diagnostics>>

\* The block is folded; a data block adds its keyword.
CloseBlock ==
  /\ pc = "tags" /\ at \notin DOMAIN Tags(block)
  /\ pc' = "blocks"
  /\ keywords' = IF Target(block) # "data" \/ HasNull(block, "keywords") THEN keywords
                 ELSE [keywords EXCEPT ![Key] = @ \cup {"datasets"}]
  /\ UNCHANGED <<input, todo, cursor, value, docType, noDocType, params, kept, identity, naming,
                 fallback, claims, undescribed, namespace, unnamed, diagnostics>>

-----------------------------------------------------------------------------
(* Once every block is folded *)

EndBlocks ==
  /\ pc = "blocks" /\ todo = {}
  /\ pc' = "aliases"
  /\ unnamed' = topics \cap aliasing
  /\ UNCHANGED <<input, todo, cursor, content, identity, naming, fallback, claims, undescribed,
                 namespace, diagnostics>>

\* Mutant: the default alias is added whoever has it.
NameDefaults_Always(k) ==
  /\ pc = "aliases"
  /\ k \in unnamed /\ \A l \in unnamed : k <= l
  /\ unnamed' = unnamed \ {k}
  /\ AddAliases(k, {PkgName, k}, NoOrigin, {})
  /\ UNCHANGED <<pc, input, todo, cursor, content, identity, fallback, claims, undescribed,
                 namespace>>

\* finalize_package_aliases, in key order: the name of the package and the
\* key, but not what an ordinary topic has.
NameDefaults(k) ==
  LET free == {a \in {PkgName, k} :
                 \/ owner[a] \in {Nobody, k}
                 \/ owner[a] \in topics /\ kind[owner[a]] = "Package"} IN
  /\ pc = "aliases"
  /\ k \in unnamed /\ \A l \in unnamed : k <= l
  /\ unnamed' = unnamed \ {k}
  /\ AddAliases(k, free, NoOrigin, {})
  /\ UNCHANGED <<pc, input, todo, cursor, content, identity, fallback, claims, undescribed,
                 namespace>>

\* The shared topic of the re-exports.
NameReexports ==
  LET shared == {k \in topics : reexports[k] # {}} IN
  /\ pc = "aliases" /\ unnamed = {}
  /\ pc' = "defaults"
  /\ docType' = [k \in Names |-> IF k \in shared \ noDocType /\ docType[k] = NoOrigin
                                 THEN Default ELSE docType[k]]
  /\ value' = [k \in Names |-> IF k \in shared /\ value[k]["title"] = NoOrigin
                               THEN [value[k] EXCEPT !["title"] = Default] ELSE value[k]]
  /\ keywords' = [k \in Names |-> IF k \in shared THEN keywords[k] \cup {"internal"}
                                  ELSE keywords[k]]
  /\ UNCHANGED <<input, todo, cursor, noDocType, params, kept, identity, naming, fallback, claims,
                 undescribed, namespace, unnamed, diagnostics>>

PackageTopics == {k \in topics : kind[k] = "Package"}

\* What DESCRIPTION has for a package topic, where no block has a value and
\* none has suppressed it.  "package topics must have a package diagnostic
\* anchor": the program panics otherwise.
Describe ==
  LET missing(k, s) == value[k][s] = NoOrigin /\ s \notin suppressed[k] IN
  /\ pc = "defaults"
  /\ pc' = IF PackageTopics \subseteq anchored THEN "done" ELSE "panic"
  /\ value' = [k \in Names |-> [s \in Slots |->
                 IF k \in PackageTopics /\ s \in described /\ missing(k, s)
                 THEN Default ELSE value[k][s]]]
  /\ undescribed' = {k \in PackageTopics : /\ "description" \in Slots \ described
                                           /\ missing(k, "description")}
  /\ UNCHANGED <<input, todo, cursor, docType, noDocType, params, kept, keywords, identity,
                 naming, fallback, claims, namespace, unnamed, diagnostics>>

ApplyTag ==
  \/ ApplyUnique \/ ApplyField \/ ApplyDocType \/ ApplyMethod \/ ApplyParam \/ ApplyKept
  \/ ApplyAliases \/ ApplyKeywords \/ SkipNamespace

Next ==
  \/ \E b \in Blocks : LeaveOut(b) \/ BeginPackage(b) \/ BeginTopic(b)
  \/ ApplyTag \/ CloseBlock \/ EndBlocks
  \/ \E k \in Names : NameDefaults(k)
  \/ NameReexports \/ Describe

Spec == Init /\ [][Next]_vars

-----------------------------------------------------------------------------
(* Properties *)

\* The blocks of topic k, and the tags t that count: the first of each block.
BlocksOf(k) == {b \in Blocks : Verdict(b) = "merged" /\ TopicKey(b) = k}
Counted(k, t) ==
  {o \in UNION {{b} \X TagsOf(b, t) : b \in BlocksOf(k)} :
     \A j \in TagsOf(o[1], t) : o[2] <= j}
ValueAt(o) == Tags(o[1])[o[2]].value
Offers(k, t) == {o \in Counted(k, t) : ValueAt(o) # "null"}
Nulls(k, t) == {o \in Counted(k, t) : ValueAt(o) = "null"}
Earlier(o, p) == Precedes(o[1], p[1]) \/ (o[1] = p[1] /\ o[2] < p[2])
Earliest(O) == {o \in O : \A p \in O : o = p \/ Earlier(o, p)}
Duplicated(o) == \E d \in diagnostics : d.code = "DuplicateTag" /\ d.origin = o

\* However the blocks of a topic are ordered, each slot has the first value
\* in @order and source order, and every other value, and every second tag of
\* a block, is an error at its own place: nothing is dropped in silence.
SlotsAreFirst ==
  pc = "done" => \A k \in topics, s \in Slots :
    /\ Offers(k, s) # {} => value[k][s] \in Earliest(Offers(k, s))
    /\ \A b \in BlocksOf(k) : \A i \in TagsOf(b, s) :
         LET o == <<b, i>> IN
         Duplicated(o) <=> o \notin Counted(k, s) \/ (o \in Offers(k, s) /\ o # value[k][s])

\* A default of DESCRIPTION stands only where no block of the topic, before
\* or after the package block, has a value, and none has suppressed it.
DefaultsFillGapsOnly ==
  pc = "done" => \A k \in topics, s \in Slots :
    Offers(k, s) = {} =>
      LET suppressing == \E b \in BlocksOf(k) : s \in FallbackSlots /\ HasNull(b, s)
          isPackage == \E b \in BlocksOf(k) : Target(b) = "package" IN
      value[k][s] = IF \/ isPackage /\ s \in described /\ ~suppressing
                       \/ s = "title" /\ \E b \in BlocksOf(k) : Target(b) = "reexport"
                    THEN Default ELSE NoOrigin

\* The type of a topic is the first explicit one; NULL suppresses it in any
\* block if there is none; an equal type is no error, another one is.
DocTypeIsFirst ==
  pc = "done" => \A k \in topics :
    LET offers == Offers(k, "docType") IN
    /\ offers # {} => docType[k] \in Earliest(offers)
    /\ k \in noDocType <=> offers = {} /\ Nulls(k, "docType") # {}
    /\ \A o \in offers : Duplicated(o) <=> ValueAt(o) # ValueAt(docType[k])

\* Package and data blocks in one topic are one error and leave a package
\* topic, in whatever order they come.
KindIsOrderFree ==
  pc = "done" => \A k \in topics :
    LET targets == {Target(b) : b \in BlocksOf(k)} \cap {"package", "data"}
        reports == {d \in diagnostics : d.code = "ConflictingTopicKind" /\ d.topic = k} IN
    /\ kind[k] = IF "package" \in targets THEN "Package"
                 ELSE IF "data" \in targets THEN "Data" ELSE "Ordinary"
    /\ reports # {} <=> targets = {"package", "data"}
    /\ \A d, e \in reports : d = e

\* Two topics share an alias only with an error at the later claim; an alias
\* that leads to a topic belongs to it or is reported there.
ClaimsAreUnambiguous ==
  \A k \in Names : \A a \in aliases[k] :
    /\ owner[a] \in topics /\ a \in aliases[owner[a]]
    /\ owner[a] # k => \E d \in diagnostics :
         d.code = "ConflictingAlias" /\ d.topic = k /\ d.name = a

\* The default aliases of package topics never conflict with other topics.
DefaultAliasesYield ==
  \A d \in diagnostics : d.code = "ConflictingAlias" /\ d.origin = NoOrigin =>
    kind[d.topic] = "Package" /\ kind[owner[d.name]] = "Package"

\* The places where tag o names parameter n, and the tags of topic k that do.
Times(o, n) == {j \in DOMAIN Tags(o[1])[o[2]].names : Tags(o[1])[o[2]].names[j] = n}
Mentions(k, n) ==
  {o \in UNION {{b} \X TagsOf(b, "param") : b \in BlocksOf(k)} : Times(o, n) # {}}

\* Each parameter of a topic has the description of the first tag that names
\* it, and every other time it is named is an error there.
DescriptionsAreFirst ==
  pc = "done" => \A k \in topics, n \in Names :
    /\ params[k][n] \in IF Mentions(k, n) = {} THEN {NoOrigin} ELSE Earliest(Mentions(k, n))
    /\ \A o \in Mentions(k, n) :
         Report("ConflictingParamDescription", k, n, o) \in diagnostics
           <=> o # params[k][n] \/ \E i, j \in Times(o, n) : i # j

\* In each slot, and for each parameter, the first value in @order and source
\* order stays, and whatever else is said is reported where it is said.
FirstValueStays == SlotsAreFirst /\ DescriptionsAreFirst

\* The values of a topic: what is said first stays, what is said again is
\* reported, and a default stands only where nothing is said.
ValuesAreKept == FirstValueStays /\ DefaultsFillGapsOnly

\* What a topic is does not depend on the order of its blocks.
KindsAreOrderFree == DocTypeIsFirst /\ KindIsOrderFree

\* An alias leads to one topic or is an error, and defaults are never one.
AliasesAreUnambiguous == ClaimsAreUnambiguous /\ DefaultAliasesYield

\* The blocks of a topic are folded in @order and then source order, and the
\* first of them names the topic, unless it documents the package.
BlocksAreOrdered ==
  \A k \in topics :
    /\ \A i, j \in DOMAIN merged[k] : i < j => Precedes(merged[k][i], merged[k][j])
    /\ Target(merged[k][1]) # "package" => name[k] = Primary(merged[k][1])
    /\ \A b \in todo, i \in DOMAIN merged[k] : Precedes(merged[k][i], b)

\* Whatever the blocks are and however they are ordered, every package topic
\* has its anchor when the defaults are filled in: no expect fails.
NothingPanics == pc # "panic"

\* Order decides what it should, names, first values and the sequence of the
\* blocks, and nothing else.
OrderDecides == BlocksAreOrdered /\ KindsAreOrderFree /\ NothingPanics

\* Every block that documents something is part of one topic or has an
\* error, unless it asks for no Rd; what it says on the namespace is kept.
EveryBlockIsAccounted ==
  pc = "done" => \A b \in Blocks :
    LET homes == {k \in topics : \E i \in DOMAIN merged[k] : merged[k][i] = b}
        refused == \E d \in diagnostics : d.code \in Refusals /\ d.origin = <<b, 0>>
        documents == NeedsDoc(b) \/ Target(b) \in {"package", "reexport", "private", "badData"} IN
    /\ Cardinality(homes) <= 1
    /\ refused => homes = {}
    /\ documents /\ ~Has(b, "noRd") => homes # {} \/ refused
    /\ \A i \in TagsOf(b, "namespace") : \E j \in DOMAIN namespace : <<b, i>> \in namespace[j]
=============================================================================
