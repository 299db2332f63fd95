---------------------------- MODULE IntakeProofs ----------------------------
(* Proofs about Intake: whatever the libraries are and however often they   *)
(* change, the topics of a package are of one version, and the search for   *)
(* documentation ends where the search for namespaces did unless a package  *)
(* was moved in between; the authors of the package topic are those that R  *)
(* would read from Authors@R; and the sources are the files under R/ in the *)
(* order of their names.                                                    *)
EXTENDS Intake, FoldFacts, FiniteSetTheorems, SequenceTheorems, TLAPS

-----------------------------------------------------------------------------
(* The invariant *)

InHand == {"open", "resolve", "read", "project"}
Opening == {"resolve", "read", "project"}
Homes == Libraries \cup Stores
Asked == UNION {DOMAIN Aliases[v] \cup DOMAIN Documents[v] : v \in Versions}
Judged == [link : AllLinks, qualified : BOOLEAN]

\* A link is judged as the version says.
Right(judged, version) ==
  judged.qualified <=> /\ judged.link.form # "package"
                       /\ AliasOf(judged.link) \in DOMAIN Aliases[version]

\* Every name in a library has its state, every link leads into a store, and
\* every database has its version.
DiskInv ==
  /\ paths \in Seq(Libraries)
  /\ disk = [place \in Places |-> disk[place]]
  /\ \A place \in Places : /\ disk[place].help \in Versions \cup {0}
                           /\ disk[place].link \in Stores \cup {NoLibrary}
  /\ databases \in [Places -> Versions \cup {0}]

\* The directory of the request in hand is where the search leads, or was
\* moved away; once opened it stays open.
RequestInv ==
  /\ pc \in InHand \cup {"find"} =>
       request \in [package : Packages \cup Unsafe, topic : Asked, moved : BOOLEAN]
  /\ pc \in InHand =>
       /\ request.package \in Packages /\ here \in Homes
       /\ ~ request.moved => here = FoundAt(request.package)
  /\ pc \in Opening => databases[<<here, request.package>>] # 0
  /\ pc \in {"read", "project"} => databases[<<here, request.package>>] \notin NoIndex

\* The links judged, then the links left, are those of a topic.
Shares(done, todo, links) ==
  /\ done \in Seq(Judged) /\ todo \in Seq(AllLinks) /\ links \in Seq(AllLinks)
  /\ Len(links) = Len(done) + Len(todo)
  /\ \A k \in 1 .. Len(done) : done[k].link = links[k]
  /\ \A k \in 1 .. Len(todo) : todo[k] = links[Len(done) + k]

\* The links in hand are those of the topic, and judged as its version says.
WorkInv ==
  /\ pc \in {"read", "project"} =>
       work = [topic |-> work.topic, todo |-> work.todo, done |-> work.done]
  /\ pc = "read" => work.done = <<>>
  /\ pc = "project" =>
       LET version == databases[<<here, request.package>>]
       IN /\ work.topic \in DOMAIN Documents[version]
          /\ Shares(work.done, work.todo, LinksOf(Documents[version][work.topic]))
          /\ ~ request.moved => \A k \in 1 .. Len(work.done) : Right(work.done[k], version)

\* The topics kept are of a directory that is there or in a store, and their
\* links are in a sequence.
KeptInv ==
  \A t \in topics :
    /\ t.home \in Homes /\ t.package \in Packages
    /\ t.links \in Seq(Judged)

LibraryInv == DiskInv /\ RequestInv /\ WorkInv /\ KeptInv /\ TopicsAreOfOneVersion

-----------------------------------------------------------------------------
(* Searching *)

\* A search that succeeds ends in a library.
LEMMA FindLibrary ==
  ASSUME paths \in Seq(Libraries), NEW p, Find(p) # NoLibrary
  PROVE  Find(p) \in Libraries
<1> DEFINE K == {k \in DOMAIN paths : paths[k] \in {l \in Libraries : IsInstalled(Held(l, p))}}
<1>1. Find(p) = IF K = {} THEN NoLibrary ELSE paths[First(K)]
  BY DEF Find, FirstOnPaths
<1>2. K # {} /\ Find(p) = paths[First(K)]
  BY <1>1
<1>3. DOMAIN paths = 1 .. Len(paths) /\ Len(paths) \in Nat
  OBVIOUS
<1>4. K \in SUBSET Nat
  <2>1. K \subseteq 1 .. Len(paths)
    BY <1>3
  <2> QED
    BY <1>3, <2>1
<1>5. First(K) \in K
  <2> HIDE DEF K
  <2> QED
    BY <1>2, <1>4, LeastExists DEF First
<1> QED
  BY <1>2, <1>5

\* A path leads to a library or a store, to what has a version or none.
LEMMA HomeIsThere ==
  ASSUME DiskInv, NEW l \in Homes, NEW p \in Packages
  PROVE  Home(l, p) \in Homes /\ Held(l, p).help \in Versions \cup {0}
<1>1. <<l, p>> \in Places
  BY DEF Places, Homes
<1>2. Home(l, p) \in Homes
  BY <1>1 DEF DiskInv, Home, Homes
<1>3. <<Home(l, p), p>> \in Places
  BY <1>2 DEF Places, Homes
<1> QED
  BY <1>2, <1>3 DEF DiskInv, Held

\* So does a search that succeeds.
LEMMA FoundIsThere ==
  ASSUME DiskInv, NEW p \in Packages, FoundAt(p) # NoLibrary
  PROVE  FoundAt(p) \in Homes
<1>1. Find(p) # NoLibrary /\ FoundAt(p) = Home(Find(p), p)
  BY DEF FoundAt
<1>2. Find(p) \in Homes
  BY <1>1, FindLibrary DEF DiskInv, Homes
<1> QED
  BY <1>1, <1>2, HomeIsThere

\* Where the paths and everything of a package stay, its search leads to the
\* same directory.
LEMMA FindStays ==
  ASSUME DiskInv, NEW p \in Packages, paths' = paths,
         \A l \in Homes : disk'[<<l, p>>] = disk[<<l, p>>]
  PROVE  FoundAt(p)' = FoundAt(p)
<1>1. \A l \in Homes : Home(l, p)' = Home(l, p)
  BY DEF Home
<1>2. \A l \in Homes : Held(l, p)' = Held(l, p)
  BY <1>1, HomeIsThere DEF Held
<1>3. {l \in Libraries : IsInstalled(Held(l, p))}' = {l \in Libraries : IsInstalled(Held(l, p))}
  BY <1>2 DEF Homes
<1>4. Find(p)' = Find(p)
  BY <1>3 DEF Find, FirstOnPaths
<1>5. CASE Find(p) = NoLibrary
  BY <1>4, <1>5 DEF FoundAt
<1>6. CASE Find(p) # NoLibrary
  <2>1. Find(p) \in Homes
    BY <1>6, FindLibrary DEF DiskInv, Homes
  <2>2. Home(Find(p), p)' = Home(Find(p), p)
    BY <1>1, <1>4, <2>1 DEF Home
  <2> QED
    BY <1>4, <1>6, <2>2 DEF FoundAt
<1> QED
  BY <1>5, <1>6

-----------------------------------------------------------------------------
(* Steps *)

\* At first no topic is in hand and none is kept.
LEMMA InitLibrary == Init => LibraryInv
<1> SUFFICES ASSUME Init PROVE LibraryInv
  OBVIOUS
<1>1. PICK F \in Families : \E scene \in F : LibraryInit(scene)
  BY DEF Init
<1>2. PICK scene \in F : LibraryInit(scene)
  BY <1>1
<1>3. DiskInv
  BY <1>2, ScenesAssumption DEF LibraryInit, DiskInv, Places
<1>4. pc = "inputs" /\ topics = {}
  BY <1>2 DEF Init, LibraryInit
<1> QED
  BY <1>3, <1>4 DEF LibraryInv, RequestInv, WorkInv, KeptInv, TopicsAreOfOneVersion, InHand, Opening

\* A step after which no topic is in hand keeps the invariant, if it leaves
\* disks, databases and topics alone.
LEMMA Frame ==
  ASSUME LibraryInv, UNCHANGED <<paths, disk, databases, topics>>,
         pc' \notin InHand \cup {"find"}
  PROVE  LibraryInv'
<1>1. DiskInv'
  BY DEF LibraryInv, DiskInv
<1>2. RequestInv' /\ WorkInv'
  BY DEF RequestInv, WorkInv, InHand, Opening
<1>3. KeptInv'
  BY DEF LibraryInv, KeptInv
<1>4. TopicsAreOfOneVersion'
  BY DEF LibraryInv, TopicsAreOfOneVersion
<1> QED
  BY <1>1, <1>2, <1>3, <1>4 DEF LibraryInv

\* The resolver asks; nothing is in hand yet.
LEMMA AskKeeps ==
  ASSUME LibraryInv, NEW p \in Packages \cup Unsafe, NEW topic \in Asked,
         Ask(p, topic)
  PROVE  LibraryInv'
<1>1. UNCHANGED <<paths, disk, databases, topics, here, work>> /\ pc' = "find"
  BY DEF Ask, scanVars
<1>2. request' \in [package : Packages \cup Unsafe, topic : Asked, moved : BOOLEAN]
  BY DEF Ask
<1>3. DiskInv' /\ KeptInv' /\ TopicsAreOfOneVersion'
  BY <1>1 DEF LibraryInv, DiskInv, KeptInv, TopicsAreOfOneVersion
<1> QED
  BY <1>1, <1>2, <1>3 DEF LibraryInv, RequestInv, WorkInv, InHand, Opening

\* The search: here is where it leads.
LEMMA FindKeeps ==
  ASSUME LibraryInv, FindPackage
  PROVE  LibraryInv'
<1>1. UNCHANGED <<paths, disk, databases, topics, request>> /\ pc = "find"
  BY DEF FindPackage, Serving
<1>2. CASE pc' = "serve"
  BY <1>1, <1>2, Frame DEF InHand
<1>3. CASE pc' # "serve"
  <2>1. /\ request.package \notin Unsafe /\ FoundAt(request.package) # NoLibrary
        /\ here' = FoundAt(request.package) /\ pc' = "open"
    BY <1>3 DEF FindPackage, Failed, Answered
  <2>2. FoundAt(request.package)' = FoundAt(request.package)
    BY <1>1 DEF FoundAt, Home, Held, Find, FirstOnPaths
  <2>3. request \in [package : Packages \cup Unsafe, topic : Asked, moved : BOOLEAN]
    BY <1>1 DEF LibraryInv, RequestInv
  <2>4. here' \in Homes
    BY <2>1, <2>3, FoundIsThere DEF LibraryInv
  <2>5. RequestInv' /\ WorkInv'
    BY <1>1, <2>1, <2>2, <2>3, <2>4 DEF RequestInv, WorkInv, InHand, Opening
  <2>6. DiskInv' /\ KeptInv' /\ TopicsAreOfOneVersion'
    BY <1>1 DEF LibraryInv, DiskInv, KeptInv, TopicsAreOfOneVersion
  <2> QED
    BY <2>5, <2>6 DEF LibraryInv
<1> QED
  BY <1>2, <1>3

\* Where every database that is open stays open, the topics kept stay of
\* their version.
LEMMA KeptStay ==
  ASSUME LibraryInv, topics' = topics,
         \A q \in Places : databases[q] # 0 => databases'[q] = databases[q]
  PROVE  TopicsAreOfOneVersion'
<1> SUFFICES ASSUME NEW t \in topics
             PROVE  /\ databases[<<t.home, t.package>>] # 0
                    /\ databases'[<<t.home, t.package>>] = databases[<<t.home, t.package>>]
  BY DEF LibraryInv, TopicsAreOfOneVersion
<1>1. <<t.home, t.package>> \in Places
  BY DEF LibraryInv, KeptInv, Places, Homes
<1>2. databases[<<t.home, t.package>>] # 0
  BY DEF LibraryInv, TopicsAreOfOneVersion
<1> QED
  BY <1>1, <1>2

\* A database opened stays open: the topics kept of its directory are of it.
LEMMA OpenKeeps ==
  ASSUME LibraryInv, OpenDatabase
  PROVE  LibraryInv'
<1> DEFINE place == <<here, request.package>>
           version == Opened(here, request.package)
<1>1. UNCHANGED <<paths, disk, topics, request>> /\ pc = "open"
  BY DEF OpenDatabase, Serving
<1>2. CASE version = 0
  BY <1>1, <1>2, Frame DEF OpenDatabase, Failed, Answered, InHand
<1>3. CASE version # 0
  <2>1. /\ databases' = [databases EXCEPT ![place] = version]
        /\ pc' = "resolve" /\ UNCHANGED <<here, work>>
    BY <1>3 DEF OpenDatabase
  <2>2. /\ place \in Places /\ databases \in [Places -> Versions \cup {0}]
    BY <1>1 DEF LibraryInv, DiskInv, RequestInv, InHand, Places, Homes
  <2>3. version \in Versions \cup {0}
    <3>1. Held(here, request.package).help \in Versions \cup {0}
      BY <1>1, HomeIsThere DEF LibraryInv, RequestInv, InHand
    <3> QED
      BY <2>2, <3>1 DEF Opened
  <2>4. DiskInv'
    BY <1>1, <2>1, <2>2, <2>3 DEF LibraryInv, DiskInv, Places
  <2>5. databases'[place] = version
    BY <2>1, <2>2
  <2>6. FoundAt(request.package)' = FoundAt(request.package)
    BY <1>1 DEF FoundAt, Home, Held, Find, FirstOnPaths
  <2>7. RequestInv' /\ WorkInv'
    BY <1>1, <1>3, <2>1, <2>5, <2>6 DEF LibraryInv, RequestInv, WorkInv, InHand, Opening
  <2>8. KeptInv'
    BY <1>1 DEF LibraryInv, KeptInv
  <2>9. \A q \in Places : databases[q] # 0 => databases'[q] = databases[q]
    BY <2>1, <2>2 DEF Opened
  <2>10. TopicsAreOfOneVersion'
    BY <1>1, <2>9, KeptStay
  <2> QED
    BY <2>4, <2>7, <2>8, <2>10 DEF LibraryInv
<1> QED
  BY <1>2, <1>3

\* The topic in hand is resolved, or answered from the cache.
LEMMA ResolveKeeps ==
  ASSUME LibraryInv, ResolveAlias
  PROVE  LibraryInv'
<1>1. UNCHANGED <<paths, disk, databases, topics, request>> /\ pc = "resolve"
  BY DEF ResolveAlias, Serving
<1>2. CASE pc' = "serve"
  BY <1>1, <1>2, Frame DEF InHand
<1>3. CASE pc' # "serve"
  <2>1. /\ databases[<<here, request.package>>] \notin NoIndex
        /\ work' = [topic |-> Resolved(databases[<<here, request.package>>], request.topic),
                    todo |-> <<>>, done |-> <<>>]
        /\ pc' = "read" /\ here' = here
    BY <1>3 DEF ResolveAlias, Failed, Answered
  <2>2. FoundAt(request.package)' = FoundAt(request.package)
    BY <1>1 DEF FoundAt, Home, Held, Find, FirstOnPaths
  <2>3. RequestInv' /\ WorkInv'
    BY <1>1, <2>1, <2>2 DEF LibraryInv, RequestInv, WorkInv, InHand, Opening
  <2>4. DiskInv' /\ KeptInv' /\ TopicsAreOfOneVersion'
    BY <1>1 DEF LibraryInv, DiskInv, KeptInv, TopicsAreOfOneVersion
  <2> QED
    BY <2>3, <2>4 DEF LibraryInv
<1> QED
  BY <1>2, <1>3

\* No link is judged when a topic was just read.
LEMMA SharesAtFirst ==
  ASSUME NEW links \in Seq(AllLinks)
  PROVE  Shares(<<>>, links, links)
<1>1. <<>> \in Seq(Judged) /\ Len(<<>>) = 0
  OBVIOUS
<1>2. Len(links) \in Nat
  OBVIOUS
<1> QED
  BY <1>1, <1>2 DEF Shares

\* The next link left may be judged.
LEMMA SharesNext ==
  ASSUME NEW done, NEW todo, NEW links, Shares(done, todo, links), todo # <<>>,
         NEW qualified \in BOOLEAN
  PROVE  Shares(Append(done, [link |-> Head(todo), qualified |-> qualified]), Tail(todo), links)
<1> DEFINE judged == [link |-> Head(todo), qualified |-> qualified]
<1>1. done \in Seq(Judged) /\ todo \in Seq(AllLinks) /\ links \in Seq(AllLinks)
  BY DEF Shares
<1>2. /\ Len(todo) \in Nat \ {0} /\ Head(todo) = todo[1] /\ Head(todo) \in AllLinks
      /\ Tail(todo) \in Seq(AllLinks) /\ Len(Tail(todo)) = Len(todo) - 1
      /\ \A k \in 1 .. Len(Tail(todo)) : Tail(todo)[k] = todo[k + 1]
  BY <1>1
<1>3. judged \in Judged
  BY <1>2 DEF Judged
<1>4. /\ Append(done, judged) \in Seq(Judged)
      /\ Len(done) \in Nat /\ Len(Append(done, judged)) = Len(done) + 1
      /\ \A k \in 1 .. Len(done) : Append(done, judged)[k] = done[k]
      /\ Append(done, judged)[Len(done) + 1] = judged
  BY <1>1, <1>3
<1>5. Len(links) = Len(Append(done, judged)) + Len(Tail(todo))
  BY <1>2, <1>4 DEF Shares
<1>6. ASSUME NEW k \in 1 .. Len(Append(done, judged))
      PROVE  Append(done, judged)[k].link = links[k]
  <2>1. CASE k \in 1 .. Len(done)
    BY <1>4, <2>1 DEF Shares
  <2>2. CASE k = Len(done) + 1
    <3>1. todo[1] = links[Len(done) + 1]
      BY <1>2 DEF Shares
    <3> QED
      BY <1>2, <1>4, <2>2, <3>1
  <2> QED
    BY <1>4, <2>1, <2>2
<1>7. ASSUME NEW k \in 1 .. Len(Tail(todo))
      PROVE  Tail(todo)[k] = links[Len(Append(done, judged)) + k]
  <2>1. k + 1 \in 1 .. Len(todo) /\ Tail(todo)[k] = todo[k + 1]
    BY <1>2
  <2>2. todo[k + 1] = links[Len(done) + (k + 1)]
    BY <2>1 DEF Shares
  <2>3. Len(done) + (k + 1) = Len(Append(done, judged)) + k
    BY <1>2, <1>4
  <2> QED
    BY <2>1, <2>2, <2>3
<1> QED
  BY <1>1, <1>2, <1>4, <1>5, <1>6, <1>7 DEF Shares

\* The topic read is of the version opened; its links are still to be judged.
LEMMA ReadKeeps ==
  ASSUME LibraryInv, ReadTopic
  PROVE  LibraryInv'
<1> DEFINE version == databases[<<here, request.package>>]
           links == LinksOf(Documents[version][work.topic])
<1>1. UNCHANGED <<paths, disk, databases, topics, request>> /\ pc = "read"
  BY DEF ReadTopic, Serving
<1>2. CASE pc' = "serve"
  BY <1>1, <1>2, Frame DEF InHand
<1>3. CASE pc' # "serve"
  <2>1. /\ work.topic \in DOMAIN Documents[version]
        /\ work' = [work EXCEPT !.todo = links]
        /\ pc' = "project" /\ here' = here
    BY <1>3 DEF ReadTopic, Failed, Answered
  <2>2. FoundAt(request.package)' = FoundAt(request.package)
    BY <1>1 DEF FoundAt, Home, Held, Find, FirstOnPaths
  <2>3. RequestInv'
    BY <1>1, <2>1, <2>2 DEF LibraryInv, RequestInv, InHand, Opening
  <2>4. work = [topic |-> work.topic, todo |-> work.todo, done |-> <<>>]
    BY <1>1 DEF LibraryInv, WorkInv
  <2>5. work' = [topic |-> work.topic, todo |-> links, done |-> <<>>]
    BY <2>1, <2>4
  <2>6. version \in Versions
    BY <1>1, <2>3 DEF LibraryInv, DiskInv, RequestInv, InHand, Opening, Places, Homes
  <2>7. links \in Seq(AllLinks)
    BY <2>1, <2>6, DocumentsAssumption
  <2>8. WorkInv'
    <3>1. work'.topic = work.topic /\ work'.todo = links /\ work'.done = <<>>
      BY <2>5
    <3>2. databases'[<<here', request'.package>>] = version
      BY <1>1, <2>1
    <3>3. Shares(<<>>, links, links)
      BY <2>7, SharesAtFirst
    <3>4. work' = [topic |-> work'.topic, todo |-> work'.todo, done |-> work'.done]
      BY <2>5, <3>1
    <3>5. /\ work'.topic \in DOMAIN Documents[version]
          /\ Shares(work'.done, work'.todo, LinksOf(Documents[version][work'.topic]))
          /\ \A k \in 1 .. Len(work'.done) : Right(work'.done[k], version)
      <4> HIDE DEF links, version
      <4>1. \A k \in 1 .. Len(work'.done) : FALSE
        BY <3>1
      <4> QED
        BY <2>1, <3>1, <3>3, <4>1 DEF links, version
    <3> HIDE DEF version, links
    <3> QED
      BY <2>1, <3>2, <3>4, <3>5 DEF WorkInv
  <2>9. DiskInv' /\ KeptInv' /\ TopicsAreOfOneVersion'
    BY <1>1 DEF LibraryInv, DiskInv, KeptInv, TopicsAreOfOneVersion
  <2> QED
    BY <2>3, <2>8, <2>9 DEF LibraryInv
<1> QED
  BY <1>2, <1>3

\* A link is judged by the version of its topic, unless the search now leads
\* elsewhere.
LEMMA QualifyKeeps ==
  ASSUME LibraryInv, QualifyLink
  PROVE  LibraryInv'
<1> DEFINE found == FoundAt(request.package)
           place == <<here, request.package>>
           version == databases[place]
           links == LinksOf(Documents[version][work.topic])
           judged == [link |-> Head(work.todo), qualified |-> Qualified(Head(work.todo))]
<1>1. /\ UNCHANGED <<paths, disk, pc, topics, request, here>>
      /\ pc = "project" /\ work.todo # <<>>
  BY DEF QualifyLink, Serving
<1>2. /\ work' = [work EXCEPT !.todo = Tail(@), !.done = Append(@, judged)]
      /\ \/ databases' = databases
         \/ /\ found # NoLibrary
            /\ databases' = [databases EXCEPT ![<<found, request.package>>] =
                               Opened(found, request.package)]
  BY DEF QualifyLink
<1>3. /\ request.package \in Packages /\ here \in Homes /\ request.moved \in BOOLEAN
      /\ ~ request.moved => here = found
      /\ version # 0 /\ version \notin NoIndex
  BY <1>1 DEF LibraryInv, RequestInv, InHand, Opening
<1>4. paths \in Seq(Libraries) /\ databases \in [Places -> Versions \cup {0}]
  BY DEF LibraryInv, DiskInv
<1>5. found # NoLibrary => /\ <<found, request.package>> \in Places
                           /\ Opened(found, request.package) \in Versions \cup {0}
  <2> SUFFICES ASSUME found # NoLibrary
               PROVE  /\ <<found, request.package>> \in Places
                      /\ Opened(found, request.package) \in Versions \cup {0}
    OBVIOUS
  <2>1. found \in Homes
    BY <1>3, FoundIsThere DEF LibraryInv
  <2>2. <<found, request.package>> \in Places
    BY <1>3, <2>1 DEF Places, Homes
  <2>3. Held(found, request.package).help \in Versions \cup {0}
    BY <1>3, <2>1, HomeIsThere DEF LibraryInv
  <2> QED
    BY <1>4, <2>2, <2>3 DEF Opened
<1>6. DiskInv'
  <2>1. databases' \in [Places -> Versions \cup {0}]
    <3> HIDE DEF found
    <3> QED
      BY <1>2, <1>4, <1>5
  <2> QED
    BY <1>1, <2>1 DEF LibraryInv, DiskInv, Places
<1>7. \A q \in Places : databases[q] # 0 => databases'[q] = databases[q]
  <2> HIDE DEF found
  <2> QED
    BY <1>2, <1>4, <1>5 DEF Opened
<1>8. databases'[place] = version
  BY <1>3, <1>7 DEF Places, Homes
<1>9. RequestInv'
  <2>1. FoundAt(request.package)' = FoundAt(request.package)
    BY <1>1 DEF FoundAt, Home, Held, Find, FirstOnPaths
  <2>2. databases'[<<here', request'.package>>] = version
    BY <1>1, <1>8
  <2> QED
    BY <1>1, <1>3, <2>1, <2>2 DEF LibraryInv, RequestInv, InHand, Opening
<1>10. WorkInv'
  <2>1. /\ work = [topic |-> work.topic, todo |-> work.todo, done |-> work.done]
        /\ work.topic \in DOMAIN Documents[version]
        /\ Shares(work.done, work.todo, links)
        /\ ~ request.moved => \A k \in 1 .. Len(work.done) : Right(work.done[k], version)
    BY <1>1 DEF LibraryInv, WorkInv
  <2>2. /\ work' = [topic |-> work'.topic, todo |-> work'.todo, done |-> work'.done]
        /\ work'.topic = work.topic /\ work'.todo = Tail(work.todo)
        /\ work'.done = Append(work.done, judged)
    <3> HIDE DEF judged
    <3>1. work' = [topic |-> work.topic, todo |-> Tail(work.todo), done |-> Append(work.done, judged)]
      BY <1>2, <2>1
    <3> QED
      BY <3>1
  <2>3. Qualified(Head(work.todo)) \in BOOLEAN
    BY DEF Qualified
  <2>4. Shares(work'.done, work'.todo, links)
    <3> HIDE DEF links
    <3> QED
      BY <1>1, <2>1, <2>2, <2>3, SharesNext
  <2>5. ASSUME ~ request.moved PROVE Right(judged, version)
    <3>1. here = found /\ found # NoLibrary
      BY <1>3, <2>5, LibrariesAssumption DEF Homes
    <3>2. Opened(found, request.package) = version
      BY <1>3, <3>1 DEF Opened
    <3>3. ExistsNow(AliasOf(Head(work.todo))) <=> AliasOf(Head(work.todo)) \in DOMAIN Aliases[version]
      BY <1>3, <3>1, <3>2 DEF ExistsNow
    <3> QED
      BY <2>3, <3>3 DEF Right, Qualified
  <2>6. ASSUME ~ request.moved, NEW k \in 1 .. Len(work'.done)
        PROVE  Right(work'.done[k], version)
    <3> HIDE DEF judged, version
    <3>1. work.done \in Seq(Judged)
      BY <2>1 DEF Shares
    <3>2. /\ Len(Append(work.done, judged)) = Len(work.done) + 1 /\ Len(work.done) \in Nat
          /\ \A j \in 1 .. Len(work.done) : Append(work.done, judged)[j] = work.done[j]
          /\ Append(work.done, judged)[Len(work.done) + 1] = judged
      BY <3>1
    <3>3. CASE k \in 1 .. Len(work.done)
      BY <2>1, <2>2, <2>6, <3>2, <3>3
    <3>4. CASE k = Len(work.done) + 1
      BY <2>2, <2>5, <2>6, <3>2, <3>4
    <3> QED
      BY <2>2, <3>2, <3>3, <3>4
  <2>7. databases'[<<here', request'.package>>] = version /\ request'.moved = request.moved
    BY <1>1, <1>8
  <2>8. links = LinksOf(Documents[version][work'.topic]) /\ work'.topic \in DOMAIN Documents[version]
    BY <2>1, <2>2
  <2> HIDE DEF links, version
  <2> QED
    BY <1>1, <2>2, <2>4, <2>6, <2>7, <2>8 DEF WorkInv
<1>11. KeptInv'
  BY <1>1 DEF LibraryInv, KeptInv
<1>12. TopicsAreOfOneVersion'
  BY <1>1, <1>7, KeptStay
<1> QED
  BY <1>6, <1>9, <1>10, <1>11, <1>12 DEF LibraryInv

\* The topic is kept once every link is judged.
LEMMA KeepKeeps ==
  ASSUME LibraryInv, KeepTopic
  PROVE  LibraryInv'
<1> DEFINE new == [home |-> here, package |-> request.package, topic |-> work.topic,
                   links |-> work.done, moved |-> request.moved]
           version == databases[<<here, request.package>>]
           links == LinksOf(Documents[version][work.topic])
<1>1. /\ UNCHANGED <<paths, disk, databases, request>>
      /\ pc = "project" /\ work.todo = <<>> /\ pc' = "serve"
      /\ topics' = topics \cup {new}
  BY DEF KeepTopic, Serving, Answered
<1>2. DiskInv' /\ RequestInv' /\ WorkInv'
  BY <1>1 DEF LibraryInv, DiskInv, RequestInv, WorkInv, InHand, Opening
<1>3. /\ request.package \in Packages /\ here \in Homes /\ version # 0
  BY <1>1 DEF LibraryInv, RequestInv, InHand, Opening
<1>4. /\ work.topic \in DOMAIN Documents[version] /\ Shares(work.done, work.todo, links)
      /\ ~ request.moved => \A k \in 1 .. Len(work.done) : Right(work.done[k], version)
  BY <1>1 DEF LibraryInv, WorkInv
<1>5. /\ work.done \in Seq(Judged) /\ links \in Seq(AllLinks) /\ Len(links) = Len(work.done)
      /\ \A k \in 1 .. Len(work.done) : work.done[k].link = links[k]
  <2> HIDE DEF links
  <2>1. work.done \in Seq(Judged) /\ links \in Seq(AllLinks) /\ Len(links) = Len(work.done) + Len(<<>>)
    BY <1>1, <1>4 DEF Shares
  <2>2. \A k \in 1 .. Len(work.done) : work.done[k].link = links[k]
    BY <1>4 DEF Shares
  <2>3. Len(<<>>) = 0 /\ Len(work.done) \in Nat
    BY <2>1
  <2> QED
    BY <2>1, <2>2, <2>3
<1>6. KeptInv'
  BY <1>1, <1>3, <1>5 DEF LibraryInv, KeptInv
<1>7. [k \in DOMAIN work.done |-> work.done[k].link] = links
  <2> HIDE DEF links
  <2>1. DOMAIN work.done = 1 .. Len(work.done) /\ links = [k \in 1 .. Len(links) |-> links[k]]
    BY <1>5
  <2> QED
    BY <1>5, <2>1
<1>8. ASSUME NEW t \in topics'
      PROVE  LET opened == databases'[<<t.home, t.package>>]
             IN /\ opened # 0
                /\ t.topic \in DOMAIN Documents[opened]
                /\ [k \in DOMAIN t.links |-> t.links[k].link] = LinksOf(Documents[opened][t.topic])
                /\ ~ t.moved =>
                     \A k \in DOMAIN t.links :
                       LET link == t.links[k].link
                       IN t.links[k].qualified <=>
                            /\ link.form # "package"
                            /\ AliasOf(link) \in DOMAIN Aliases[opened]
  <2>1. CASE t \in topics
    BY <1>1, <2>1 DEF LibraryInv, TopicsAreOfOneVersion
  <2>2. CASE t = new
    <3>1. /\ t.home = here /\ t.package = request.package /\ t.topic = work.topic
          /\ t.links = work.done /\ t.moved = request.moved
      BY <2>2
    <3>2. databases'[<<t.home, t.package>>] = version
      BY <1>1, <3>1
    <3>3. DOMAIN t.links = 1 .. Len(work.done)
      BY <1>5, <3>1
    <3>4. ~ t.moved => \A k \in DOMAIN t.links : Right(t.links[k], version)
      BY <1>4, <3>1, <3>3
    <3> QED
      BY <1>3, <1>4, <1>7, <3>1, <3>2, <3>4 DEF Right
  <2> QED
    BY <1>1, <2>1, <2>2
<1>9. TopicsAreOfOneVersion'
  BY <1>8 DEF TopicsAreOfOneVersion
<1> QED
  BY <1>2, <1>6, <1>9 DEF LibraryInv

\* A package manager may change any directory: the search for the package in
\* hand leads where it led, or the request is marked.
LEMMA ChangeKeeps ==
  ASSUME LibraryInv, NEW home \in Homes, NEW changed \in Packages, NEW tree \in Trees,
         Change(home, changed, tree)
  PROVE  LibraryInv'
<1> DEFINE inHand == pc \in InHand /\ request.package = changed
<1>1. /\ UNCHANGED <<paths, pc, databases, topics, here, work>>
      /\ disk' = [disk EXCEPT ![<<home, changed>>] = tree]
      /\ request' = IF inHand /\ FoundAt(changed)' # FoundAt(changed)
                    THEN [request EXCEPT !.moved = TRUE] ELSE request
  BY DEF Change, InHand
<1>2. DiskInv
  BY DEF LibraryInv
<1>3. DiskInv'
  <2>1. disk' = [place \in Places |-> disk'[place]]
    BY <1>1, <1>2 DEF DiskInv
  <2>2. \A place \in Places : /\ disk'[place].help \in Versions \cup {0}
                              /\ disk'[place].link \in Stores \cup {NoLibrary}
    BY <1>1, <1>2, TreesAssumption DEF DiskInv
  <2> QED
    BY <1>1, <1>2, <2>1, <2>2 DEF DiskInv
<1>5. ASSUME NEW p \in Packages, p # changed PROVE FoundAt(p)' = FoundAt(p)
  <2>1. \A l \in Homes : disk'[<<l, p>>] = disk[<<l, p>>]
    BY <1>1, <1>2, <1>5 DEF DiskInv, Places, Homes
  <2> QED
    BY <1>1, <1>2, <2>1, FindStays
<1>6. RequestInv'
  <2>1. CASE pc \in InHand
    <3>1. /\ request \in [package : Packages \cup Unsafe, topic : Asked, moved : BOOLEAN]
          /\ request.package \in Packages /\ here \in Homes
          /\ ~ request.moved => here = FoundAt(request.package)
      BY <2>1 DEF LibraryInv, RequestInv
    <3>2. /\ request' \in [package : Packages \cup Unsafe, topic : Asked, moved : BOOLEAN]
          /\ request'.package = request.package
      BY <1>1, <3>1
    <3>3. ASSUME ~ request'.moved PROVE here = FoundAt(request.package)'
      <4>1. CASE request.package = changed
        <5>1. FoundAt(changed)' = FoundAt(changed) /\ request' = request
          BY <1>1, <2>1, <3>1, <3>3, <4>1
        <5> QED
          BY <3>1, <3>3, <4>1, <5>1
      <4>2. CASE request.package # changed
        <5>1. request' = request
          BY <1>1, <4>2
        <5> QED
          BY <1>5, <3>1, <3>3, <4>2, <5>1
      <4> QED
        BY <4>1, <4>2
    <3>4. (~ request.moved => here = FoundAt(request.package))'
      BY <1>1, <3>2, <3>3 DEF FoundAt, Home, Held, Find, FirstOnPaths
    <3>5. (request.package \in Packages /\ here \in Homes)'
      BY <1>1, <3>1, <3>2
    <3>6. pc \in Opening => databases'[<<here', request'.package>>] = databases[<<here, request.package>>]
      BY <1>1, <3>2
    <3> QED
      BY <1>1, <2>1, <3>2, <3>4, <3>5, <3>6 DEF LibraryInv, RequestInv, InHand, Opening
  <2>2. CASE pc \notin InHand
    <3>1. request' = request
      BY <1>1, <2>2
    <3> QED
      BY <1>1, <2>2, <3>1 DEF LibraryInv, RequestInv, InHand, Opening
  <2> QED
    BY <2>1, <2>2
<1>7. WorkInv'
  <2>1. pc \in InHand => /\ request'.package = request.package
                         /\ request.moved => request'.moved
    BY <1>1 DEF LibraryInv, RequestInv
  <2> QED
    BY <1>1, <2>1 DEF LibraryInv, WorkInv, InHand
<1>8. KeptInv' /\ TopicsAreOfOneVersion'
  BY <1>1 DEF LibraryInv, KeptInv, TopicsAreOfOneVersion
<1> QED
  BY <1>3, <1>6, <1>7, <1>8 DEF LibraryInv

\* Every step keeps the invariant.
LEMMA StepKeeps == LibraryInv /\ [Next]_vars => LibraryInv'
<1> SUFFICES ASSUME LibraryInv, [Next]_vars PROVE LibraryInv'
  OBVIOUS
<1> USE DEF InHand
<1>1. CASE LoadInputs
  BY <1>1, Frame DEF LoadInputs, Stop, Idle, askVars
<1>2. CASE LoadConfig
  BY <1>2, Frame DEF LoadConfig, Stop, Idle, askVars
<1>3. CASE TakeAuthors
  BY <1>3, Frame DEF TakeAuthors, Idle, askVars
<1>4. CASE Library
  <2> DEFINE dependencies == metadata.dependencies
  <2>1. CASE SelectCatalog
    BY <2>1, Frame DEF SelectCatalog, askVars
  <2>2. CASE ScanLibrary(dependencies)
    BY <2>2, Frame DEF ScanLibrary, askVars
  <2>3. CASE EndScan
    BY <2>3, Frame DEF EndScan, askVars
  <2>4. CASE \E p \in Packages : ReadNamespace(p)
    BY <2>4, Frame DEF ReadNamespace, askVars
  <2>5. CASE Compose
    BY <2>5, Frame DEF Compose, askVars
  <2>6. CASE \E p \in (Packages \ {Base}) \cup Unsafe : \E topic \in Asked : Ask(p, topic)
    BY <2>6, AskKeeps
  <2>7. CASE FindPackage
    BY <2>7, FindKeeps
  <2>8. CASE OpenDatabase
    BY <2>8, OpenKeeps
  <2>9. CASE ResolveAlias
    BY <2>9, ResolveKeeps
  <2>10. CASE ReadTopic
    BY <2>10, ReadKeeps
  <2>11. CASE QualifyLink
    BY <2>11, QualifyKeeps
  <2>12. CASE KeepTopic
    BY <2>12, KeepKeeps
  <2>13. CASE \E place \in Places, tree \in Trees : Change(place[1], place[2], tree)
    <3>1. PICK place \in Places, tree \in Trees : Change(place[1], place[2], tree)
      BY <2>13
    <3>2. place[1] \in Homes /\ place[2] \in Packages
      BY DEF Places, Homes
    <3> QED
      BY <3>1, <3>2, ChangeKeeps
  <2> QED
    BY <1>4, <2>1, <2>2, <2>3, <2>4, <2>5, <2>6, <2>7, <2>8, <2>9, <2>10, <2>11, <2>12, <2>13
    DEF Library, LibraryNext, Asked
<1>5. CASE UNCHANGED vars
  BY <1>5 DEF vars, libraryVars, LibraryInv, DiskInv, RequestInv, WorkInv, KeptInv,
              TopicsAreOfOneVersion, FoundAt, Home, Held, Find, FirstOnPaths
<1> QED
  BY <1>1, <1>2, <1>3, <1>4, <1>5 DEF Next

-----------------------------------------------------------------------------
(* The theorem *)

\* Whatever is installed, upgraded or removed while the run lasts, all topics
\* kept of one directory come from the version opened first, and their links
\* are judged by it unless the search for the package led elsewhere meanwhile.
THEOREM OneVersion == Spec => []TopicsAreOfOneVersion
<1>1. Spec => []LibraryInv
  BY InitLibrary, StepKeeps, PTL DEF Spec
<1>2. LibraryInv => TopicsAreOfOneVersion
  BY DEF LibraryInv
<1> QED
  BY <1>1, <1>2, PTL

-----------------------------------------------------------------------------
(* The two searches *)

\* Those of the first n libraries on the paths that have package p for
\* visible_packages.
Having(p, n) ==
  {k \in 1 .. n : /\ paths[k] \notin closed /\ ValidName(p)
                  /\ Takes(disk[<<paths[k], p>>], p \in metadata.dependencies)}

Early == {"inputs", "config", "catalog", "failed"}
Scanned == {"namespaces", "serve", "off", "find"} \cup InHand

\* A package is visible in the first library that has it, or nowhere; a
\* dependency that some library has is visible.
SeenInv(p) ==
  /\ p \in seen <=> Having(p, scanned) # {}
  /\ p \in metadata.dependencies /\ Having(p, scanned) # {} => visible[p] # NoLibrary
  /\ visible[p] # NoLibrary =>
       \E m \in Having(p, scanned) :
         visible[p] = paths[m] /\ \A k \in Having(p, scanned) : m <= k

ScanInv ==
  /\ paths \in Seq(Libraries)
  /\ pc \in Early \cup {"scan"} \cup Scanned
  /\ scanned \in 0 .. Len(paths)
  /\ pc \in Early => scanned = 0 /\ seen = {} /\ \A p \in Packages : visible[p] = NoLibrary
  /\ pc \in Scanned => scanned = Len(paths)
  /\ pc \notin {"inputs", "failed"} => \A p \in metadata.dependencies : ValidPackageName(p)
  /\ package.still =>
       /\ changes = 0
       /\ \A place \in Places : /\ disk[place].marker => disk[place].dir
                                /\ disk[place].link # NoLibrary => ~ disk[place].dir
       /\ \A p \in Packages : SeenInv(p)

\* Nothing is seen before the scan.
LEMMA EarlySees ==
  ASSUME scanned = 0, seen = {}, NEW p \in Packages, visible[p] = NoLibrary
  PROVE  SeenInv(p)
<1>1. Having(p, scanned) = {}
  BY DEF Having
<1> QED
  BY <1>1 DEF SeenInv

\* At first there is nothing to see.
LEMMA ScanStarts == Init => ScanInv
<1> SUFFICES ASSUME Init PROVE ScanInv
  OBVIOUS
<1>1. PICK F \in Families : \E scene \in F :
        /\ package = [description |-> scene.description, listing |-> scene.listing,
                      config |-> scene.config, still |-> scene.changes = 0]
        /\ LibraryInit(scene)
  BY DEF Init
<1>2. PICK scene \in F :
        /\ package.still = (scene.changes = 0)
        /\ LibraryInit(scene)
  <2>1. PICK scene \in F :
          /\ package = [description |-> scene.description, listing |-> scene.listing,
                        config |-> scene.config, still |-> scene.changes = 0]
          /\ LibraryInit(scene)
    BY <1>1
  <2>2. package.still = (scene.changes = 0)
    BY <2>1, Zenon
  <2> QED
    BY <2>1, <2>2
<1>3. /\ paths \in Seq(Libraries) /\ disk = scene.disk /\ changes = scene.changes
      /\ scanned = 0 /\ seen = {} /\ \A p \in Packages : visible[p] = NoLibrary
      /\ pc = "inputs"
  BY <1>1, <1>2, ScenesAssumption DEF LibraryInit, Init
<1>4. \A place \in Places : /\ disk[place].marker => disk[place].dir
                            /\ disk[place].link # NoLibrary => ~ disk[place].dir
  BY <1>1, <1>3, ScenesAssumption
<1>5. Len(paths) \in Nat
  BY <1>3
<1>6. ASSUME package.still PROVE changes = 0
  <2>1. scene.changes = 0
    BY <1>2, <1>6, Zenon
  <2> QED
    BY <1>3, <2>1
<1> QED
  BY <1>3, <1>4, <1>5, <1>6, EarlySees DEF ScanInv, Early, Scanned, InHand

\* A step outside the scan keeps it.
LEMMA ScanFrame ==
  ASSUME ScanInv, UNCHANGED <<package, paths, closed, scanned, seen, visible, metadata>>,
         package.still => UNCHANGED <<disk, changes>>,
         \/ pc' = pc
         \/ pc \in Scanned /\ pc' \in Scanned
         \/ pc = "scan" /\ pc' = "namespaces" /\ scanned = Len(paths)
         \/ pc = "catalog" /\ pc' = "scan"
         \/ pc = "config" /\ pc' \in {"catalog", "failed"}
  PROVE  ScanInv'
<1>1. ASSUME package.still, NEW p \in Packages PROVE SeenInv(p)'
  BY <1>1 DEF ScanInv, SeenInv, Having
<1>2. pc' \in Early => pc \in Early
  BY DEF ScanInv, Early, Scanned, InHand
<1>3. /\ pc' \in Early \cup {"scan"} \cup Scanned
      /\ pc' \in Scanned => scanned = Len(paths)
      /\ pc' \notin {"inputs", "failed"} => \A p \in metadata.dependencies : ValidPackageName(p)
  BY DEF ScanInv, Early, Scanned, InHand
<1> QED
  BY <1>1, <1>2, <1>3 DEF ScanInv

\* The description is read: its dependencies have names.
LEMMA LoadSees ==
  ASSUME ScanInv, LoadInputs
  PROVE  ScanInv'
<1>1. /\ pc = "inputs" /\ UNCHANGED <<package, paths, closed, disk, changes, scanned, seen, visible>>
      /\ \/ pc' = "failed"
         \/ pc' = "config" /\ metadata' = Metadata(package.description.fields)
  BY DEF LoadInputs, Idle, Stop, scanVars
<1>2. scanned = 0 /\ seen = {} /\ \A p \in Packages : visible[p] = NoLibrary
  BY <1>1 DEF ScanInv, Early
<1>3. \A p \in Packages : SeenInv(p)'
  <2> SUFFICES ASSUME NEW p \in Packages PROVE SeenInv(p)'
    OBVIOUS
  <2>1. Having(p, scanned)' = {}
    BY <1>1, <1>2 DEF Having
  <2> QED
    BY <1>1, <1>2, <2>1 DEF SeenInv
<1>4. pc' = "config" => \A p \in metadata'.dependencies : ValidPackageName(p)
  BY <1>1 DEF Metadata, Dependencies
<1> QED
  BY <1>1, <1>2, <1>3, <1>4 DEF ScanInv, Early, Scanned, InHand

\* The library that is scanned next comes after those that have been.
LEMMA HavingGrows ==
  ASSUME NEW p, NEW n \in Nat
  PROVE  /\ Having(p, n) \subseteq 1 .. n
         /\ Having(p, n + 1) = Having(p, n) \cup {k \in {n + 1} : k \in Having(p, n + 1)}
<1>1. \A k : k \in 1 .. n + 1 <=> k \in 1 .. n \/ k = n + 1
  OBVIOUS
<1> QED
  BY <1>1 DEF Having

\* A library is scanned.
LEMMA ScanSees ==
  ASSUME ScanInv, ScanLibrary(metadata.dependencies), UNCHANGED <<package, metadata>>
  PROVE  ScanInv'
<1> DEFINE library == paths[scanned + 1]
           taken == IF library \in closed THEN {} ELSE Taken(metadata.dependencies, library)
           shown == {p \in taken : IsVisible(disk[<<library, p>>], p \in metadata.dependencies)}
<1>1. /\ pc = "scan" /\ scanned < Len(paths) /\ scanned' = scanned + 1
      /\ UNCHANGED <<paths, closed, disk, pc, changes>>
      /\ seen' = seen \cup taken
      /\ visible' = [p \in Packages |-> IF p \in shown THEN library ELSE visible[p]]
  BY DEF ScanLibrary
<1>2. Len(paths) \in Nat /\ scanned \in Nat /\ scanned' \in 0 .. Len(paths) /\ scanned + 1 \in 1 .. Len(paths)
  BY <1>1 DEF ScanInv
<1>3. library \in Libraries
  BY <1>2 DEF ScanInv
<1>4. ASSUME package.still, NEW p \in Packages PROVE SeenInv(p)'
  <2> DEFINE now == Having(p, scanned + 1)
             before == Having(p, scanned)
  <2>1. SeenInv(p)
    BY <1>4 DEF ScanInv
  <2>2. Having(p, scanned)' = now
    BY <1>1 DEF Having
  <2>3. before \subseteq 1 .. scanned /\ now = before \cup {k \in {scanned + 1} : k \in now}
    BY <1>2, HavingGrows
  <2>4. p \in taken <=> p \notin seen /\ scanned + 1 \in now
    BY <1>2 DEF Taken, Having
  <2>5. p \in seen <=> before # {}
    BY <2>1 DEF SeenInv
  <2>6. visible'[p] = IF p \in shown THEN library ELSE visible[p]
    BY <1>1
  <2>7. p \in shown <=> p \in taken /\ IsVisible(disk[<<library, p>>], p \in metadata.dependencies)
    OBVIOUS
  <2>8. p \in metadata.dependencies => IsVisible(disk[<<library, p>>], p \in metadata.dependencies)
    BY DEF IsVisible
  <2> HIDE DEF now, before, taken, shown
  <2>9. now # {} <=> p \in seen'
    BY <1>1, <2>3, <2>4, <2>5
  <2>10. CASE before # {}
    <3>1. visible'[p] = visible[p]
      BY <2>4, <2>5, <2>6, <2>7, <2>10
    <3>2. p \in metadata.dependencies => visible[p] # NoLibrary
      BY <2>1, <2>10 DEF SeenInv, before
    <3>3. ASSUME visible[p] # NoLibrary
          PROVE  \E m \in now : visible[p] = paths[m] /\ \A k \in now : m <= k
      <4>1. PICK m \in before : visible[p] = paths[m] /\ \A k \in before : m <= k
        BY <2>1, <3>3 DEF SeenInv, before
      <4>2. \A k \in now : m <= k
        <5>1. m \in 1 .. scanned
          BY <2>3, <4>1
        <5>2. m <= scanned + 1
          BY <1>2, <5>1
        <5>3. \A k \in now : k \in before \/ k = scanned + 1
          BY <2>3
        <5> QED
          BY <4>1, <5>2, <5>3
      <4> QED
        BY <2>3, <4>1, <4>2
    <3> QED
      BY <1>1, <2>2, <2>9, <3>1, <3>2, <3>3 DEF SeenInv
  <2>11. CASE before = {}
    <3>1. p \in taken <=> now # {}
      BY <2>3, <2>4, <2>5, <2>11
    <3>2. visible[p] = NoLibrary
      BY <2>1, <2>11 DEF SeenInv, before
    <3>3. now # {} => now = {scanned + 1}
      BY <2>3, <2>11
    <3>4. p \in metadata.dependencies /\ now # {} => visible'[p] # NoLibrary
      BY <1>3, <2>6, <2>7, <2>8, <3>1, LibrariesAssumption
    <3>5. ASSUME visible'[p] # NoLibrary
          PROVE  \E m \in now : visible'[p] = paths[m] /\ \A k \in now : m <= k
      <4>1. p \in shown /\ visible'[p] = paths[scanned + 1]
        BY <2>6, <3>2, <3>5
      <4>2. now = {scanned + 1}
        BY <2>7, <3>1, <3>3, <4>1
      <4> QED
        BY <1>2, <4>1, <4>2
    <3> QED
      BY <1>1, <2>2, <2>9, <3>4, <3>5 DEF SeenInv
  <2> QED
    BY <2>10, <2>11
<1> QED
  BY <1>1, <1>2, <1>4 DEF ScanInv, Early, Scanned, InHand

\* A step keeps what the scan has seen.
LEMMA ScanKeeps ==
  ASSUME ScanInv, [Next]_vars
  PROVE  ScanInv'
<1> USE DEF Scanned, InHand
<1>1. CASE LoadInputs
  BY <1>1, LoadSees
<1>2. CASE LoadConfig
  BY <1>2, ScanFrame DEF LoadConfig, Stop, Idle, scanVars
<1>3. CASE TakeAuthors
  BY <1>3, ScanFrame DEF TakeAuthors, Idle, scanVars
<1>4. CASE Library
  <2> DEFINE dependencies == metadata.dependencies
  <2>0. UNCHANGED <<package, metadata>>
    BY <1>4 DEF Library, inputVars
  <2>1. CASE SelectCatalog
    BY <2>0, <2>1, ScanFrame DEF SelectCatalog
  <2>2. CASE ScanLibrary(dependencies)
    BY <2>0, <2>2, ScanSees
  <2>3. CASE EndScan
    BY <2>0, <2>3, ScanFrame DEF EndScan, scanVars
  <2>4. CASE \E p \in Packages : ReadNamespace(p)
    BY <2>0, <2>4, ScanFrame DEF ReadNamespace
  <2>5. CASE Compose
    BY <2>0, <2>5, ScanFrame DEF Compose
  <2>6. CASE \E p \in (Packages \ {Base}) \cup Unsafe : \E topic \in Asked : Ask(p, topic)
    BY <2>0, <2>6, ScanFrame DEF Ask, scanVars
  <2>7. CASE FindPackage
    BY <2>0, <2>7, ScanFrame DEF FindPackage, Serving, Failed, Answered, scanVars
  <2>8. CASE OpenDatabase
    BY <2>0, <2>8, ScanFrame DEF OpenDatabase, Serving, Failed, Answered, scanVars
  <2>9. CASE ResolveAlias
    BY <2>0, <2>9, ScanFrame DEF ResolveAlias, Serving, Failed, Answered, scanVars
  <2>10. CASE ReadTopic
    BY <2>0, <2>10, ScanFrame DEF ReadTopic, Serving, Failed, Answered, scanVars
  <2>11. CASE QualifyLink
    BY <2>0, <2>11, ScanFrame DEF QualifyLink, Serving, scanVars
  <2>12. CASE KeepTopic
    BY <2>0, <2>12, ScanFrame DEF KeepTopic, Serving, Answered, scanVars
  <2>13. CASE \E place \in Places, tree \in Trees : Change(place[1], place[2], tree)
    <3>1. UNCHANGED <<paths, closed, scanned, seen, visible, pc>> /\ changes > 0
      BY <2>13 DEF Change, scanVars
    <3>2. ASSUME package.still PROVE FALSE
      <4>1. changes = 0
        BY <3>2 DEF ScanInv
      <4> QED
        BY <3>1, <4>1
    <3> QED
      BY <2>0, <3>1, <3>2, ScanFrame
  <2> QED
    BY <1>4, <2>1, <2>2, <2>3, <2>4, <2>5, <2>6, <2>7, <2>8, <2>9, <2>10, <2>11, <2>12, <2>13
    DEF Library, LibraryNext, Asked
<1>5. CASE UNCHANGED vars
  BY <1>5, ScanFrame DEF vars, libraryVars
<1> QED
  BY <1>1, <1>2, <1>3, <1>4, <1>5 DEF Next

\* The first place on the paths that has a library.
LEMMA FirstOf ==
  ASSUME paths \in Seq(Libraries), NEW k \in DOMAIN paths
  PROVE  LET K == {j \in DOMAIN paths : paths[j] = paths[k]}
         IN First(K) \in K /\ \A j \in K : First(K) <= j
<1> DEFINE K == {j \in DOMAIN paths : paths[j] = paths[k]}
<1>1. k \in K /\ K \in SUBSET Nat
  BY DOMAIN paths = 1 .. Len(paths)
<1> HIDE DEF K
<1>2. First(K) \in K /\ \A j \in K : First(K) <= j
  BY <1>1, LeastExists DEF First
<1> QED
  BY <1>2 DEF K

\* What the scan has seen is where the search for topics leads.
LEMMA ScanAgrees ==
  ASSUME ScanInv
  PROVE  SearchesAgree
<1> SUFFICES ASSUME pc \in {"namespaces", "serve"}, package.still, NEW p \in Packages
             PROVE  /\ p \in metadata.dependencies
                       /\ (\E k \in DOMAIN paths : paths[k] \notin closed /\ disk[<<paths[k], p>>].dir)
                       => visible[p] # NoLibrary
                    /\ visible[p] # NoLibrary /\ Find(p) # visible[p] =>
                         \/ /\ Ahead(Find(p), visible[p])
                            /\ Find(p) \in closed \/ disk[<<Find(p), p>>].link # NoLibrary
                         \/ /\ Ahead(visible[p], Find(p)) /\ p \in metadata.dependencies
                            /\ disk[<<visible[p], p>>].dir /\ ~ disk[<<visible[p], p>>].marker
  BY DEF SearchesAgree
<1>1. /\ scanned = Len(paths) /\ Len(paths) \in Nat /\ DOMAIN paths = 1 .. Len(paths) /\ SeenInv(p)
      /\ \A place \in Places : /\ disk[place].marker => disk[place].dir
                               /\ disk[place].link # NoLibrary => ~ disk[place].dir
      /\ paths \in Seq(Libraries) /\ \A k \in DOMAIN paths : paths[k] \in Libraries
      /\ p \in metadata.dependencies => ValidPackageName(p)
  BY DEF ScanInv, Scanned
<1>2. ASSUME p \in metadata.dependencies, NEW k \in DOMAIN paths, paths[k] \notin closed,
             disk[<<paths[k], p>>].dir
      PROVE  visible[p] # NoLibrary
  <2>1. ValidName(p)
    BY <1>1, <1>2 DEF ValidPackageName, ValidName, Last
  <2>2. k \in Having(p, scanned)
    BY <1>1, <1>2, <2>1 DEF Having, Takes
  <2> QED
    BY <1>1, <1>2, <2>2 DEF SeenInv
<1>3. ASSUME visible[p] # NoLibrary, Find(p) # visible[p]
      PROVE  \/ /\ Ahead(Find(p), visible[p])
                /\ Find(p) \in closed \/ disk[<<Find(p), p>>].link # NoLibrary
             \/ /\ Ahead(visible[p], Find(p)) /\ p \in metadata.dependencies
                /\ disk[<<visible[p], p>>].dir /\ ~ disk[<<visible[p], p>>].marker
  <2> DEFINE K == {k \in DOMAIN paths : paths[k] \in {l \in Libraries : IsInstalled(Held(l, p))}}
             Of(l) == {k \in DOMAIN paths : paths[k] = l}
  <2>1. PICK m \in Having(p, scanned) : visible[p] = paths[m] /\ \A k \in Having(p, scanned) : m <= k
    BY <1>1, <1>3 DEF SeenInv
  <2>2. Find(p) = IF K = {} THEN NoLibrary ELSE paths[First(K)]
    BY DEF Find, FirstOnPaths
  <2>3. /\ m \in DOMAIN paths /\ ValidName(p) /\ m \in Nat
        /\ disk[<<visible[p], p>>].dir
        /\ p \in metadata.dependencies \/ disk[<<visible[p], p>>].marker
    BY <1>1, <2>1 DEF Having, Takes
  <2>4. \A l \in Libraries : disk[<<l, p>>].link = NoLibrary => Held(l, p) = disk[<<l, p>>]
    BY DEF Held, Home
  <2>5. disk[<<visible[p], p>>].marker => m \in K
    <3>1. paths[m] \in Libraries /\ <<paths[m], p>> \in Places
      BY <1>1, <2>3 DEF Places
    <3>2. disk[<<paths[m], p>>].link = NoLibrary
      BY <1>1, <2>1, <2>3, <3>1
    <3> QED
      BY <2>1, <2>3, <2>4, <3>1, <3>2 DEF IsInstalled
  <2>6. ASSUME NEW k \in K, k < m PROVE paths[k] \in closed \/ disk[<<paths[k], p>>].link # NoLibrary
    <3> SUFFICES ASSUME paths[k] \notin closed, disk[<<paths[k], p>>].link = NoLibrary PROVE FALSE
      OBVIOUS
    <3>1. paths[k] \in Libraries /\ <<paths[k], p>> \in Places /\ disk[<<paths[k], p>>].marker
      BY <1>1, <2>4 DEF IsInstalled, Places
    <3>2. k \in 1 .. scanned /\ disk[<<paths[k], p>>].dir
      BY <1>1, <2>6, <3>1
    <3>3. k \in Having(p, scanned)
      <4>1. Takes(disk[<<paths[k], p>>], p \in metadata.dependencies)
        BY <3>1, <3>2 DEF Takes
      <4> QED
        BY <2>3, <3>2, <4>1 DEF Having
    <3> QED
      BY <1>1, <2>1, <2>3, <2>6, <3>3
  <2>7. m = First(Of(paths[m]))
    <3>1. First(Of(paths[m])) \in Of(paths[m]) /\ \A j \in Of(paths[m]) : First(Of(paths[m])) <= j
      BY <1>1, <2>3, FirstOf
    <3>2. ASSUME NEW j \in Of(paths[m]) PROVE j \in Having(p, scanned) /\ j \in Nat
      BY <1>1, <2>1 DEF Having
    <3>3. m \in Of(paths[m])
      BY <2>3
    <3> HIDE DEF Of
    <3>4. m <= First(Of(paths[m])) /\ First(Of(paths[m])) <= m /\ First(Of(paths[m])) \in Nat
      BY <2>1, <3>1, <3>2, <3>3
    <3> QED
      BY <2>3, <3>4
  <2>8. CASE K = {}
    <3>1. ~ disk[<<visible[p], p>>].marker /\ Find(p) = NoLibrary
      BY <2>2, <2>5, <2>8
    <3> QED
      BY <1>3, <2>3, <3>1 DEF Ahead
  <2>9. CASE K # {}
    <3> DEFINE k == First(K)
    <3>1. K \in SUBSET Nat
      BY <1>1
    <3>2. k \in K /\ \A j \in K : k <= j
      <4> HIDE DEF K
      <4> QED
        BY <2>9, <3>1, LeastExists DEF First
    <3>3. Find(p) = paths[k] /\ k \in DOMAIN paths /\ k \in Nat /\ Find(p) # NoLibrary
      BY <1>1, <2>2, <2>9, <3>2, LibrariesAssumption
    <3>4. k = First(Of(paths[k]))
      <4>1. First(Of(paths[k])) \in Of(paths[k]) /\ \A j \in Of(paths[k]) : First(Of(paths[k])) <= j
        BY <1>1, <3>3, FirstOf
      <4>2. ASSUME NEW j \in Of(paths[k]) PROVE j \in K /\ j \in Nat
        BY <1>1, <3>2
      <4>3. k \in Of(paths[k])
        BY <3>3
      <4> HIDE DEF Of, k
      <4>4. k <= First(Of(paths[k])) /\ First(Of(paths[k])) <= k /\ First(Of(paths[k])) \in Nat
        BY <3>2, <4>1, <4>2, <4>3
      <4> QED
        BY <3>3, <4>4
    <3>5. Ahead(Find(p), visible[p]) <=> k < m
      BY <1>3, <2>1, <2>7, <3>3, <3>4 DEF Ahead
    <3>6. Ahead(visible[p], Find(p)) <=> m < k
      BY <1>3, <2>1, <2>7, <3>3, <3>4 DEF Ahead
    <3>7. k # m
      BY <1>3, <2>1, <3>3
    <3>8. CASE k < m
      BY <2>6, <3>2, <3>3, <3>5, <3>8
    <3>9. CASE m < k
      <4>1. ~ disk[<<visible[p], p>>].marker
        <5> HIDE DEF K, k
        <5> QED
          BY <2>3, <2>5, <3>2, <3>3, <3>9
      <4> QED
        BY <2>3, <3>6, <3>9, <4>1
    <3> HIDE DEF k
    <3> QED
      BY <2>3, <3>3, <3>7, <3>8, <3>9
  <2> QED
    BY <2>8, <2>9
<1> QED
  BY <1>2, <1>3

\* However many libraries there are, and whatever each of them has: as long as
\* nobody changes them, a dependency that has a directory in one that can be
\* listed gives its S3 metadata, and the search for topics leads to the library
\* that gave it, unless it stops before, at a link or in a library that cannot
\* be listed, or goes on past a directory of a dependency that has no
\* Meta/package.rds (visible_packages, find_installed_package).
THEOREM SearchesMeet == Spec => []SearchesAgree
<1>1. Spec => []ScanInv
  BY ScanStarts, ScanKeeps, PTL DEF Spec
<1> QED
  BY <1>1, ScanAgrees, PTL

-----------------------------------------------------------------------------
(* Counting *)

\* The members of a set up to a number.
CountTo(T, n) == Cardinality(T \cap (1 .. n))

\* One number further, there is one more or not.
LEMMA CountIs ==
  ASSUME NEW T, NEW n \in Nat
  PROVE  /\ IsFiniteSet(T \cap (1 .. n)) /\ CountTo(T, n) \in Nat /\ CountTo(T, n) <= n
         /\ n = 0 => CountTo(T, n) = 0
         /\ n # 0 => CountTo(T, n) = CountTo(T, n - 1) + (IF n \in T THEN 1 ELSE 0)
<1>1. \A m \in Nat : /\ IsFiniteSet(1 .. m) /\ Cardinality(1 .. m) = m
                     /\ IsFiniteSet(T \cap (1 .. m)) /\ Cardinality(T \cap (1 .. m)) \in Nat
                     /\ Cardinality(T \cap (1 .. m)) <= m
  <2>1. TAKE m \in Nat
  <2>2. IsFiniteSet(1 .. m) /\ Cardinality(1 .. m) = m
    BY FS_Interval
  <2>3. T \cap (1 .. m) \in SUBSET (1 .. m)
    OBVIOUS
  <2>4. IsFiniteSet(T \cap (1 .. m)) /\ Cardinality(T \cap (1 .. m)) <= m
    BY <2>2, <2>3, FS_Subset
  <2> QED
    BY <2>2, <2>4, FS_CardinalityType
<1>2. CASE n = 0
  <2>1. T \cap (1 .. n) = {}
    BY <1>2
  <2> QED
    BY <1>1, <1>2, <2>1, FS_EmptySet DEF CountTo
<1>3. CASE n # 0 /\ n \in T
  <2>1. T \cap (1 .. n) = (T \cap (1 .. n - 1)) \cup {n} /\ n \notin T \cap (1 .. n - 1) /\ n - 1 \in Nat
    BY <1>3
  <2>2. Cardinality((T \cap (1 .. n - 1)) \cup {n}) = Cardinality(T \cap (1 .. n - 1)) + 1
    BY <1>1, <2>1, FS_AddElement
  <2>3. CountTo(T, n) = CountTo(T, n - 1) + 1
    BY <2>1, <2>2 DEF CountTo
  <2>4. CountTo(T, n) \in Nat /\ CountTo(T, n) <= n /\ IsFiniteSet(T \cap (1 .. n))
    BY <1>1 DEF CountTo
  <2> QED
    BY <1>3, <2>3, <2>4
<1>4. CASE n # 0 /\ n \notin T
  <2>1. T \cap (1 .. n) = T \cap (1 .. n - 1) /\ n - 1 \in Nat
    BY <1>4
  <2>2. CountTo(T, n - 1) \in Nat
    BY <1>1, <2>1 DEF CountTo
  <2>3. CountTo(T, n) = CountTo(T, n - 1)
    BY <2>1 DEF CountTo
  <2>4. CountTo(T, n) \in Nat /\ CountTo(T, n) <= n /\ IsFiniteSet(T \cap (1 .. n))
    BY <1>1 DEF CountTo
  <2> QED
    BY <1>4, <2>2, <2>3, <2>4
<1> QED
  BY <1>2, <1>3, <1>4

LEMMA CountAfter ==
  ASSUME NEW T, NEW n \in Nat
  PROVE  CountTo(T, n + 1) = CountTo(T, n) + (IF n + 1 \in T THEN 1 ELSE 0)
<1>1. PICK m \in Nat : m = n + 1
  OBVIOUS
<1>2. m # 0 /\ m - 1 = n
  BY <1>1
<1>3. CountTo(T, m) = CountTo(T, m - 1) + (IF m \in T THEN 1 ELSE 0)
  BY <1>2, CountIs
<1> QED
  BY <1>1, <1>2, <1>3

\* Further on there are no fewer.
LEMMA CountGrows ==
  ASSUME NEW T, NEW n \in Nat, NEW m \in 0 .. n
  PROVE  CountTo(T, m) <= CountTo(T, n)
<1>1. IsFiniteSet(T \cap (1 .. n)) /\ T \cap (1 .. m) \in SUBSET (T \cap (1 .. n))
  BY CountIs
<1> QED
  BY <1>1, FS_Subset DEF CountTo

\* Of those that are counted, each number short of their count is the rank of
\* one.
LEMMA RankIsTaken ==
  ASSUME NEW T, NEW N \in Nat, NEW r \in Nat, r < CountTo(T, N)
  PROVE  \E j \in T \cap (1 .. N) : CountTo(T, j - 1) = r
<1> DEFINE K == {n \in 0 .. N : r < CountTo(T, n) => \E j \in T \cap (1 .. n) : CountTo(T, j - 1) = r}
<1>1. 0 \in K
  <2>1. CountTo(T, 0) = 0
    BY CountIs
  <2> QED
    BY <2>1
<1>2. ASSUME NEW n \in 1 .. N, n - 1 \in K PROVE n \in K
  <2> SUFFICES ASSUME r < CountTo(T, n) PROVE \E j \in T \cap (1 .. n) : CountTo(T, j - 1) = r
    OBVIOUS
  <2>1. n \in Nat /\ n # 0 /\ n - 1 \in Nat
    OBVIOUS
  <2>2. /\ CountTo(T, n) = CountTo(T, n - 1) + (IF n \in T THEN 1 ELSE 0)
        /\ CountTo(T, n - 1) \in Nat
    BY <2>1, CountIs
  <2>3. CASE r < CountTo(T, n - 1)
    <3>1. \E j \in T \cap (1 .. n - 1) : CountTo(T, j - 1) = r
      BY <1>2, <2>3
    <3> QED
      BY <2>1, <3>1
  <2>4. CASE ~ (r < CountTo(T, n - 1))
    <3>1. n \in T
      BY <2>2, <2>4
    <3>2. CountTo(T, n) = CountTo(T, n - 1) + 1
      BY <2>2, <3>1
    <3>3. CountTo(T, n - 1) = r
      BY <2>2, <2>4, <3>2
    <3> QED
      BY <2>1, <3>1, <3>3
  <2> QED
    BY <2>3, <2>4
<1>3. \A n \in 0 .. N : n \in K
  <2> HIDE DEF K
  <2> QED
    BY <1>1, <1>2, UpToBound
<1> QED
  BY <1>3

-----------------------------------------------------------------------------
(* Arguments *)

LEMMA FormalsAre ==
  /\ DOMAIN Formals = 1 .. 6
  /\ \A i, j \in 1 .. 6 : Formals[i] = Formals[j] => i = j
  /\ \A i \in 1 .. 6 : Formals[i] # "" /\ Formals[i] # "unused" /\ Formals[i] \in Supported
  /\ \A name \in Supported : SlotOf(name) \in 1 .. 6 /\ Formals[SlotOf(name)] = name
<1>1. DOMAIN Formals = 1 .. 6
  BY DEF Formals
<1>2. /\ \A i, j \in 1 .. 6 : Formals[i] = Formals[j] => i = j
      /\ \A i \in 1 .. 6 : Formals[i] # "" /\ Formals[i] # "unused"
  BY DEF Formals
<1>3. Supported = {Formals[i] : i \in 1 .. 6}
  BY <1>1 DEF Supported, ToSet
<1>4. ASSUME NEW name \in Supported PROVE SlotOf(name) \in 1 .. 6 /\ Formals[SlotOf(name)] = name
  <2>1. \E k \in DOMAIN Formals : Formals[k] = name
    BY <1>1, <1>3
  <2> QED
    BY <1>1, <2>1 DEF SlotOf
<1> QED
  BY <1>1, <1>2, <1>3, <1>4

\* The arguments of a call without a name.
Others(args) == {j \in DOMAIN args : args[j].name = ""}

LEMMA CallIs ==
  ASSUME NEW args \in Seq(PersonArgument)
  PROVE  /\ Len(args) \in Nat /\ DOMAIN args = 1 .. Len(args)
         /\ \A k \in DOMAIN args :
              /\ Cardinality({j \in 1 .. k - 1 : args[j].name = ""}) = CountTo(Others(args), k - 1)
              /\ CountTo(Others(args), k - 1) \in Nat
<1>1. Len(args) \in Nat /\ DOMAIN args = 1 .. Len(args)
  BY LenProperties
<1>2. ASSUME NEW k \in DOMAIN args
      PROVE  {j \in 1 .. k - 1 : args[j].name = ""} = Others(args) \cap (1 .. k - 1)
  <2>1. 1 .. k - 1 \subseteq DOMAIN args
    BY <1>1
  <2> QED
    BY <2>1 DEF Others
<1>3. \A k \in DOMAIN args : CountTo(Others(args), k - 1) \in Nat
  <2>1. \A k \in DOMAIN args : k - 1 \in Nat
    BY <1>1
  <2> QED
    BY <2>1, CountIs
<1> QED
  BY <1>1, <1>2, <1>3 DEF CountTo

\* In a call that is accepted, every argument claims a slot of its own: one
\* with a name the slot of that name, the others the first ones.
LEMMA ClaimsAre ==
  ASSUME NEW args \in Seq(PersonArgument), ~ PersonFails(args)
  PROVE  /\ \A k \in DOMAIN args : Claimed(args, k) \in 1 .. 6
         /\ \A j, k \in DOMAIN args : Claimed(args, j) = Claimed(args, k) => j = k
         /\ \A k \in DOMAIN args : args[k].name # "" => Formals[Claimed(args, k)] = args[k].name
         /\ \A k \in Others(args) :
              Claimed(args, k) = CountTo(Others(args), k - 1) + 1 /\ CountTo(Others(args), k - 1) < 4
<1>1. Len(args) \in Nat /\ DOMAIN args = 1 .. Len(args)
  BY CallIs
<1>2. \A k \in DOMAIN args : Claimed(args, k) # 0 /\ ~ Mixed(args, k)
  BY DEF PersonFails, ArgumentFails
<1>3. ASSUME NEW k \in DOMAIN args
      PROVE  Claimed(args, k) = IF args[k].name \in Supported THEN SlotOf(args[k].name)
                                ELSE IF args[k].name = "" /\ CountTo(Others(args), k - 1) < 4
                                THEN CountTo(Others(args), k - 1) + 1 ELSE 0
  BY CallIs DEF Claimed, Positional
<1>4. "" \notin Supported
  BY FormalsAre DEF Supported, ToSet
<1>5. ASSUME NEW k \in DOMAIN args, args[k].name # ""
      PROVE  Claimed(args, k) \in 1 .. 6 /\ Formals[Claimed(args, k)] = args[k].name
  <2>1. args[k].name \in Supported
    BY <1>2, <1>3, <1>5
  <2> QED
    BY <1>3, <2>1, FormalsAre
<1>6. ASSUME NEW k \in Others(args)
      PROVE  /\ Claimed(args, k) = CountTo(Others(args), k - 1) + 1
             /\ CountTo(Others(args), k - 1) < 4 /\ CountTo(Others(args), k - 1) \in Nat
  <2>1. k \in DOMAIN args /\ args[k].name = ""
    BY DEF Others
  <2>2. CountTo(Others(args), k - 1) \in Nat
    BY <2>1, CallIs
  <2> QED
    BY <1>2, <1>3, <1>4, <2>1, <2>2
<1>7. ASSUME NEW k \in DOMAIN args, args[k].name = "" PROVE Claimed(args, k) \in 1 .. 6
  <2>1. k \in Others(args)
    BY <1>7 DEF Others
  <2> QED
    BY <1>6, <2>1
<1>8. ASSUME NEW j \in DOMAIN args, NEW k \in DOMAIN args, Claimed(args, j) = Claimed(args, k)
      PROVE  j = k
  <2>1. j < k => j \in 1 .. k - 1
    BY <1>1
  <2>2. k < j => k \in 1 .. j - 1
    BY <1>1
  <2>3. ~ (j < k) /\ ~ (k < j)
    BY <1>2, <1>8, <2>1, <2>2 DEF Mixed
  <2> QED
    BY <1>1, <2>3
<1> QED
  BY <1>5, <1>6, <1>7, <1>8

\* R fills the same formal.
LEMMA MatchedIsClaimed ==
  ASSUME NEW args \in Seq(PersonArgument), ~ PersonFails(args), NEW k \in DOMAIN args
  PROVE  MatchedByR(args, k) = Formals[Claimed(args, k)]
<1> DEFINE T == Others(args)
           O == Open(args)
           b == CountTo(T, k - 1)
<1>0. Cardinality({j \in 1 .. k - 1 : args[j].name = ""}) = b
  BY CallIs
<1>1. k - 1 \in Nat /\ b \in Nat
  <2>1. Len(args) \in Nat /\ DOMAIN args = 1 .. Len(args)
    BY CallIs
  <2>2. k - 1 \in Nat
    BY <2>1
  <2>3. b \in Nat
    BY CallIs
  <2> HIDE DEF b
  <2> QED
    BY <2>2, <2>3
<1> HIDE DEF T, O, b
<1>2. CASE args[k].name # ""
  BY <1>2, ClaimsAre DEF MatchedByR
<1>3. CASE args[k].name = ""
  <2>1. k \in T
    BY <1>3 DEF Others, T
  <2>2. Claimed(args, k) = b + 1 /\ b < 4
    BY <2>1, ClaimsAre DEF T, b
  <2>3. ASSUME NEW i \in 1 .. b PROVE \E j \in T : Claimed(args, j) = i
    <3>0. i - 1 \in Nat /\ i - 1 < b /\ i - 1 + 1 = i
      BY <1>1
    <3>1. i - 1 \in Nat /\ i - 1 < CountTo(T, k - 1)
      BY <3>0 DEF b
    <3>2. PICK j \in T \cap (1 .. k - 1) : CountTo(T, j - 1) = i - 1
      BY <1>1, <3>1, RankIsTaken
    <3>3. Claimed(args, j) = CountTo(T, j - 1) + 1
      BY <3>2, ClaimsAre DEF T
    <3> QED
      BY <3>0, <3>2, <3>3
  <2>4. ASSUME NEW i \in 1 .. b + 1 PROVE i \in O
    <3>0. i \in 1 .. b \/ i = b + 1
      BY <1>1
    <3>1. PICK j \in T : Claimed(args, j) = i
      BY <2>1, <2>2, <2>3, <3>0
    <3>2. i \in DOMAIN Formals /\ i \in 1 .. 6
      <4>1. b + 1 \in 1 .. 6
        BY <1>1, <2>2
      <4>2. i \in 1 .. 6
        BY <1>1, <4>1
      <4> QED
        BY <4>2, FormalsAre
    <3>3. ASSUME NEW l \in DOMAIN args, Formals[i] = args[l].name PROVE FALSE
      <4>1. args[l].name # ""
        BY <3>2, <3>3, FormalsAre
      <4>2. Formals[Claimed(args, l)] = Formals[i] /\ Claimed(args, l) \in 1 .. 6
        BY <3>3, <4>1, ClaimsAre
      <4>3. Claimed(args, l) = i
        BY <3>2, <4>2, FormalsAre
      <4>4. j \in DOMAIN args /\ args[j].name = ""
        BY DEF Others, T
      <4>5. l = j
        BY <3>1, <4>3, <4>4, ClaimsAre
      <4> QED
        BY <4>1, <4>4, <4>5
    <3> QED
      BY <3>2, <3>3 DEF Open, O
  <2>5. O \cap (1 .. b) = 1 .. b
    BY <1>1, <2>4
  <2>6. CountTo(O, b) = b
    <3>1. Cardinality(1 .. b) = b
      BY <1>1, FS_Interval
    <3> QED
      BY <2>5, <3>1 DEF CountTo
  <2>7. \A i \in O : i \in 1 .. 6
    BY FormalsAre DEF Open, O
  <2>8. b + 1 \in O
    BY <1>1, <2>4
  <2>9. ASSUME NEW i \in O, CountTo(O, i - 1) = b PROVE i = b + 1
    <3>1. CASE i < b + 1
      <4>1. i - 1 \in Nat
        BY <2>7
      <4>2. CountTo(O, i - 1) <= i - 1
        BY <4>1, CountIs
      <4> QED
        BY <1>1, <2>7, <2>9, <3>1, <4>2
    <3>2. CASE b + 1 < i
      <4>1. i - 1 \in Nat /\ b + 1 \in 0 .. i - 1 /\ b + 1 \in Nat /\ b + 1 - 1 = b /\ b + 1 # 0
        BY <1>1, <2>7, <3>2
      <4>2. CountTo(O, b + 1) <= CountTo(O, i - 1)
        BY <4>1, CountGrows
      <4>3. CountTo(O, b + 1) = CountTo(O, b) + 1
        BY <1>1, <2>8, CountAfter
      <4> QED
        BY <1>1, <2>6, <2>9, <4>2, <4>3
    <3> QED
      BY <1>1, <2>7, <3>1, <3>2
  <2>10. FilledBy(args, k) = {b + 1}
    <3>1. FilledBy(args, k) = {i \in O : CountTo(O, i - 1) = b}
      BY <1>0 DEF FilledBy, CountTo, O
    <3>2. {i \in O : CountTo(O, i - 1) = b} = {b + 1}
      <4> DEFINE S == {i \in O : CountTo(O, i - 1) = b}
      <4>0. PICK m \in O : m = b + 1
        BY <2>8
      <4>1. m \in S
        <5>0. m - 1 = b
          BY <1>1, <4>0
        <5>1. CountTo(O, m - 1) = b
          BY <2>6, <5>0
        <5> QED
          BY <5>1
      <4>2. \A i \in S : i = b + 1
        BY <2>9
      <4> HIDE DEF S
      <4>3. S = {b + 1}
        BY <4>0, <4>1, <4>2
      <4> QED
        BY <4>3 DEF S
    <3> QED
      BY <3>1, <3>2
  <2>11. MatchedByR(args, k) = Formals[CHOOSE i \in {b + 1} : TRUE]
    BY <1>3, <2>10 DEF MatchedByR
  <2>12. (CHOOSE i \in {b + 1} : TRUE) = b + 1
    OBVIOUS
  <2> QED
    BY <2>2, <2>11, <2>12
<1> QED
  BY <1>2, <1>3

\* The text of an argument is where R puts it.
LEMMA TextsAreKept ==
  ASSUME NEW args \in Seq(PersonArgument), ~ PersonFails(args), NEW k \in DOMAIN args,
         args[k].kind = "string"
  PROVE  /\ Claimed(args, k) = 1 => PersonSpec(args).given = args[k].text
         /\ Claimed(args, k) = 2 => PersonSpec(args).family = args[k].text
         /\ Claimed(args, k) = 3 => PersonSpec(args).middle = args[k].text
         /\ Claimed(args, k) = 4 => PersonSpec(args).email = args[k].text
<1> DEFINE given(slot) == {j \in DOMAIN args : Claimed(args, j) = slot /\ args[j].kind # "none"}
           value(slot) == args[CHOOSE j \in given(slot) : TRUE]
           text(slot) == IF given(slot) = {} THEN NoText ELSE value(slot).text
<1>1. /\ PersonSpec(args).given = text(1) /\ PersonSpec(args).family = text(2)
      /\ PersonSpec(args).middle = text(3) /\ PersonSpec(args).email = text(4)
  BY DEF PersonSpec
<1>2. given(Claimed(args, k)) = {k}
  BY ClaimsAre
<1>3. text(Claimed(args, k)) = args[k].text
  <2> HIDE DEF given
  <2>1. (CHOOSE j \in {k} : TRUE) = k
    OBVIOUS
  <2> QED
    BY <1>2, <2>1
<1> HIDE DEF text
<1> QED
  BY <1>1, <1>3

TextAt(person, formal) ==
  CASE formal = "given" -> person.given [] formal = "family" -> person.family
    [] formal = "middle" -> person.middle [] formal = "email" -> person.email
    [] OTHER -> NoText

\* So it is read as R reads it.
LEMMA ReadAsMatched ==
  ASSUME NEW args \in Seq(PersonArgument), ~ PersonFails(args), NEW k \in DOMAIN args
  PROVE  LET formal == MatchedByR(args, k)
         IN /\ formal # "unused"
            /\ args[k].kind = "string" /\ formal \in {"given", "family", "middle", "email"}
               => TextAt(PersonSpec(args), formal) = args[k].text
<1> DEFINE slot == Claimed(args, k)
           formal == MatchedByR(args, k)
<1>1. slot \in 1 .. 6 /\ formal = Formals[slot]
  BY ClaimsAre, MatchedIsClaimed
<1>2. args[k].kind = "string" =>
        /\ slot = 1 => PersonSpec(args).given = args[k].text
        /\ slot = 2 => PersonSpec(args).family = args[k].text
        /\ slot = 3 => PersonSpec(args).middle = args[k].text
        /\ slot = 4 => PersonSpec(args).email = args[k].text
  BY TextsAreKept
<1> HIDE DEF slot, formal
<1>3. slot = 1 \/ slot = 2 \/ slot = 3 \/ slot = 4 \/ slot = 5 \/ slot = 6
  BY <1>1
<1>4. CASE slot = 1
  <2>1. formal = "given"
    BY <1>1, <1>4 DEF Formals
  <2> QED
    BY <1>2, <1>4, <2>1 DEF TextAt, formal
<1>5. CASE slot = 2
  <2>1. formal = "family"
    BY <1>1, <1>5 DEF Formals
  <2> QED
    BY <1>2, <1>5, <2>1 DEF TextAt, formal
<1>6. CASE slot = 3
  <2>1. formal = "middle"
    BY <1>1, <1>6 DEF Formals
  <2> QED
    BY <1>2, <1>6, <2>1 DEF TextAt, formal
<1>7. CASE slot = 4
  <2>1. formal = "email"
    BY <1>1, <1>7 DEF Formals
  <2> QED
    BY <1>2, <1>7, <2>1 DEF TextAt, formal
<1>8. CASE slot = 5
  <2>1. formal = "role"
    BY <1>1, <1>8 DEF Formals
  <2> QED
    BY <2>1 DEF formal
<1>9. CASE slot = 6
  <2>1. formal = "comment"
    BY <1>1, <1>9 DEF Formals
  <2> QED
    BY <2>1 DEF formal
<1> QED
  BY <1>3, <1>4, <1>5, <1>6, <1>7, <1>8, <1>9

-----------------------------------------------------------------------------
(* Sections *)

SectionsOf(V) == [maintainers : Seq(V), authors : Seq(V), otherContributors : Seq(V)]

\* One person more: one more entry in each section of the roles.
OneMore(new, old, person) ==
  /\ Len(new.maintainers) = Len(old.maintainers) + (IF Has(person, "cre") THEN 1 ELSE 0)
  /\ Len(new.authors) = Len(old.authors) + (IF Has(person, "aut") THEN 1 ELSE 0)
  /\ Len(new.otherContributors) =
       Len(old.otherContributors) + (IF Has(person, "cre") \/ Has(person, "aut") THEN 0 ELSE 1)

LEMMA ListedIsOneMore ==
  ASSUME NEW V, NEW person, PackagePerson(person) \in V, NEW r \in SectionsOf(V)
  PROVE  Listed(r, person) \in SectionsOf(V) /\ OneMore(Listed(r, person), r, person)
<1> DEFINE value == PackagePerson(person)
           cre == Has(person, "cre")
           aut == Has(person, "aut")
<1>1. r.maintainers \in Seq(V) /\ r.authors \in Seq(V) /\ r.otherContributors \in Seq(V)
  BY DEF SectionsOf
<1>2. ASSUME NEW s \in Seq(V)
      PROVE  /\ Append(s, value) \in Seq(V) /\ Len(Append(s, value)) = Len(s) + 1
             /\ <<value>> \o s \in Seq(V) /\ Len(<<value>> \o s) = Len(s) + 1
             /\ Len(s) \in Nat
  <2>1. value \in V
    OBVIOUS
  <2> HIDE DEF value
  <2>2. Append(s, value) \in Seq(V) /\ Len(Append(s, value)) = Len(s) + 1 /\ Len(s) \in Nat
    BY <2>1, AppendProperties, LenProperties
  <2>3. <<value>> \in Seq(V) /\ Len(<<value>>) = 1
    BY <2>1
  <2>4. <<value>> \o s \in Seq(V) /\ Len(<<value>> \o s) = 1 + Len(s)
    BY <2>3, ConcatProperties
  <2> QED
    BY <2>2, <2>4
<1> HIDE DEF value
<1>3. Listed(r, person) =
        LET placed == [r EXCEPT ![SectionOf(person)] = Append(@, value)]
        IN IF cre /\ aut THEN [placed EXCEPT !.authors = <<value>> \o @] ELSE placed
  BY DEF Listed, value
<1>4. SectionOf(person) = IF cre THEN "maintainers" ELSE IF aut THEN "authors" ELSE "otherContributors"
  BY DEF SectionOf
<1> HIDE DEF cre, aut
<1>5. CASE cre /\ aut
  <2>1. Listed(r, person) = [maintainers |-> Append(r.maintainers, value),
                             authors |-> <<value>> \o r.authors,
                             otherContributors |-> r.otherContributors]
    BY <1>3, <1>4, <1>5 DEF SectionsOf
  <2>2. OneMore(Listed(r, person), r, person)
    BY <1>1, <1>2, <1>5, <2>1 DEF OneMore, cre, aut
  <2> QED
    BY <1>1, <1>2, <2>1, <2>2 DEF SectionsOf
<1>6. CASE cre /\ ~ aut
  <2>1. Listed(r, person) = [maintainers |-> Append(r.maintainers, value),
                             authors |-> r.authors,
                             otherContributors |-> r.otherContributors]
    BY <1>3, <1>4, <1>6 DEF SectionsOf
  <2>2. OneMore(Listed(r, person), r, person)
    BY <1>1, <1>2, <1>6, <2>1 DEF OneMore, cre, aut
  <2> QED
    BY <1>1, <1>2, <2>1, <2>2 DEF SectionsOf
<1>7. CASE ~ cre /\ aut
  <2>1. Listed(r, person) = [maintainers |-> r.maintainers,
                             authors |-> Append(r.authors, value),
                             otherContributors |-> r.otherContributors]
    BY <1>3, <1>4, <1>7 DEF SectionsOf
  <2>2. OneMore(Listed(r, person), r, person)
    BY <1>1, <1>2, <1>7, <2>1 DEF OneMore, cre, aut
  <2> QED
    BY <1>1, <1>2, <2>1, <2>2 DEF SectionsOf
<1>8. CASE ~ cre /\ ~ aut
  <2>1. Listed(r, person) = [maintainers |-> r.maintainers, authors |-> r.authors,
                             otherContributors |-> Append(r.otherContributors, value)]
    BY <1>3, <1>4, <1>8 DEF SectionsOf
  <2>2. OneMore(Listed(r, person), r, person)
    <3>1. /\ Len(Append(r.otherContributors, value)) = Len(r.otherContributors) + 1
          /\ Len(r.maintainers) \in Nat /\ Len(r.authors) \in Nat
      BY <1>1, <1>2
    <3>2. ~ Has(person, "cre") /\ ~ Has(person, "aut")
      BY <1>8 DEF cre, aut
    <3>3. /\ Listed(r, person).maintainers = r.maintainers
          /\ Listed(r, person).authors = r.authors
          /\ Listed(r, person).otherContributors = Append(r.otherContributors, value)
      BY <2>1
    <3>4. /\ Len(Listed(r, person).maintainers) = Len(r.maintainers) + 0
          /\ Len(Listed(r, person).authors) = Len(r.authors) + 0
          /\ Len(Listed(r, person).otherContributors) = Len(r.otherContributors) + 1
      BY <3>1, <3>3
    <3> QED
      BY <3>2, <3>4 DEF OneMore
  <2> QED
    BY <1>1, <1>2, <2>1, <2>2 DEF SectionsOf
<1> QED
  BY <1>5, <1>6, <1>7, <1>8

\* The sections, person by person.
ListedSteps(s, field, V) ==
  /\ PackageAuthors(field) = s[Len(field.entries)]
  /\ s[0] = Nobody
  /\ \A n \in 0 .. Len(field.entries) : s[n] \in SectionsOf(V)
  /\ \A n \in 1 .. Len(field.entries) : OneMore(s[n], s[n - 1], People(field)[n])

LEMMA ListedHasSteps ==
  ASSUME NEW field \in AuthorsField
  PROVE  \E s, V : ListedSteps(s, field, V)
<1> DEFINE N == Len(field.entries)
           V == {PackagePerson(People(field)[n]) : n \in 1 .. N}
           R == SectionsOf(V)
           start == Nobody
           F == [p \in R \X (1 .. N) |-> Listed(p[1], People(field)[p[2]])]
           Is(g) == g = [n \in 0 .. N |->
             IF n = 0 THEN start ELSE Listed(g[n - 1], People(field)[n])]
           a == CHOOSE h : Is(h)
<1>0. PackageAuthors(field) = a[N]
  BY DEF PackageAuthors
<1>1. N \in Nat
  BY LenProperties DEF AuthorsField
<1>2. \A r \in R : \A n \in 1 .. N :
        Listed(r, People(field)[n]) \in R /\ OneMore(Listed(r, People(field)[n]), r, People(field)[n])
  <2>1. TAKE r \in R
  <2>2. TAKE n \in 1 .. N
  <2>3. PackagePerson(People(field)[n]) \in V
    OBVIOUS
  <2> HIDE DEF V, N
  <2> QED
    BY <2>3, ListedIsOneMore
<1> HIDE DEF V
<1>3. start \in R
  <2>1. <<>> \in Seq(V)
    OBVIOUS
  <2> QED
    BY <2>1 DEF SectionsOf, Nobody
<1> HIDE DEF R, start
<1>4. F \in Steps(R, N)
  <2> HIDE DEF N
  <2> QED
    BY <1>2 DEF Steps
<1>5. PICK g : IsFold(g, R, N, start, F)
  <2> HIDE DEF F, N
  <2> QED
    BY <1>1, <1>3, <1>4, FoldExists
<1>6. g \in [0 .. N -> R] /\ g[0] = start /\ \A n \in 1 .. N : g[n] = F[<<g[n - 1], n>>]
  <2> HIDE DEF F, N
  <2> QED
    BY <1>5 DEF IsFold
<1> HIDE DEF N
<1>7. ASSUME NEW n \in 1 .. N
      PROVE  g[n] = Listed(g[n - 1], People(field)[n])
  <2>1. n - 1 \in 0 .. N
    BY <1>1
  <2>2. g[n - 1] \in R
    BY <1>6, <2>1
  <2> QED
    BY <1>6, <2>2
<1> HIDE DEF F
<1>8. Is(g)
  <2>1. \A n \in 0 .. N : g[n] = IF n = 0 THEN start ELSE Listed(g[n - 1], People(field)[n])
    BY <1>1, <1>6, <1>7
  <2>2. g = [n \in 0 .. N |-> g[n]]
    BY <1>6
  <2> QED
    BY <2>1, <2>2
<1>9. Is(a)
  BY <1>8
<1> HIDE DEF a
<1>10. a[0] = start /\ \A n \in 1 .. N : a[n] = Listed(a[n - 1], People(field)[n])
  BY <1>1, <1>9
<1>11. \A n \in 0 .. N : a[n] \in R
  <2> DEFINE K == {n \in 0 .. N : a[n] \in R}
  <2>1. 0 \in K
    BY <1>1, <1>3, <1>10
  <2>2. \A n \in 1 .. N : n - 1 \in K => n \in K
    BY <1>2, <1>10
  <2>3. \A n \in 0 .. N : n \in K
    <3> HIDE DEF K
    <3> QED
      BY <1>1, <2>1, <2>2, UpToBound
  <2> QED
    BY <2>3
<1>12. \A n \in 1 .. N : OneMore(a[n], a[n - 1], People(field)[n])
  <2>1. \A n \in 1 .. N : n - 1 \in 0 .. N
    BY <1>1
  <2> QED
    BY <1>2, <1>10, <1>11, <2>1
<1>13. ListedSteps(a, field, V)
  BY <1>0, <1>10, <1>11, <1>12 DEF ListedSteps, N, R, start
<1> QED
  BY <1>13

\* Each section has the persons of its role.
LEMMA SectionsAreCounted ==
  ASSUME NEW field \in AuthorsField
  PROVE  LET people == PackageAuthors(field)
             P(k) == People(field)[k]
             all == DOMAIN field.entries
         IN /\ Len(people.maintainers) = Cardinality({k \in all : Has(P(k), "cre")})
            /\ Len(people.authors) = Cardinality({k \in all : Has(P(k), "aut")})
            /\ Len(people.otherContributors) =
                 Cardinality({k \in all : ~ (Has(P(k), "cre") \/ Has(P(k), "aut"))})
<1> DEFINE N == Len(field.entries)
           Cre == {k \in 1 .. N : Has(People(field)[k], "cre")}
           Aut == {k \in 1 .. N : Has(People(field)[k], "aut")}
           Else == {k \in 1 .. N : ~ (Has(People(field)[k], "cre") \/ Has(People(field)[k], "aut"))}
<1>1. N \in Nat /\ DOMAIN field.entries = 1 .. N
  BY LenProperties DEF AuthorsField
<1>2. PICK s, V : ListedSteps(s, field, V)
  BY ListedHasSteps
<1> DEFINE Counted(n) == /\ Len(s[n].maintainers) = CountTo(Cre, n)
                         /\ Len(s[n].authors) = CountTo(Aut, n)
                         /\ Len(s[n].otherContributors) = CountTo(Else, n)
           K == {n \in 0 .. N : Counted(n)}
<1>3. 0 \in K
  <2>1. s[0] = Nobody
    BY <1>2 DEF ListedSteps
  <2>2. CountTo(Cre, 0) = 0 /\ CountTo(Aut, 0) = 0 /\ CountTo(Else, 0) = 0
    <3> HIDE DEF Cre, Aut, Else
    <3> QED
      BY CountIs
  <2>3. Counted(0)
    BY <2>1, <2>2 DEF Nobody
  <2> HIDE DEF Counted
  <2> QED
    BY <1>1, <2>3
<1>4. ASSUME NEW n \in 1 .. N, n - 1 \in K PROVE n \in K
  <2>1. OneMore(s[n], s[n - 1], People(field)[n])
    BY <1>2 DEF ListedSteps
  <2>2. n \in Nat /\ n # 0
    OBVIOUS
  <2>3. /\ n \in Cre <=> Has(People(field)[n], "cre")
        /\ n \in Aut <=> Has(People(field)[n], "aut")
        /\ n \in Else <=> ~ (Has(People(field)[n], "cre") \/ Has(People(field)[n], "aut"))
    OBVIOUS
  <2>4. Counted(n - 1)
    BY <1>4
  <2> HIDE DEF Cre, Aut, Else
  <2>5. /\ CountTo(Cre, n) = CountTo(Cre, n - 1) + (IF n \in Cre THEN 1 ELSE 0)
        /\ CountTo(Aut, n) = CountTo(Aut, n - 1) + (IF n \in Aut THEN 1 ELSE 0)
        /\ CountTo(Else, n) = CountTo(Else, n - 1) + (IF n \in Else THEN 1 ELSE 0)
    BY <2>2, CountIs
  <2>6. Counted(n)
    BY <2>1, <2>3, <2>4, <2>5 DEF OneMore
  <2> HIDE DEF Counted
  <2> QED
    BY <1>1, <2>6
<1>5. \A n \in 0 .. N : n \in K
  <2> HIDE DEF K, N
  <2> QED
    BY <1>1, <1>3, <1>4, UpToBound
<1>6. Counted(N)
  <2> HIDE DEF Counted, N
  <2> QED
    BY <1>1, <1>5
<1>7. Cre \cap (1 .. N) = Cre /\ Aut \cap (1 .. N) = Aut /\ Else \cap (1 .. N) = Else
  OBVIOUS
<1>8. /\ Len(s[N].maintainers) = Cardinality(Cre)
      /\ Len(s[N].authors) = Cardinality(Aut)
      /\ Len(s[N].otherContributors) = Cardinality(Else)
  <2> HIDE DEF Cre, Aut, Else
  <2> QED
    BY <1>6, <1>7 DEF CountTo
<1>9. PackageAuthors(field) = s[N]
  BY <1>2 DEF ListedSteps
<1> QED
  BY <1>1, <1>8, <1>9

-----------------------------------------------------------------------------
(* The authors of the package topic *)

\* The field is as it was found; what is kept of it was read from it.
AuthorsInv ==
  LET field == package.description.authors
  IN /\ field \in AuthorsField
     /\ \/ authors = None \/ authors = [state |-> "failed", people |-> Nobody]
        \/ ~ AuthorsFail(field) /\ authors = [state |-> "read", people |-> PackageAuthors(field)]

LEMMA AuthorsAtFirst == Init => AuthorsInv
<1> SUFFICES ASSUME Init PROVE AuthorsInv
  OBVIOUS
<1>1. PICK F \in Families : \E scene \in F :
        package = [description |-> scene.description, listing |-> scene.listing,
                   config |-> scene.config, still |-> scene.changes = 0]
  BY DEF Init
<1>2. PICK scene \in F :
        package = [description |-> scene.description, listing |-> scene.listing,
                   config |-> scene.config, still |-> scene.changes = 0]
  BY <1>1
<1>3. scene.description.authors \in AuthorsField
  BY <1>1, <1>2, ScenesAssumption
<1>4. package.description.authors \in AuthorsField
  BY <1>2, <1>3
<1>5. authors = None
  BY DEF Init
<1> QED
  BY <1>4, <1>5 DEF AuthorsInv

LEMMA AuthorsKept == AuthorsInv /\ [Next]_vars => AuthorsInv'
<1> SUFFICES ASSUME AuthorsInv, [Next]_vars PROVE AuthorsInv'
  OBVIOUS
<1>1. ASSUME TakeAuthors PROVE AuthorsInv'
  <2> DEFINE field == package.description.authors
  <2>1. package' = package /\ field' = field
    BY <1>1 DEF TakeAuthors
  <2>2. authors' = IF AuthorsFail(field) THEN [state |-> "failed", people |-> Nobody]
                   ELSE [state |-> "read", people |-> PackageAuthors(field)]
    BY <1>1 DEF TakeAuthors
  <2>3. field \in AuthorsField
    BY DEF AuthorsInv
  <2> QED
    BY <2>1, <2>2, <2>3 DEF AuthorsInv
<1>2. ASSUME UNCHANGED <<package, authors>> PROVE AuthorsInv'
  BY <1>2 DEF AuthorsInv
<1>3. LoadInputs \/ LoadConfig \/ Library \/ UNCHANGED vars => UNCHANGED <<package, authors>>
  BY DEF LoadInputs, LoadConfig, Library, inputVars, vars
<1> QED
  BY <1>1, <1>2, <1>3 DEF Next

LEMMA AuthorsHold == AuthorsInv => AuthorsMatchR
<1> SUFFICES ASSUME AuthorsInv, authors # None, authors.state = "read" PROVE AuthorsMatchR
  BY DEF AuthorsMatchR
<1> DEFINE field == package.description.authors
           calls == field.entries
           people == authors.people
           P(k) == PersonSpec(calls[k].args)
           roles == [k \in DOMAIN calls |-> ToSet(P(k).role)]
<1>1. field \in AuthorsField /\ ~ AuthorsFail(field) /\ people = PackageAuthors(field)
  BY DEF AuthorsInv
<1>2. ASSUME NEW k \in DOMAIN calls PROVE calls[k].args \in Seq(PersonArgument) /\ ~ PersonFails(calls[k].args)
  <2>1. calls \in Seq(Person)
    BY <1>1 DEF AuthorsField
  <2>2. calls[k] \in Person
    BY <2>1, ElementOfSeq, LenProperties
  <2>3. ~ EntryFails(calls[k])
    BY <1>1 DEF AuthorsFail
  <2> QED
    BY <2>2, <2>3 DEF Person, EntryFails
<1>3. ASSUME NEW k \in DOMAIN calls, NEW j \in DOMAIN calls[k].args
      PROVE  LET arg == calls[k].args[j]
                 formal == MatchedByR(calls[k].args, j)
             IN /\ formal # "unused"
                /\ arg.kind = "string" /\ formal \in {"given", "family", "middle", "email"}
                   => TextAt(P(k), formal) = arg.text
  BY <1>2, ReadAsMatched
<1>4. \A k \in DOMAIN calls : People(field)[k] = P(k)
  BY DEF People
<1>5. \A k \in DOMAIN calls :
        /\ Has(People(field)[k], "cre") <=> "cre" \in roles[k]
        /\ Has(People(field)[k], "aut") <=> "aut" \in roles[k]
  BY <1>4 DEF Has, ToSet
<1> DEFINE Cre == {k \in DOMAIN calls : Has(People(field)[k], "cre")}
           Aut == {k \in DOMAIN calls : Has(People(field)[k], "aut")}
           Else == {k \in DOMAIN calls : ~ (Has(People(field)[k], "cre") \/ Has(People(field)[k], "aut"))}
<1>6. /\ Len(people.maintainers) = Cardinality(Cre)
      /\ Len(people.authors) = Cardinality(Aut)
      /\ Len(people.otherContributors) = Cardinality(Else)
  BY <1>1, SectionsAreCounted
<1>7. /\ Cre = {k \in DOMAIN calls : "cre" \in roles[k]}
      /\ Aut = {k \in DOMAIN calls : "aut" \in roles[k]}
      /\ Else = {k \in DOMAIN calls : roles[k] \cap {"cre", "aut"} = {}}
  <2> HIDE DEF roles, calls, field
  <2>1. Cre = {k \in DOMAIN calls : "cre" \in roles[k]}
    BY <1>5
  <2>2. Aut = {k \in DOMAIN calls : "aut" \in roles[k]}
    BY <1>5
  <2>3. \A k \in DOMAIN calls :
          roles[k] \cap {"cre", "aut"} = {} <=> ~ ("cre" \in roles[k] \/ "aut" \in roles[k])
    OBVIOUS
  <2>4. Else = {k \in DOMAIN calls : roles[k] \cap {"cre", "aut"} = {}}
    BY <1>5, <2>3
  <2> QED
    BY <2>1, <2>2, <2>4
<1> HIDE DEF Cre, Aut, Else
<1>8. /\ Len(people.maintainers) = Cardinality({k \in DOMAIN calls : "cre" \in roles[k]})
      /\ Len(people.authors) = Cardinality({k \in DOMAIN calls : "aut" \in roles[k]})
      /\ Len(people.otherContributors) =
           Cardinality({k \in DOMAIN calls : roles[k] \cap {"cre", "aut"} = {}})
  BY <1>6, <1>7
<1> QED
  BY <1>3, <1>8 DEF AuthorsMatchR, TextAt

\* Whatever calls of person() the field has: each argument of a call that is
\* read fills the formal that R would give it, and each person stands in the
\* sections of the topic that the roles name, a maintainer who is an author
\* in both (authors.rs parse_person_call, package_authors).
THEOREM AuthorsMatched == Spec => []AuthorsMatchR
<1>1. Spec => []AuthorsInv
  BY AuthorsAtFirst, AuthorsKept, PTL DEF Spec
<1> QED
  BY <1>1, AuthorsHold, PTL

-----------------------------------------------------------------------------
(* The files *)

\* Of two numbers that are counted, the greater one has more before it.
LEMMA RanksGrow ==
  ASSUME NEW T \in SUBSET (Nat \ {0}), NEW f \in T, NEW g \in T, f < g
  PROVE  CountTo(T, f - 1) \in Nat /\ CountTo(T, g - 1) \in Nat /\ CountTo(T, f - 1) < CountTo(T, g - 1)
<1>1. f \in Nat /\ f # 0 /\ f - 1 \in Nat /\ g - 1 \in Nat /\ f \in 0 .. g - 1
  OBVIOUS
<1>2. CountTo(T, f) = CountTo(T, f - 1) + 1
  BY <1>1, CountIs
<1>3. CountTo(T, f - 1) \in Nat /\ CountTo(T, g - 1) \in Nat
  BY <1>1, CountIs
<1>4. CountTo(T, f) <= CountTo(T, g - 1)
  BY <1>1, CountGrows
<1> QED
  BY <1>2, <1>3, <1>4

\* The files of a listing have a greatest number.
LEMMA ListingIsBounded ==
  ASSUME NEW listing, IsListing(listing)
  PROVE  \E M \in Nat : \A k \in DOMAIN listing : listing[k].file \in 1 .. M
<1> DEFINE N == Len(listing)
           Bounds(M, n) == \A k \in 1 .. n : listing[k].file \in 1 .. M
           K == {n \in 0 .. N : \E M \in Nat : Bounds(M, n)}
<1>1. N \in Nat /\ DOMAIN listing = 1 .. N /\ \A k \in 1 .. N : listing[k] \in ListedFile
  BY LenProperties, ElementOfSeq DEF IsListing
<1>2. \A k \in 1 .. N : listing[k].file \in Nat /\ listing[k].file # 0
  BY <1>1 DEF ListedFile
<1> HIDE DEF N
<1>3. 0 \in K
  <2>1. Bounds(0, 0)
    OBVIOUS
  <2> HIDE DEF Bounds
  <2> QED
    BY <1>1, <2>1
<1>4. ASSUME NEW n \in 1 .. N, n - 1 \in K PROVE n \in K
  <2>1. PICK M \in Nat : Bounds(M, n - 1)
    BY <1>4
  <2>2. PICK F \in Nat : F = listing[n].file /\ F # 0
    BY <1>2
  <2>3. PICK L \in Nat : M <= L /\ F <= L
    <3>1. M <= M + F /\ F <= M + F /\ M + F \in Nat
      OBVIOUS
    <3> QED
      BY <3>1
  <2>4. ASSUME NEW k \in 1 .. n PROVE listing[k].file \in 1 .. L
    <3>1. CASE k = n
      BY <2>2, <2>3, <3>1
    <3>2. CASE k # n
      <4>1. k \in 1 .. n - 1
        BY <1>1, <3>2
      <4>2. listing[k].file \in 1 .. M
        BY <2>1, <4>1
      <4> QED
        BY <2>3, <4>2
    <3> QED
      BY <3>1, <3>2
  <2>5. Bounds(L, n)
    BY <2>4
  <2> HIDE DEF Bounds
  <2> QED
    BY <1>1, <2>3, <2>5
<1>5. \A n \in 0 .. N : n \in K
  <2> HIDE DEF K
  <2> QED
    BY <1>1, <1>3, <1>4, UpToBound
<1>6. \E M \in Nat : Bounds(M, N)
  <2> HIDE DEF Bounds
  <2> QED
    BY <1>1, <1>5
<1> QED
  BY <1>1, <1>6

\* The files that are taken, each once and in the order of their names.
LEMMA EnumeratedIs ==
  ASSUME NEW listing, IsListing(listing)
  PROVE  LET E == Enumerated(listing)
         IN /\ Len(E) \in Nat /\ DOMAIN E = 1 .. Len(E)
            /\ \A n \in 1 .. Len(E) : E[n].file \in Nat
            /\ {E[n].file : n \in 1 .. Len(E)} = {listing[k].file : k \in Chosen(listing)}
            /\ \A j, n \in 1 .. Len(E) : j < n => E[j].file < E[n].file
<1> DEFINE C == Chosen(listing)
           T == {listing[k].file : k \in C}
           rank(k) == Cardinality({f \in T : f < listing[k].file})
           N == Cardinality(T)
           E == Enumerated(listing)
           at(n) == CHOOSE k \in C : rank(k) = n - 1
<1>1. PICK M \in Nat : \A k \in DOMAIN listing : listing[k].file \in 1 .. M
  BY ListingIsBounded
<1>2. \A k \in C : listing[k].file \in T /\ listing[k].file \in 1 .. M
  BY <1>1 DEF Chosen
<1>3. T \subseteq 1 .. M /\ T \in SUBSET (Nat \ {0})
  BY <1>2
<1>4. E = [n \in 1 .. N |-> listing[at(n)]]
  BY DEF Enumerated
<1>5. \A t \in T : \E k \in C : listing[k].file = t
  OBVIOUS
<1> HIDE DEF C, E
<1>6. \A k \in C : rank(k) = CountTo(T, listing[k].file - 1)
  <2> SUFFICES ASSUME NEW k \in C PROVE {f \in T : f < listing[k].file} = T \cap (1 .. listing[k].file - 1)
    BY DEF CountTo
  <2>1. PICK x \in Nat : x = listing[k].file
    BY <1>2
  <2>2. \A f \in T : f \in Nat /\ f # 0
    BY <1>3
  <2> HIDE DEF T
  <2>3. \A f \in T : f < x <=> f \in 1 .. x - 1
    BY <2>2
  <2>4. {f \in T : f < x} = T \cap (1 .. x - 1)
    BY <2>3
  <2> QED
    BY <2>1, <2>4
<1> HIDE DEF T, rank
<1>7. CountTo(T, M) = N /\ N \in Nat
  <2>1. T \cap (1 .. M) = T
    BY <1>3
  <2> QED
    BY <1>1, <2>1, CountIs DEF CountTo
<1> HIDE DEF N
<1>8. ASSUME NEW n \in 1 .. N PROVE at(n) \in C /\ rank(at(n)) = n - 1
  <2>1. n - 1 \in Nat /\ n - 1 < CountTo(T, M)
    BY <1>7
  <2>2. PICK t \in T \cap (1 .. M) : CountTo(T, t - 1) = n - 1
    BY <1>1, <2>1, RankIsTaken
  <2>3. PICK k \in C : listing[k].file = t
    BY <1>5, <2>2
  <2>4. rank(k) = n - 1
    BY <1>6, <2>2, <2>3
  <2> QED
    BY <2>4
<1>9. ASSUME NEW n \in 1 .. N PROVE E[n].file \in T /\ CountTo(T, E[n].file - 1) = n - 1
  <2>1. E[n] = listing[at(n)]
    BY <1>4
  <2> HIDE DEF at
  <2> QED
    BY <1>2, <1>6, <1>8, <2>1
<1> HIDE DEF at
<1>10. Len(E) = N /\ DOMAIN E = 1 .. N
  BY <1>4, <1>7
<1>11. ASSUME NEW t \in T PROVE \E n \in 1 .. N : E[n].file = t
  <2>1. t \in Nat /\ t # 0 /\ t - 1 \in Nat /\ t \in 0 .. M
    BY <1>3
  <2>2. CountTo(T, t) = CountTo(T, t - 1) + 1
    BY <2>1, CountIs
  <2>3. CountTo(T, t) <= CountTo(T, M) /\ CountTo(T, t - 1) \in Nat
    BY <1>1, <2>1, CountGrows, CountIs
  <2>4. PICK n \in 1 .. N : n - 1 = CountTo(T, t - 1)
    <3>1. PICK r \in Nat : r = CountTo(T, t - 1)
      BY <2>3
    <3>2. r + 1 <= N
      BY <1>7, <2>2, <2>3, <3>1
    <3>3. r + 1 \in 1 .. N /\ r + 1 - 1 = r
      BY <1>7, <3>2
    <3> QED
      BY <3>1, <3>3
  <2>5. E[n].file \in T /\ CountTo(T, E[n].file - 1) = CountTo(T, t - 1)
    BY <1>9, <2>4
  <2>6. E[n].file \in Nat
    BY <1>3, <2>5
  <2>7. ~ (E[n].file < t) /\ ~ (t < E[n].file)
    <3>1. ASSUME E[n].file < t PROVE FALSE
      <4>1. CountTo(T, E[n].file - 1) < CountTo(T, t - 1)
        BY <1>3, <2>5, <3>1, RanksGrow
      <4> QED
        BY <2>3, <2>5, <4>1
    <3>2. ASSUME t < E[n].file PROVE FALSE
      <4>1. CountTo(T, t - 1) < CountTo(T, E[n].file - 1)
        BY <1>3, <2>5, <3>2, RanksGrow
      <4> QED
        BY <2>3, <2>5, <4>1
    <3> QED
      BY <3>1, <3>2
  <2>8. E[n].file = t
    BY <2>1, <2>6, <2>7
  <2> QED
    BY <2>8
<1>12. \A n \in 1 .. N : E[n].file \in Nat
  BY <1>3, <1>9
<1>13. ASSUME NEW j \in 1 .. N, NEW n \in 1 .. N, j < n PROVE E[j].file < E[n].file
  <2>1. E[j].file \in T /\ E[n].file \in T /\ E[j].file \in Nat /\ E[n].file \in Nat
    BY <1>9, <1>12
  <2>2. CountTo(T, E[j].file - 1) = j - 1 /\ CountTo(T, E[n].file - 1) = n - 1
    BY <1>9
  <2>3. ~ (E[n].file < E[j].file)
    <3> SUFFICES ASSUME E[n].file < E[j].file PROVE FALSE
      OBVIOUS
    <3>1. CountTo(T, E[n].file - 1) < CountTo(T, E[j].file - 1)
      BY <1>3, <2>1, RanksGrow
    <3>2. n - 1 < j - 1
      BY <2>2, <3>1
    <3> QED
      BY <1>7, <1>13, <3>2
  <2>4. E[n].file # E[j].file
    <3> SUFFICES ASSUME E[n].file = E[j].file PROVE FALSE
      OBVIOUS
    <3>1. j - 1 = n - 1
      BY <2>2
    <3> QED
      BY <1>7, <1>13, <3>1
  <2> QED
    BY <2>1, <2>3, <2>4
<1>14. {E[n].file : n \in 1 .. N} = T
  BY <1>9, <1>11
<1>15. /\ Len(E) \in Nat /\ DOMAIN E = 1 .. Len(E)
       /\ \A n \in 1 .. Len(E) : E[n].file \in Nat
       /\ {E[n].file : n \in 1 .. Len(E)} = T
       /\ \A j, n \in 1 .. Len(E) : j < n => E[j].file < E[n].file
  BY <1>7, <1>10, <1>12, <1>13, <1>14
<1> QED
  BY <1>15 DEF E, T, C

\* The sources of the package are those files, numbered in that order, and
\* whatever else is known by then comes after them.
SourcesAre(map, listing) ==
  LET E == Enumerated(listing)
  IN /\ map.files \in Seq(Nat) /\ Len(map.files) >= Len(E)
     /\ map.r \in Seq(Nat) /\ Len(map.r) = Len(E)
     /\ \A n \in 1 .. Len(E) : map.r[n] = n /\ map.files[n] = E[n].file

FileMaps == [files : Seq(Nat), r : Seq(Nat)]

LEMMA RegisteredIs ==
  ASSUME NEW map \in FileMaps, NEW file \in Nat
  PROVE  /\ AddRegistered(map, file) = [files |-> Append(map.files, file), r |-> map.r]
         /\ AddFile(map, file) =
              [files |-> Append(map.files, file), r |-> Append(map.r, Len(map.files) + 1)]
<1>1. \A x, y : /\ [map EXCEPT !.files = x] = [files |-> x, r |-> map.r]
                /\ [[files |-> x, r |-> map.r] EXCEPT !.r = y] = [files |-> x, r |-> y]
  BY DEF FileMaps
<1>2. AddRegistered(map, file) = [map EXCEPT !.files = Append(map.files, file)]
  BY Zenon DEF AddRegistered
<1>3. AddRegistered(map, file) = [files |-> Append(map.files, file), r |-> map.r]
  BY <1>1, <1>2, Zenon
<1>4. AddFile(map, file) = [AddRegistered(map, file) EXCEPT !.r =
        Append(AddRegistered(map, file).r, Len(map.files) + 1)]
  BY Zenon DEF AddFile
<1>5. AddRegistered(map, file).r = map.r
  BY <1>3
<1>6. AddFile(map, file) = [[files |-> Append(map.files, file), r |-> map.r] EXCEPT !.r =
        Append(map.r, Len(map.files) + 1)]
  BY <1>3, <1>4, <1>5, Zenon
<1>7. AddFile(map, file) = [files |-> Append(map.files, file), r |-> Append(map.r, Len(map.files) + 1)]
  BY <1>1, <1>6, Zenon
<1> QED
  BY <1>3, <1>7

LEMMA AddFileIs ==
  ASSUME NEW map \in FileMaps, NEW file \in Nat
  PROVE  LET new == AddFile(map, file)
         IN /\ new \in FileMaps
            /\ Len(map.files) \in Nat /\ Len(new.files) = Len(map.files) + 1
            /\ Len(map.r) \in Nat /\ Len(new.r) = Len(map.r) + 1
            /\ new.files[Len(map.files) + 1] = file /\ new.r[Len(map.r) + 1] = Len(map.files) + 1
            /\ \A n \in 1 .. Len(map.files) : new.files[n] = map.files[n]
            /\ \A n \in 1 .. Len(map.r) : new.r[n] = map.r[n]
<1> DEFINE new == AddFile(map, file)
<1>1. map.files \in Seq(Nat) /\ map.r \in Seq(Nat)
  BY DEF FileMaps
<1>2. Len(map.files) \in Nat /\ Len(map.files) + 1 \in Nat /\ Len(map.r) \in Nat
  BY <1>1, LenProperties
<1>3. new = [files |-> Append(map.files, file), r |-> Append(map.r, Len(map.files) + 1)]
  BY RegisteredIs
<1>4. ASSUME NEW s \in Seq(Nat), NEW x \in Nat
      PROVE  /\ Append(s, x) \in Seq(Nat) /\ Len(Append(s, x)) = Len(s) + 1
             /\ Append(s, x)[Len(s) + 1] = x /\ \A n \in 1 .. Len(s) : Append(s, x)[n] = s[n]
  BY AppendProperties
<1> HIDE DEF new
<1>5. new.files = Append(map.files, file) /\ new.r = Append(map.r, Len(map.files) + 1)
  BY <1>3
<1>6. new \in FileMaps
  BY <1>1, <1>2, <1>3, <1>4 DEF FileMaps
<1>7. /\ Len(new.files) = Len(map.files) + 1 /\ new.files[Len(map.files) + 1] = file
      /\ \A n \in 1 .. Len(map.files) : new.files[n] = map.files[n]
  BY <1>1, <1>4, <1>5
<1>8. /\ Len(new.r) = Len(map.r) + 1 /\ new.r[Len(map.r) + 1] = Len(map.files) + 1
      /\ \A n \in 1 .. Len(map.r) : new.r[n] = map.r[n]
  BY <1>1, <1>2, <1>4, <1>5
<1> QED
  BY <1>2, <1>6, <1>7, <1>8 DEF new

LEMMA SourcesFollow ==
  ASSUME NEW listing, IsListing(listing)
  PROVE  SourcesAre(Sources(listing), listing) /\ Sources(listing) \in FileMaps
<1> DEFINE E == Enumerated(listing)
           N == Len(E)
           start == NoSources
           F == [p \in FileMaps \X (1 .. N) |-> AddFile(p[1], E[p[2]].file)]
           Is(g) == g = [n \in 0 .. N |-> IF n = 0 THEN start ELSE AddFile(g[n - 1], E[n].file)]
           a == CHOOSE h : Is(h)
<1>0. Sources(listing) = a[N]
  BY DEF Sources
<1>1. N \in Nat /\ \A n \in 1 .. N : E[n].file \in Nat
  BY EnumeratedIs
<1> HIDE DEF E, N
<1>2. start \in FileMaps
  <2>1. <<>> \in Seq(Nat)
    OBVIOUS
  <2> QED
    BY <2>1 DEF FileMaps, NoSources
<1> HIDE DEF start
<1>3. \A map \in FileMaps : \A n \in 1 .. N : AddFile(map, E[n].file) \in FileMaps
  BY <1>1, AddFileIs
<1>4. F \in Steps(FileMaps, N)
  BY <1>3 DEF Steps
<1>5. PICK g : IsFold(g, FileMaps, N, start, F)
  <2> HIDE DEF F
  <2> QED
    BY <1>1, <1>2, <1>4, FoldExists
<1>6. g \in [0 .. N -> FileMaps] /\ g[0] = start /\ \A n \in 1 .. N : g[n] = F[<<g[n - 1], n>>]
  <2> HIDE DEF F
  <2> QED
    BY <1>5 DEF IsFold
<1>7. ASSUME NEW n \in 1 .. N PROVE g[n] = AddFile(g[n - 1], E[n].file)
  <2>1. n - 1 \in 0 .. N
    BY <1>1
  <2>2. g[n - 1] \in FileMaps
    BY <1>6, <2>1
  <2> QED
    BY <1>6, <2>2
<1> HIDE DEF F
<1>8. Is(g)
  <2>1. \A n \in 0 .. N : g[n] = IF n = 0 THEN start ELSE AddFile(g[n - 1], E[n].file)
    BY <1>1, <1>6, <1>7
  <2>2. g = [n \in 0 .. N |-> g[n]]
    BY <1>6
  <2> QED
    BY <2>1, <2>2
<1>9. Is(a)
  BY <1>8
<1> HIDE DEF a
<1>10. a[0] = start /\ \A n \in 1 .. N : a[n] = AddFile(a[n - 1], E[n].file)
  BY <1>1, <1>9
<1> DEFINE Good(n) == /\ a[n] \in FileMaps /\ Len(a[n].files) = n /\ Len(a[n].r) = n
                      /\ \A m \in 1 .. n : a[n].r[m] = m /\ a[n].files[m] = E[m].file
           K == {n \in 0 .. N : Good(n)}
<1>11. Good(0)
  <2>1. start.files = <<>> /\ start.r = <<>> /\ Len(<<>>) = 0 /\ 1 .. 0 = {}
    BY DEF start, NoSources
  <2> QED
    BY <1>2, <1>10, <2>1
<1>12. ASSUME NEW n \in 1 .. N, Good(n - 1) PROVE Good(n)
  <2>1. a[n - 1] \in FileMaps /\ E[n].file \in Nat /\ a[n] = AddFile(a[n - 1], E[n].file)
    BY <1>1, <1>10, <1>12
  <2>2. n - 1 + 1 = n /\ Len(a[n - 1].files) = n - 1 /\ Len(a[n - 1].r) = n - 1
    BY <1>1, <1>12
  <2>3. /\ a[n] \in FileMaps /\ Len(a[n].files) = n /\ Len(a[n].r) = n
        /\ a[n].files[n] = E[n].file /\ a[n].r[n] = n
        /\ \A m \in 1 .. n - 1 : a[n].files[m] = a[n - 1].files[m] /\ a[n].r[m] = a[n - 1].r[m]
    <3> DEFINE old == a[n - 1]
               new == AddFile(old, E[n].file)
    <3>1. /\ new \in FileMaps
          /\ Len(new.files) = Len(old.files) + 1 /\ Len(new.r) = Len(old.r) + 1
          /\ new.files[Len(old.files) + 1] = E[n].file /\ new.r[Len(old.r) + 1] = Len(old.files) + 1
          /\ \A m \in 1 .. Len(old.files) : new.files[m] = old.files[m]
          /\ \A m \in 1 .. Len(old.r) : new.r[m] = old.r[m]
      BY <2>1, AddFileIs
    <3> HIDE DEF new
    <3> QED
      BY <2>1, <2>2, <3>1 DEF new
  <2>4. ASSUME NEW m \in 1 .. n PROVE a[n].r[m] = m /\ a[n].files[m] = E[m].file
    <3>1. m = n \/ m \in 1 .. n - 1
      BY <1>1
    <3> QED
      BY <1>12, <2>3, <3>1
  <2> QED
    BY <2>3, <2>4
<1> HIDE DEF Good
<1>13. \A n \in 0 .. N : n \in K
  <2>1. 0 \in K
    BY <1>1, <1>11
  <2>2. \A n \in 1 .. N : n - 1 \in K => n \in K
    BY <1>12
  <2> HIDE DEF K
  <2> QED
    BY <1>1, <2>1, <2>2, UpToBound
<1>14. Good(N)
  BY <1>1, <1>13
<1>15. a[N] \in FileMaps /\ SourcesAre(a[N], listing)
  BY <1>1, <1>14 DEF Good, SourcesAre, FileMaps, E, N
<1> QED
  BY <1>0, <1>15

LEMMA SourcesStay ==
  ASSUME NEW map \in FileMaps, NEW listing, IsListing(listing), SourcesAre(map, listing)
  PROVE  /\ AddAuxiliary(map, ConfigFile) \in FileMaps
         /\ SourcesAre(AddAuxiliary(map, ConfigFile), listing)
<1> DEFINE new == AddAuxiliary(map, ConfigFile)
<1>1. map.files \in Seq(Nat) /\ map.r \in Seq(Nat) /\ ConfigFile \in Nat
  BY DEF FileMaps, ConfigFile
<1>2. new = [files |-> Append(map.files, ConfigFile), r |-> map.r]
  BY <1>1, RegisteredIs DEF AddAuxiliary
<1>3. /\ Append(map.files, ConfigFile) \in Seq(Nat) /\ Len(map.files) \in Nat
      /\ Len(Append(map.files, ConfigFile)) = Len(map.files) + 1
      /\ \A n \in 1 .. Len(map.files) : Append(map.files, ConfigFile)[n] = map.files[n]
  BY <1>1, AppendProperties, LenProperties
<1> HIDE DEF new
<1>4. new \in FileMaps
  BY <1>1, <1>2, <1>3 DEF FileMaps
<1> DEFINE N == Len(Enumerated(listing))
<1>5. N \in Nat
  BY EnumeratedIs
<1>6. /\ Len(map.files) >= N /\ Len(map.r) = N
      /\ \A n \in 1 .. N : map.r[n] = n /\ map.files[n] = Enumerated(listing)[n].file
  BY DEF SourcesAre
<1>7. /\ new.files \in Seq(Nat) /\ new.r \in Seq(Nat)
      /\ Len(new.files) = Len(map.files) + 1 /\ new.r = map.r
      /\ \A n \in 1 .. Len(map.files) : new.files[n] = map.files[n]
  BY <1>1, <1>2, <1>3
<1> HIDE DEF N
<1>8. ASSUME NEW n \in 1 .. N
      PROVE  new.r[n] = n /\ new.files[n] = Enumerated(listing)[n].file
  <2>1. n \in 1 .. Len(map.files)
    BY <1>3, <1>5, <1>6
  <2> QED
    BY <1>6, <1>7, <2>1
<1>9. Len(new.files) >= N /\ Len(new.r) = N
  BY <1>3, <1>5, <1>6, <1>7
<1> QED
  BY <1>4, <1>7, <1>8, <1>9 DEF SourcesAre, N, new

-----------------------------------------------------------------------------
(* What a run has taken in *)

\* An accepted configuration has no key but those that are known.
LEMMA KeysAreKnown ==
  ASSUME NEW c, ~ ConfigFails(c)
  PROVE  ConfigKeys(c) \subseteq
           {<<"top", "inline-r">>, <<"top", "s3">>, <<"inline-r", "substitutions">>,
            <<"s3", "registrars">>, <<"registrar", "function">>, <<"registrar", "arguments">>}
<1>1. c.keys \subseteq {"inline-r", "s3"}
  BY DEF ConfigFails
<1>2. "inline-r" \in c.keys => c.inline.keys = {"substitutions"}
  BY DEF ConfigFails, InlineFails
<1>3. "s3" \in c.keys => /\ c.s3.keys = {"registrars"}
                         /\ \A k \in DOMAIN c.s3.entries : c.s3.entries[k].keys = {"function", "arguments"}
  BY DEF ConfigFails, S3Fails, RegistrarFails
<1> QED
  BY <1>1, <1>2, <1>3 DEF ConfigKeys

InputsInv ==
  /\ IsListing(package.listing)
  /\ Taking => sources \in FileMaps /\ SourcesAre(sources, package.listing)
  /\ config = "loaded" => ~ ConfigFails(package.config)

LEMMA InputsAtFirst == Init => InputsInv
<1> SUFFICES ASSUME Init PROVE InputsInv
  OBVIOUS
<1>1. PICK F \in Families : \E scene \in F :
        package = [description |-> scene.description, listing |-> scene.listing,
                   config |-> scene.config, still |-> scene.changes = 0]
  BY DEF Init
<1>2. PICK scene \in F :
        package = [description |-> scene.description, listing |-> scene.listing,
                   config |-> scene.config, still |-> scene.changes = 0]
  BY <1>1
<1>3. package.listing = scene.listing /\ IsListing(scene.listing)
  BY <1>1, <1>2, ScenesAssumption
<1>4. ~ Taking /\ config # "loaded"
  BY DEF Init, Taking
<1> QED
  BY <1>3, <1>4 DEF InputsInv

\* No step of the libraries belongs to a run that has not read its inputs or
\* has failed.
LEMMA LibraryIsTaking == Library => Taking
  BY DEF Library, LibraryNext, Taking, SelectCatalog, ScanLibrary, EndScan, ReadNamespace, Compose,
         Ask, FindPackage, OpenDatabase, ResolveAlias, ReadTopic, QualifyLink, KeepTopic, Change

LEMMA InputsKept == InputsInv /\ [Next]_vars => InputsInv'
<1> SUFFICES ASSUME InputsInv, [Next]_vars PROVE InputsInv'
  OBVIOUS
<1>1. ASSUME LoadInputs PROVE InputsInv'
  <2>1. package' = package /\ config' = config
    BY <1>1 DEF LoadInputs
  <2>2. CASE pc' = "failed"
    BY <2>1, <2>2 DEF InputsInv, Taking
  <2>3. CASE pc' # "failed"
    <3>1. sources' = Sources(package.listing)
      BY <1>1, <2>3 DEF LoadInputs, Stop
    <3> QED
      BY <2>1, <3>1, SourcesFollow DEF InputsInv
  <2> QED
    BY <2>2, <2>3
<1>2. ASSUME LoadConfig PROVE InputsInv'
  <2>1. package' = package /\ Taking
    BY <1>2 DEF LoadConfig, Taking
  <2>2. CASE pc' = "failed" /\ config' = config
    BY <2>1, <2>2 DEF InputsInv, Taking
  <2>3. CASE config' = "builtins" /\ sources' = sources
    BY <2>1, <2>3 DEF InputsInv
  <2>4. CASE /\ ~ ConfigFails(package.config)
             /\ sources' = AddAuxiliary(sources, ConfigFile)
    BY <2>1, <2>4, SourcesStay DEF InputsInv
  <2> QED
    BY <1>2, <2>2, <2>3, <2>4 DEF LoadConfig, Stop
<1>3. ASSUME TakeAuthors PROVE InputsInv'
  BY <1>3 DEF TakeAuthors, InputsInv, Taking
<1>4. ASSUME Library PROVE InputsInv'
  <2>1. Taking /\ UNCHANGED <<package, sources, config>>
    BY <1>4, LibraryIsTaking DEF Library, inputVars
  <2> QED
    BY <2>1 DEF InputsInv
<1>5. ASSUME UNCHANGED vars PROVE InputsInv'
  <2>1. UNCHANGED <<package, sources, config, pc>>
    BY <1>5 DEF vars, libraryVars
  <2> QED
    BY <2>1 DEF InputsInv, Taking
<1> QED
  BY <1>1, <1>2, <1>3, <1>4, <1>5 DEF Next

LEMMA InputsHold == InputsInv => InputsAreHeard
<1> SUFFICES ASSUME InputsInv, Taking PROVE InputsAreHeard
  BY DEF InputsAreHeard
<1> DEFINE E == Enumerated(package.listing)
           N == Len(E)
           r == [k \in DOMAIN sources.r |-> sources.files[sources.r[k]]]
           taken == {package.listing[k].file : k \in Chosen(package.listing)}
<1>1. IsListing(package.listing) /\ SourcesAre(sources, package.listing)
  BY DEF InputsInv
<1>2. /\ N \in Nat /\ \A n \in 1 .. N : E[n].file \in Nat
      /\ {E[n].file : n \in 1 .. N} = taken
      /\ \A j, n \in 1 .. N : j < n => E[j].file < E[n].file
  BY <1>1, EnumeratedIs
<1>3. DOMAIN sources.r = 1 .. N /\ \A n \in 1 .. N : sources.r[n] = n /\ sources.files[n] = E[n].file
  BY <1>1, LenProperties DEF SourcesAre
<1> HIDE DEF E, N, taken
<1>4. DOMAIN r = 1 .. N /\ \A n \in 1 .. N : r[n] = E[n].file
  BY <1>3
<1> HIDE DEF r
<1>5. ToSet(r) = taken
  BY <1>2, <1>4 DEF ToSet
<1>6. \A j, k \in DOMAIN r : j < k => r[j] < r[k]
  BY <1>2, <1>4
<1>7. config = "loaded" => ~ ConfigFails(package.config)
  BY DEF InputsInv
<1> QED
  BY <1>5, <1>6, <1>7, KeysAreKnown DEF InputsAreHeard, r, taken, Chosen

\* Whatever directory listings and configurations there are: the sources are
\* the R files of the directory, in the order of their names and not of the
\* listing; the configuration is none of them; and a configuration that is
\* accepted has no key that is passed over (source.rs enumerate_r_files,
\* config.rs parse_config).
THEOREM InputsHeard == Spec => []InputsAreHeard
<1>1. Spec => []InputsInv
  BY InputsAtFirst, InputsKept, PTL DEF Spec
<1> QED
  BY <1>1, InputsHold, PTL

=====================================================================
