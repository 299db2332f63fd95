-------------------------- MODULE InstalledLibrary --------------------------
(***************************************************************************)
(* The installed packages of the library paths (installed.rs,              *)
(* documentation.rs, inherit/external.rs): what is visible for S3, the     *)
(* topics served to the resolver, and the two caches.  The libraries       *)
(* belong to R: any package may be installed, upgraded or removed between  *)
(* two steps of the run (Change).                                          *)
(*                                                                         *)
(* A name is a sequence of characters, as in PackageMetadata.              *)
(* A tree is what a library has under the name of a package: whether a     *)
(* directory is there, whether Meta/package.rds is, whether that can be    *)
(* decoded, the priority and the R it names, the state of the S3 metadata  *)
(* and its generics, and the version of the help database, 0 for one that  *)
(* cannot be opened.  It may be a symbolic link into a store instead, a    *)
(* directory outside the library paths: the tree then has its link and     *)
(* nothing of its own.                                                     *)
(***************************************************************************)
EXTENDS Naturals, Sequences, FiniteSets

CONSTANTS
  Libraries, Stores,
  Packages, Base,       \* names, Base the one of base
  Trees,                \* what a package manager can put into a directory
  Versions,             \* versions of help databases
  Aliases,              \* of each version: alias -> topic
  Documents,            \* of each version: topic -> whether it lowers, and the links of its parts
  NoIndex,              \* versions whose alias index cannot be read
  BaseGenerics,         \* the base catalog
  Unsafe                \* names that are no path component

VARIABLES
  paths,       \* the library paths, in order
  closed,      \* libraries that cannot be listed
  disk,        \* the directories and the links
  pc,
  catalog,     \* the R minor selected, and why
  scanned,     \* libraries listed so far
  seen,        \* names taken
  visible,     \* the library of each visible package; NoLibrary: not visible
  unread,      \* visible packages whose S3 metadata is still to be read
  generics, warnings,
  databases,   \* versions opened, by the directory itself
  topics,      \* the cache of projected topics
  request, here, work, answer,
  asks, changes  \* how many requests and changes are still to come

libraryVars == <<paths, closed, disk, pc, catalog, scanned, seen, visible, unread, generics,
                 warnings, databases, topics, request, here, work, answer, asks, changes>>
scanVars == <<catalog, scanned, seen, visible, unread, generics, warnings>>
askVars == <<databases, topics, request, here, work, answer, asks>>

NoLibrary == "none"
None == <<>>

\* 0 stands for no database.
ASSUME LibrariesAssumption == NoLibrary \notin Libraries \cup Stores
ASSUME VersionsAssumption == 0 \notin Versions
ASSUME TreesAssumption ==
  \A tree \in Trees : tree.help \in Versions \cup {0} /\ tree.link \in Stores \cup {NoLibrary}

Places == (Libraries \cup Stores) \X Packages

-----------------------------------------------------------------------------
(* Searching the paths *)

First(S) == CHOOSE k \in S : \A j \in S : k <= j
\* The first of some libraries on the paths.
FirstOnPaths(libraries) ==
  LET K == {k \in DOMAIN paths : paths[k] \in libraries}
  IN IF K = {} THEN NoLibrary ELSE paths[First(K)]

\* canonical_package_path: where a path of a library leads, and what is there.
Home(library, package) ==
  LET link == disk[<<library, package>>].link IN IF link = NoLibrary THEN library ELSE link
Held(library, package) == disk[<<Home(library, package), package>>]

\* Mutant: any directory is an installation.
IsInstalled_Directory(tree) == tree.dir
\* is_installed_package
IsInstalled(tree) == tree.marker
\* find_installed_package
Find(package) == FirstOnPaths({l \in Libraries : IsInstalled(Held(l, package))})
FoundAt(package) ==
  LET library == Find(package)
  IN IF library = NoLibrary THEN NoLibrary ELSE Home(library, package)
\* find_base_package: its directory is enough.
FindBase == FirstOnPaths({l \in Libraries : Held(l, Base).dir})

-----------------------------------------------------------------------------
(* installed.rs *)

\* select_base_catalog: R 4.6 and a warning wherever the minor is not known.
Fallback(reason) == [minor |-> "4.6", warned |-> <<reason>>]
SelectedCatalog ==
  LET tree == Held(FindBase, Base)
  IN IF paths = <<>> THEN Fallback("not specified")
     ELSE IF FindBase = NoLibrary THEN Fallback("base not found")
     ELSE IF ~ tree.marker \/ ~ tree.decodes THEN Fallback("unreadable")
     ELSE IF tree.minor \in {"4.5", "4.6"} THEN [minor |-> tree.minor, warned |-> <<>>]
     ELSE Fallback("unsupported")

SelectCatalog ==
  /\ pc = "catalog"
  /\ catalog' = SelectedCatalog
  /\ pc' = "scan"
  /\ UNCHANGED <<paths, closed, disk, scanned, seen, visible, unread, generics, warnings, changes>>
  /\ UNCHANGED askVars

\* valid_package_name, as a directory is named.
\* Mutant: names have no dots.
ValidName_NoDot(name) ==
  /\ Len(name) > 1 /\ name[1] = "a" /\ name[Len(name)] \in {"a", "1"}
  /\ \A k \in DOMAIN name : name[k] \in {"a", "1"}
ValidName(name) ==
  /\ Len(name) > 1 /\ name[1] = "a" /\ name[Len(name)] \in {"a", "1"}
  /\ \A k \in DOMAIN name : name[k] \in {"a", "1", "."}

\* One entry of visible_packages: a dependency is taken as it is, others
\* need their metadata and a priority of R's own.  The type of an entry is that
\* of the entry itself: a link is no directory, whatever it leads to.
Takes(tree, dependency) == tree.dir /\ (dependency \/ tree.marker)
IsVisible(tree, dependency) == dependency \/ (tree.decodes /\ tree.priority)

\* One library of visible_packages.  A name is taken by the first library.
\* Mutant: a later library replaces an earlier one.
Taken_Last(dependencies, library) ==
  {package \in Packages :
     ValidName(package) /\ Takes(disk[<<library, package>>], package \in dependencies)}
Taken(dependencies, library) ==
  {package \in Packages \ seen :
     ValidName(package) /\ Takes(disk[<<library, package>>], package \in dependencies)}
ScanLibrary(dependencies) ==
  /\ pc = "scan" /\ scanned < Len(paths)
  /\ LET library == paths[scanned + 1]
         taken == IF library \in closed THEN {} ELSE Taken(dependencies, library)
         shown == {package \in taken :
                     IsVisible(disk[<<library, package>>], package \in dependencies)}
     IN /\ seen' = seen \cup taken
        /\ visible' = [package \in Packages |->
                         IF package \in shown THEN library ELSE visible[package]]
        /\ unread' = unread \cup shown
        /\ warnings' = warnings \cup (IF library \in closed THEN {<<library, "closed">>} ELSE {})
  /\ scanned' = scanned + 1
  /\ UNCHANGED <<paths, closed, disk, pc, catalog, generics, changes>>
  /\ UNCHANGED askVars

EndScan ==
  /\ pc = "scan" /\ scanned = Len(paths)
  /\ pc' = "namespaces"
  /\ UNCHANGED <<paths, closed, disk, changes>>
  /\ UNCHANGED scanVars
  /\ UNCHANGED askVars

\* load_providers, one package: no metadata says nothing, metadata that
\* cannot be read or understood is a warning.
ReadNamespace(package) ==
  /\ pc = "namespaces" /\ package \in unread
  /\ LET tree == Held(visible[package], package)
         missing == ~ tree.dir \/ tree.ns = "missing"
     IN /\ generics' = IF ~ missing /\ tree.ns = "ok" THEN generics \cup tree.generics ELSE generics
        /\ warnings' = IF ~ missing /\ tree.ns = "bad"
                       THEN warnings \cup {<<visible[package], package>>} ELSE warnings
  /\ unread' = unread \ {package}
  /\ UNCHANGED <<paths, closed, disk, pc, catalog, scanned, seen, visible, changes>>
  /\ UNCHANGED askVars

\* compose: with the base catalog.  Without a path nothing external is asked.
Compose ==
  /\ pc = "namespaces" /\ unread = {}
  /\ generics' = generics \cup BaseGenerics
  /\ pc' = IF paths = <<>> THEN "off" ELSE "serve"
  /\ UNCHANGED <<paths, closed, disk, catalog, scanned, seen, visible, unread, warnings, changes>>
  /\ UNCHANGED askVars

-----------------------------------------------------------------------------
(* documentation.rs: get_topic *)

Serving == UNCHANGED <<paths, closed, disk, asks, changes>> /\ UNCHANGED scanVars
Answered(what) ==
  /\ answer' = what
  /\ pc' = "serve"
  /\ here' = NoLibrary /\ work' = None
Failed(kind) == Answered([kind |-> kind, links |-> <<>>])

\* The resolver asks for a topic.
Ask(package, topic) ==
  /\ pc = "serve" /\ asks > 0
  /\ request' = [package |-> package, topic |-> topic, moved |-> FALSE]
  /\ asks' = asks - 1
  /\ pc' = "find"
  /\ answer' = None
  /\ UNCHANGED <<paths, closed, disk, databases, topics, here, work, changes>>
  /\ UNCHANGED scanVars

FindPackage ==
  /\ pc = "find"
  /\ IF request.package \in Unsafe THEN Failed("InvalidPackageName")
     ELSE IF FoundAt(request.package) = NoLibrary THEN Failed("PackageUnavailable")
     ELSE /\ here' = FoundAt(request.package) /\ pc' = "open"
          /\ UNCHANGED <<work, answer>>
  /\ UNCHANGED <<databases, topics, request>>
  /\ Serving

\* A database that is open stays open; one that cannot be opened is not
\* remembered.  0 for a directory that has none.
\* Mutant: every request opens the database anew.
Opened_Anew(home, package) == Held(home, package).help
Opened(home, package) ==
  IF databases[<<home, package>>] # 0 THEN databases[<<home, package>>]
  ELSE Held(home, package).help

OpenDatabase ==
  /\ pc = "open"
  /\ LET version == Opened(here, request.package)
     IN IF version = 0
        THEN Failed("HelpDatabaseUnreadable") /\ UNCHANGED databases
        ELSE /\ databases' = [databases EXCEPT ![<<here, request.package>>] = version]
             /\ pc' = "resolve"
             /\ UNCHANGED <<here, work, answer>>
  /\ UNCHANGED <<topics, request>>
  /\ Serving

\* resolve_alias, then the cache of topics.
Resolved(version, topic) ==
  IF topic \in DOMAIN Aliases[version] THEN Aliases[version][topic] ELSE topic
Cached(home, package, topic) ==
  {t \in topics : t.home = home /\ t.package = package /\ t.topic = topic}

ResolveAlias ==
  /\ pc = "resolve"
  /\ LET version == databases[<<here, request.package>>]
         topic == Resolved(version, request.topic)
         cached == Cached(here, request.package, topic)
     IN IF version \in NoIndex THEN Failed("AliasIndexUnreadable")
        ELSE IF cached # {} THEN \E t \in cached : Answered([kind |-> "Topic", links |-> t.links])
        ELSE /\ work' = [topic |-> topic, todo |-> <<>>, done |-> <<>>]
             /\ pc' = "read"
             /\ UNCHANGED <<here, answer>>
  /\ UNCHANGED <<databases, topics, request>>
  /\ Serving

\* project_external_topic: the arguments first, then the standard sections in
\* the order of the topic model, then the others.
LinksOf(document) == document.params \o document.fields \o document.sections
AllLinks ==
  UNION {UNION {{LinksOf(Documents[v][t])[k] : k \in DOMAIN LinksOf(Documents[v][t])} :
                  t \in DOMAIN Documents[v]} : v \in Versions}
ASSUME DocumentsAssumption ==
  \A v \in Versions : \A t \in DOMAIN Documents[v] : LinksOf(Documents[v][t]) \in Seq(AllLinks)

\* raw_topic and lower_r_object.  When the files are no longer those that
\* were opened, the database still has them or the topic cannot be read.
ReadTopic ==
  /\ pc = "read"
  /\ LET version == databases[<<here, request.package>>]
         documents == Documents[version]
     IN \/ /\ Held(here, request.package).help # version
           /\ Failed("TopicUnreadable")
        \/ IF work.topic \notin DOMAIN documents THEN Failed("Missing")
           ELSE IF ~ documents[work.topic].lowers THEN Failed("RdLoweringFailed")
           ELSE /\ work' = [work EXCEPT !.todo = LinksOf(documents[work.topic])]
                /\ pc' = "project"
                /\ UNCHANGED <<here, answer>>
  /\ UNCHANGED <<databases, topics, request>>
  /\ Serving

-----------------------------------------------------------------------------
(* inherit/external.rs: the links of the topic, in order *)

\* The alias a link asks the database for.
AliasOf(link) == IF link.form = "s4" THEN link.alias \o "-class" ELSE link.alias

\* topic_exists, asked while the topic is projected: the package is looked
\* for again.
ExistsNow(alias) ==
  LET home == FoundAt(request.package)
      version == Opened(home, request.package)
  IN /\ home # NoLibrary /\ version # 0 /\ version \notin NoIndex
     /\ alias \in DOMAIN Aliases[version]

\* Mutant: a link that is not found is qualified all the same.
Qualified_Always(link) == link.form # "package"
\* external_link_replacement: a link that names its package is left alone.
Qualified(link) == link.form # "package" /\ ExistsNow(AliasOf(link))

QualifyLink ==
  /\ pc = "project" /\ work.todo # <<>>
  /\ LET link == Head(work.todo)
         home == FoundAt(request.package)
         opens == /\ link.form # "package" /\ home # NoLibrary
                  /\ Opened(home, request.package) # 0
     IN /\ work' = [work EXCEPT !.todo = Tail(@),
                                !.done = Append(@, [link |-> link, qualified |-> Qualified(link)])]
        /\ databases' = IF opens
                        THEN [databases EXCEPT ![<<home, request.package>>] =
                                Opened(home, request.package)]
                        ELSE databases
  /\ UNCHANGED <<pc, topics, request, here, answer>>
  /\ Serving

KeepTopic ==
  /\ pc = "project" /\ work.todo = <<>>
  /\ topics' = topics \cup {[home |-> here, package |-> request.package, topic |-> work.topic,
                             links |-> work.done, moved |-> request.moved]}
  /\ Answered([kind |-> "Topic", links |-> work.done])
  /\ UNCHANGED <<databases, request>>
  /\ Serving

-----------------------------------------------------------------------------
(* External: the package manager *)

Change(home, package, tree) ==
  /\ changes > 0
  /\ pc \notin {"inputs", "config", "failed"}
  /\ tree.link # NoLibrary => home \in Libraries
  /\ disk' = [disk EXCEPT ![<<home, package>>] = tree]
  /\ disk' # disk
  /\ changes' = changes - 1
  /\ UNCHANGED <<paths, closed, pc, databases, topics, here, work, answer, asks>>
  /\ UNCHANGED scanVars
  /\ LET inHand == pc \in {"open", "resolve", "read", "project"} /\ request.package = package
     IN request' = IF inHand /\ FoundAt(package)' # FoundAt(package)
                   THEN [request EXCEPT !.moved = TRUE] ELSE request

LibraryInit(scene) ==
  /\ paths = scene.paths /\ closed = scene.closed /\ disk = scene.disk
  /\ catalog = None /\ scanned = 0 /\ seen = {} /\ unread = {}
  /\ visible = [package \in Packages |-> NoLibrary]
  /\ generics = {} /\ warnings = {}
  /\ databases = [place \in Places |-> 0]
  /\ topics = {} /\ request = None /\ here = NoLibrary /\ work = None /\ answer = None
  /\ asks = scene.asks /\ changes = scene.changes

LibraryNext(dependencies) ==
  \/ SelectCatalog \/ ScanLibrary(dependencies) \/ EndScan
  \/ \E package \in Packages : ReadNamespace(package)
  \/ Compose
  \/ \E package \in (Packages \ {Base}) \cup Unsafe :
       \E topic \in UNION {DOMAIN Aliases[v] \cup DOMAIN Documents[v] : v \in Versions} :
         Ask(package, topic)
  \/ FindPackage \/ OpenDatabase \/ ResolveAlias \/ ReadTopic \/ QualifyLink \/ KeepTopic
  \/ \E place \in Places, tree \in Trees : Change(place[1], place[2], tree)

=============================================================================
