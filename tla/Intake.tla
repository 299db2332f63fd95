------------------------------- MODULE Intake -------------------------------
(***************************************************************************)
(* What roxy doc takes in before and while it documents (doc.rs run): the  *)
(* package (PackageMetadata), the configuration, the installed libraries   *)
(* (InstalledLibrary), and the authors of the package topic (Authors).     *)
(***************************************************************************)
EXTENDS PackageMetadata, InstalledLibrary

CONSTANT
  Families   \* sets of scenes: what is on disk when the run starts

\* A library has a directory under a name, a link or nothing, with a help
\* database or without; a file Meta/package.rds is in a directory, and a link
\* has nothing of its own and leads out of the libraries.  Authors are read from
\* an expression that parses; a directory lists a file once.
ASSUME ScenesAssumption ==
  \A F \in Families : \A scene \in F :
    /\ scene.description.authors \in AuthorsField /\ IsListing(scene.listing)
    /\ scene.paths \in Seq(Libraries)
    /\ scene.disk = [place \in Places |-> scene.disk[place]]
    /\ \A place \in Places :
         LET tree == scene.disk[place]
         IN /\ tree.help \in Versions \cup {0} /\ tree.link \in Stores \cup {NoLibrary}
            /\ tree.marker => tree.dir
            /\ tree.link # NoLibrary => place[1] \in Libraries /\ ~ tree.dir /\ tree.help = 0

VARIABLES
  package,   \* DESCRIPTION, R/ and the configuration of the scene, and whether
             \* its libraries stay as they are
  metadata, sources, config,
  authors,   \* of the package topic
  status

vars == <<package, metadata, sources, config, authors, status, libraryVars>>
inputVars == <<package, metadata, sources, config, authors>>

ConfigFile == 0   \* no number of a source
-----------------------------------------------------------------------------
Init ==
  /\ \E F \in Families : \E scene \in F :
       /\ package = [description |-> scene.description, listing |-> scene.listing,
                     config |-> scene.config, still |-> scene.changes = 0]
       /\ LibraryInit(scene)
  /\ pc = "inputs"
  /\ metadata = None /\ sources = NoSources /\ config = "none" /\ authors = None
  /\ status = "running"

Idle == UNCHANGED <<paths, closed, disk, changes>> /\ UNCHANGED scanVars /\ UNCHANGED askVars
Stop(how) == status' = how /\ pc' = "failed"

\* PackageInputs::from_package_root
LoadInputs ==
  /\ pc = "inputs"
  /\ LET fields == package.description.fields
     IN IF DescriptionFails(package.description) # "no" \/ SourcesFail(package.listing)
        THEN Stop("Operational") /\ UNCHANGED <<metadata, sources>>
        ELSE /\ metadata' = Metadata(fields)
             /\ sources' = Sources(package.listing)
             /\ pc' = "config"
             /\ UNCHANGED status
  /\ UNCHANGED <<package, config, authors>>
  /\ Idle

\* config::load: its file is known to diagnostics, and no source.  Signatures
\* and substitutions are taken from it; those of the latter that are invalid
\* end the run with diagnostics.
LoadConfig ==
  /\ pc = "config"
  /\ IF package.config.state = "missing"
     THEN config' = "builtins" /\ pc' = "catalog" /\ UNCHANGED <<sources, status>>
     ELSE IF package.config.state # "read" \/ ConfigFails(package.config)
     THEN Stop("Operational") /\ UNCHANGED <<sources, config>>
     ELSE /\ sources' = AddAuxiliary(sources, ConfigFile)
          /\ \/ /\ config' = "loaded" /\ pc' = "catalog" /\ UNCHANGED status
             \/ /\ "inline-r" \in package.config.keys
                /\ Stop("Diagnostics") /\ UNCHANGED config
  /\ UNCHANGED <<package, metadata, authors>>
  /\ Idle

\* Describe, for the authors: a field that fails leaves the topic without.
TakeAuthors ==
  /\ pc \in {"serve", "off"} /\ authors = None
  /\ LET field == package.description.authors
     IN authors' = IF AuthorsFail(field) THEN [state |-> "failed", people |-> Nobody]
                   ELSE [state |-> "read", people |-> PackageAuthors(field)]
  /\ UNCHANGED <<package, metadata, sources, config, status, pc>>
  /\ Idle

Library ==
  /\ metadata # None
  /\ pc = "serve" => authors # None
  /\ LibraryNext(metadata.dependencies)
  /\ UNCHANGED <<inputVars, status>>

Next == LoadInputs \/ LoadConfig \/ TakeAuthors \/ Library
Spec == Init /\ [][Next]_vars

-----------------------------------------------------------------------------
(* Properties *)

Taking == pc \notin {"inputs", "failed"}

\* The order in which a directory lists its files shows nowhere, the
\* configuration is never parsed as R, and no key of an accepted
\* configuration is passed over (source.rs enumerate_r_files, config.rs).
InputsAreHeard ==
  Taking =>
    LET chosen == {k \in DOMAIN package.listing :
                     package.listing[k].regular /\ package.listing[k].extension \in {"R", "r"}}
        known == {<<"top", "inline-r">>, <<"top", "s3">>, <<"inline-r", "substitutions">>,
                  <<"s3", "registrars">>, <<"registrar", "function">>, <<"registrar", "arguments">>}
        r == [k \in DOMAIN sources.r |-> sources.files[sources.r[k]]]
    IN /\ ToSet(r) = {package.listing[k].file : k \in chosen}
       /\ \A j, k \in DOMAIN r : j < k => r[j] < r[k]
       /\ config = "loaded" => ConfigKeys(package.config) \subseteq known

\* Authors@R is matched as R matches it, though it is read in source order:
\* when a call is accepted, every argument is where R puts it, and each
\* person stands in each section the roles name (authors.rs,
\* package_authors).
AuthorsMatchR ==
  authors # None /\ authors.state = "read" =>
    LET calls == package.description.authors.entries
        people == authors.people
        text(person, formal) ==
          CASE formal = "given" -> person.given [] formal = "family" -> person.family
            [] formal = "middle" -> person.middle [] formal = "email" -> person.email
            [] OTHER -> NoText
        roles == [k \in DOMAIN calls |-> ToSet(PersonSpec(calls[k].args).role)]
    IN /\ \A k \in DOMAIN calls : \A j \in DOMAIN calls[k].args :
            LET arg == calls[k].args[j]
                formal == MatchedByR(calls[k].args, j)
            IN /\ formal # "unused"
               /\ arg.kind = "string" /\ formal \in {"given", "family", "middle", "email"}
                  => text(PersonSpec(calls[k].args), formal) = arg.text
       /\ Len(people.maintainers) = Cardinality({k \in DOMAIN calls : "cre" \in roles[k]})
       /\ Len(people.authors) = Cardinality({k \in DOMAIN calls : "aut" \in roles[k]})
       /\ Len(people.otherContributors) =
            Cardinality({k \in DOMAIN calls : roles[k] \cap {"cre", "aut"} = {}})

\* One library comes before another on the paths, which may be none.
Ahead(l, m) ==
  /\ l # NoLibrary
  /\ m # NoLibrary =>
       First({k \in DOMAIN paths : paths[k] = l}) < First({k \in DOMAIN paths : paths[k] = m})

\* As long as nobody changes the libraries: a dependency that has a directory
\* in a library that can be listed gives its S3 metadata; and topics come from
\* the library that gave it, but for two cases.  The search for topics stops
\* earlier only at a link, or in a library that cannot be listed; and it goes
\* on only past a directory of a dependency that has no Meta/package.rds
\* (visible_packages, find_installed_package).
SearchesAgree ==
  pc \in {"namespaces", "serve"} /\ package.still =>
    \A p \in Packages :
      LET f == Find(p)
          v == visible[p]
      IN /\ p \in metadata.dependencies
            /\ (\E k \in DOMAIN paths : paths[k] \notin closed /\ disk[<<paths[k], p>>].dir)
            => v # NoLibrary
         /\ v # NoLibrary /\ f # v =>
              \/ Ahead(f, v) /\ (f \in closed \/ disk[<<f, p>>].link # NoLibrary)
              \/ /\ Ahead(v, f) /\ p \in metadata.dependencies
                 /\ disk[<<v, p>>].dir /\ ~ disk[<<v, p>>].marker

\* All topics of one directory come from the version opened first, however
\* the package is upgraded meanwhile; and the links of a topic are those its
\* own version has, unless the search for the package led elsewhere while
\* the topic was read (the two caches, project_external_topic).
TopicsAreOfOneVersion ==
  \A t \in topics :
    LET version == databases[<<t.home, t.package>>]
    IN /\ version # 0
       /\ t.topic \in DOMAIN Documents[version]
       /\ [k \in DOMAIN t.links |-> t.links[k].link] = LinksOf(Documents[version][t.topic])
       /\ ~ t.moved =>
            \A k \in DOMAIN t.links :
              LET link == t.links[k].link
              IN t.links[k].qualified <=>
                   /\ link.form # "package"
                   /\ AliasOf(link) \in DOMAIN Aliases[version]

=============================================================================
