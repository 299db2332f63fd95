# A verification project for mini-roxygen

mini-roxygen documents R packages: `roxy doc` reads the roxygen comments of a
package, folds them into Rd topics and `NAMESPACE` directives, fills topics from
the topics they inherit from, and writes the generated files into the package.
This directory holds TLA+ models of its parts, TLC configurations that check
them on small instances, and proofs, checked by TLAPS, of what matters most.

Paths below are relative to `crates/mini-roxygen-core/src` (core) or
`crates/mini-roxygen-cli/src` (cli).

## 1. The system

A run of `roxy doc` is one pass of one thread:

    sources, DESCRIPTION, config  (source, package, cli/config; cli/installed for S3)
      -> blocks and tags            (r_parse, arity_adapter, tags)
      -> topics                     (model/merge)
      -> inherited documentation    (inherit, with cli/documentation as provider)
      -> Rd documents               (rd, markdown_conversion, inline_r)
      -> NAMESPACE                  (namespace, s3_register)
      -> the write gate             (cli/doc.rs: no error so far)
      -> files                      (cli/output.rs)

There is no thread pool and no event loop in it. What makes it hard is elsewhere:

* The tree it writes to is shared. Nothing locks the package: an editor, version
  control and other `roxy` processes change it between any two system calls; a
  call may fail, and the process may be killed between two of them.
* Every stage goes on after errors so that one run reports them all. The result
  of a stage is the outcome of a long sequence of decisions, on input in an order
  the author chose, and what is dropped must be reported.
* The algorithms are ones where a slip shows only for inputs of some size:
  strongly connected components, cycle search, fix of an order, first-wins merges
  through several levels.
* Other packages are asked through providers that can find, miss or fail, at each
  call anew, and the library they look into may change meanwhile.

| component | state | operations | correct when |
|---|---|---|---|
| Sources and package metadata (source.rs, package.rs, arity_adapter/authors.rs, marc_roles.rs, cli/config.rs) | numbered source files, fields of DESCRIPTION, configuration | read, refuse, number, match `person()` | the order of a directory shows nowhere; Authors@R means what R makes of it |
| Installed library discovery (cli/installed.rs, provider.rs) | visible packages, their generics, the base catalog | scan the paths, decode, fall back | every dependency installed is seen, once |
| Documentation providers (cli/documentation.rs, inherit/external.rs) | caches of databases and projected topics | find a package, open its help, resolve an alias, project a topic, qualify its links | all topics of a package are of one version; where the two searches of the paths part, it is for a reason that can be named |
| Blocks and tags (r_parse.rs, arity_adapter, tags) | lines of each expression, raw tags, parsed tags, values with provenance | attach, reduce, parse, reconcile with the intro | no line and no tag goes in silence; provenance is exact |
| Topic model (model/merge, model/slots.rs) | topics, alias owners, kinds, fallback state of package topics | fold a block, tag by tag; finalize aliases; defaults | first value wins whatever the order; aliases are unambiguous; no block is lost |
| Bindings (model/merge/bindings.rs) | facts of all assignments, S7 classes known in a file | follow an alias, match a registration to its object | nothing is called certain that another load order would change |
| Inheritance graph (inherit/graph.rs) | Tarjan's stack and indices, search path, indegrees | analyze | components are the classes of mutual inheritance; donors come first; the reported cycle is canonical |
| Inheritance resolver (inherit/resolver.rs, merge.rs, selection.rs, policy.rs) | prepared requests, memo of topics, memo of external answers | prepare, recover cycles, fetch donors, merge fields, sections, parameters | the first donor that has a field gives it; nothing is lost in silence; each formal is documented once |
| Rd documents (rd/) | sections under construction, claims on file names | build and assemble topics, join claims | the writer takes every document; no two topics write one file |
| Markdown (markdown.rs, markdown_conversion/) | stack of open frames, raw macros accepted | one parser event | every frame opened is closed; nothing is swallowed; the writer takes the nodes |
| Inline R (inline_r.rs) | substitutions, those looked up | substitute, report unused and undefined | what is called unused is unused in the whole run |
| Namespace (namespace/, s3_register.rs) | memo of each analyzer, directives, objects warned about | read registrar calls, classify usages and exports, collect, deduplicate, unite | methods are proven ones; the Rd page and NAMESPACE part over a generic of the package only; no request is lost |
| Pipeline (pipeline.rs, diagnostic.rs) | diagnostics of all stages | the stages in order | an error of any stage keeps the gate shut |
| Documentation command (cli/doc.rs, main.rs) | diagnostics, exit status | read inputs, run the pipeline, gate, plan, apply, report | no error, however late, reaches the writer |
| Output writer (cli/output.rs, core/generation.rs) | plan, report of applied/failed/not attempted, one temporary file | plan every destination, apply entries in path order, write one entry | refuses hand-written files before it writes anything; success means published; nothing partial is ever visible |

`PROJECT.json` lists every component with its files and status, and the hazards
of each with the line where it bites and the property that covers it.

## 2. What is modelled

The modules are in four groups that meet at data, not at actions, as the stages of the
code do: `Intake` ends where the pipeline begins; `Tags`, `TopicMerge`, `InheritGraph`,
`InheritResolver`, `Markdown` and `Namespace` are one stage each; `DocRun` is the order
of the stages and the Rd build; `OutputWriter` is what follows its gate. What one module
takes as given another establishes: the resolver takes the classes and the order of
`DonorGraph`, `DocRun` the diagnostics of each stage, `InheritResolver` the answers of a
provider, `Markdown` its events and `RdTopics` the nodes of converted contents.

### The writer: `OutputTree`, `OutputWriter`, `OutputWriterProofs`

`OutputWriter` is cli/output.rs with every file system call a step of its own.

| state | code |
|---|---|
| `man`, `fs`, `litter` | the `man` directory, the node at each output path, temporary files of killed runs |
| `pc` | the next call of each process |
| `want` | the candidates: text per path, or none |
| `todo`, `plan`, `errors` | what a loop has left, the action planned for each entry, the refused ones |
| `completed`, `failed`, `todo` | the write report: completed, failed, not attempted |
| `temp` | the temporary file of the entry under way: partial, complete, or deleted by someone |
| `status` | what the process reports |

`Begin`, `EndBeforeGate`, `PlanEntry`, `RefusePlan`, `AcceptPlan` are the command
and `plan_outputs`; `RevalidateStale`, `KeepUnchanged`, `BeginWrite`, `StatMan`
to `Persist`, `PersistFails` and `ApplyFault` are `apply_outputs`,
`ensure_man_directory` and `write_entry`, call by call; `Kill`, `Edit` and
`EditMan` are the environment. `steady` and `foreign` are history: what nobody else
changed since the run began, and what someone changed since the run last looked.
No action reads them.

One inspection (stat of `man`, stat and read of the destination) is one step; a
`man` that is not a directory is one state, `blocked`; file modes, the durability
of a rename, and a `man` replaced by a link behind the second stat are left out.

`OutputTree` is the promise without the mechanism: a run publishes its outputs
whole, one by one and in path order, and says Success only after the last.
`ImplementsTree` maps the one onto the other (`phase` from `pc`, `success` from
`status`); every other step of the writer is a stutter.

### The inheritance graph: `DonorGraph`, `InheritGraph`, `InheritGraphProofs`

`DonorGraph` says what a component, a cyclic component and a cycle are, with no
algorithm (reachability by closed sets). `InheritGraph` is inherit/graph.rs, one
action per iteration: `visit` with its call stack as state (`VisitRoot`,
`Descend`, `SkimEdge`, `LeaveInner`, `LeaveRoot`), `find_cycle_path` with its
frames (`BeginSearch`, `TakeHop`, `SkipHop`, `CloseCycle`, `Backtrack`), and
`dependency_order` (`BeginOrder`, `OrderNext`, `EndOrder`). The `unreachable!` of
the search and the assertion behind the sort are states (`panic`) that
`AnalysisReturns` excludes.

### The inheritance resolver: `InheritParams`, `InheritResolver`, `InheritResolverProofs`

`InheritResolver` is resolver.rs with merge.rs: `Prepare` (targets, suppression,
duplicates), `Analyse`, `RecoverCycle` / `EndCycles`, `PassCycle`, `StartTopic`,
one of `FetchNothing`, `FetchLocal`, `FetchRemembered`, `AskProvider` for each
request, `ResolveTopic` (the whole merge: prose, sections, parameters) and
`Return`. The requests of a topic are kept at their places in the source: normalization
leaves out the repeated ones, whose places are then not in the domain. It takes the
classes and the order from `DonorGraph`, which is what the
proofs about `InheritGraph` establish. `InheritParams` holds the functions of
parameter selection and merging: domains, selectors, names with any number of leading dots,
offers by donor, groups kept whole. The content of a field is abstracted to its writer, the topic
whose author wrote it, which is what tells a right result from a wrong one. The
provider answers found, missing or failed, nondeterministically, at each call.

A scene is a package with the policy for other packages; `Scenes` is the constant.
A donor group without names (an external item with an empty label) is not in the
families: it is taken by every recipient, and nothing is claimed of it.

### The topic model: `TopicMerge`, `TopicMergeProofs`

`TopicMerge` is the fold of model/merge: blocks in `@order` and source order;
`Verdict` holds the early exits in their order; `LeaveOut`, `BeginPackage` and
`BeginTopic` take a block, then one step per tag (`ApplyField`, `ApplyDocType`,
`ApplyMethod`, `ApplyParam`, `ApplyKept`, `ApplyAliases`, `ApplyKeywords`,
`ApplyUnique`, `SkipNamespace`), then `CloseBlock`; after the last block
`EndBlocks`, `NameDefaults` (the default aliases, per package topic),
`NameReexports` and `Describe` (the defaults of DESCRIPTION, where the `expect`
of mod.rs:490 is a `panic`). A value is its origin, the block and tag it comes from; the
namespace tags are kept block by block, as the code appends them.
Names are numbers in the order of the strings. Left out: generated usage and formals
and the warnings about registered S3 methods (they are in `Namespace`), included files,
unreadable authors.

### NAMESPACE: `BindingFacts`, `S3Analyzer`, `Registrars`, `Namespace`, `NamespaceProofs`

| module | code | state and actions |
|---|---|---|
| `BindingFacts` | model/merge/bindings.rs, the facts of r_parse.rs | none: the walks along aliases (`Formals`, `FormalNames`, `IsProvenNonFunction`, `IsFunction`) as recursive functions with their set of visited names |
| `S3Analyzer` | namespace/s3.rs | `memo`, and `chain`, the calls of `resolve` under way, which is also `visiting`; `Recall`, `Follow`, `Conclude`, `Settle` are its returns and its recursive call; `WeighObject`, `AskLocal`, `AskInstalled`, `WeighGeneric`, `GiveUp` are `analyze`, `select_split` and `is_s3_generic` |
| `Registrars` | s3_register.rs | none: the matching of arguments, and what is dynamic, invalid or a registration |
| `Namespace` | namespace/pipeline.rs, and model/merge where it prepares for it, in the order of pipeline.rs | one item of one stage per step: `ExtractCall`, `TrackS7`, `ValidateTarget`, `MergeBlock`, `ClassifyUsage` / `TakeUsageVerdict` (twice over all usages), `NameReexport`, `CollectTag`, `AskExport` / `TakeExportVerdict`, `AskFunction` / `TakeFunctionAnswer`, `Render` |

`Namespace` extends `S3Analyzer` and uses it three times, each with a memo of its own (`Renew`
in `EndStage`). The end of model/merge/mod.rs classifies the usages with a provider that knows
no installed generic (stage `classify`), pipeline.rs classifies them again with the real one
(stage `reclassify`), which passes over those that are methods already (`SkipUsage`), and
`build_namespace` asks a third analyzer. `provider` is what the one at work is told is
installed.

Beside the translation stands what it is measured against, which is not read from the
code. `Means` says what is certain of a name: an assignment copies another one if it
follows it in every load order that DESCRIPTION leaves open (`LoadOrders`), and the end
of the chain of copies decides. `ClassOf` says it of S7 classes, `RGives` how R itself
matches the arguments of a call, `IsMethod` which split of a name dispatch would use.

A name is the sequence of its parts between dots, since S3 splits there; a word of a tag
is a package, a name and a spelling (plain, quoted, with a comma, or broken: what cannot
be decoded or parsed). `NextTry` is the order in which `select_split` tries the splits of a
name: `all.equal` first, then from the shortest generic on; the analyzer keeps the place it
is at. The directives are a set, since collecting deduplicates them and rendering sorts
them. Directives remember the request they come from, which the code
does not need. The last file of `opaque` is one whose path is not text, for which
`compare_filename_order` gives no answer. Usages and re-exports are visited in the order
of their blocks, the code visits them topic by topic; the memo makes that a difference
only if `MemoIsMeaning`, a part of `WalksAgree`, fails. Left out: the order of the lines, blocks with an explicit
`@usage` or for data sets (their usages are not classified), formals that cannot be
decoded.

### What a run takes in: `Authors`, `PackageMetadata`, `InstalledLibrary`, `Intake`, `IntakeProofs`

| module | code | content |
|---|---|---|
| `Authors` | arity_adapter/authors.rs, model/merge/package.rs | the fold over the arguments of `person()`, every refusal, the sections of the authors; `MatchedByR`, the matching of R, stands beside it |
| `PackageMetadata` | package.rs, source.rs, cli/config.rs | when DESCRIPTION and the configuration are refused, dependencies, the numbers of files |
| `InstalledLibrary` | cli/installed.rs, cli/documentation.rs, cli/provider.rs, inherit/external.rs | the search of the library paths, twice: `ScanLibrary`, `ReadNamespace`, `Compose` for S3, and `Ask`, `FindPackage`, `OpenDatabase`, `ResolveAlias`, `ReadTopic`, `QualifyLink`, `KeepTopic` for one request of the resolver; `Held`, `Home` and `FoundAt` follow a link |
| `Intake` | cli/doc.rs | `LoadInputs`, `LoadConfig`, `TakeAuthors`, then the library |

`Change` is the environment: R may install, upgrade or remove a package between any two
steps, also between `FindPackage` and `ReadTopic`. A directory is what the code can ask
of it (there, marker, decodes, priority, metadata, version of its help); a version is its
aliases and its topics. Instead of a directory a library may have a symbolic link to one in a
store outside the library paths, as renv makes them. `Taken` and `IsVisible` look at the entry
of the library itself, whose type is not that of what it leads to
(`DirEntry::file_type`); whatever opens a path, the S3 metadata, base and every search for
documentation, sees what it leads to, and the caches of the provider are kept by the
directory that a link leads to (`canonical_package_path`). A link leads out of the libraries
in one hop. `moved` remembers that the search was led elsewhere while a topic
was read. Crates read DCF, RDS and help databases: they succeed or do not.

### Blocks and tags: `SourcedTexts`, `RoxyBlocks`, `TagGrammar`, `Tags`

`Tags` is one file: `Collect` (the lines of the next block of the R parser find their
expressions), `ReportDropped`, `ReduceWindow` (intro and raw tags of one expression),
`StartTags`, `ParseNext` (one raw tag), `Reconcile` (the intro beside the tags).
`SourcedTexts` is tags/text.rs: a value is its text and its runs, and trims, slices,
joins and replacements keep them; `RoxyBlocks` is the attachment of lines and the
reduction; `TagGrammar` is the registry and the grammar of each tag. A file is a sequence
of tokens. What the R parser finds in it is defined in `RoxyBlocks` from the tokens.

### Markdown: `RawRd`, `Markdown`

`RawRd` is raw_rd.rs: the scan for macros, their representability, and the sweep over the
candidates with its cursors and open constructs (`CandidateSweep`). `AcceptableAlone` is
the reference: the same question of one macro, without a sweep. `Markdown` is the converter,
one event of the parser per
step (`Skip`, `StartHeading`, `Start`, `EndHeading`, `End`, `Text`, `Code`, `Html`,
`Rule`, `Finish`), with the frames as state. A character is its position in the source,
so that what is lost, repeated or moved shows. A link target is a sequence of characters too, of
which `::`, `()`, `-class`, the name of this package, code ticks and what cannot be written are
told apart (`ParseTopic`). A label that only repeats its target is rebuilt from it
(`Generated`, `Rebuilt`): the name of this package and the suffix `-class` go, and the option
is decided by what is left. `Representable` is what the writer crate asks
of siblings.

### The pipeline and the Rd build: `RdPieces`, `ExampleMacros`, `RdTopics`, `DocRun`, `DocRunProofs`

`DocRun` is pipeline.rs with rd/mod.rs and the gate of cli/doc.rs: `LoadInputs`,
`LoadConfig`, `ParseFile`, `BuildModel`, `Inherit`, `BuildTopic` (one topic),
`JudgeNames` (the claims on file names), `Deduplicate`, `ReportUnused`,
`BuildNamespace`, `Gate`. The lists `analysis`, `rd` and `namespace` are those of the
code. One step looks at an order in them, `Deduplicate`, which keeps the first of equal
diagnostics of different topics: `rd` is kept by topic, in the order the topics are built,
and what one topic says, like the other two lists, is a set. `raised` is history. `RdTopics` is
rd/topic.rs: refusals, file name, the sections in their order,
inline R. `RdPieces` is how each section is put together, leaf by leaf where a line ends,
and `ExampleMacros` is examples_raw_rd.rs. Text is whether it is blank and whether it ends
a line, which is what the assembly looks at and the writer minds.

## 3. What the runs show

Deadlock checking is off where the program stops by itself. It is on for `NS_build`,
`RD_run`, `MD_convert` and `BT_files`: their only end is a step of its own (`Built`,
`Done`), so a tag, an event or an answer for which no step is provided is a deadlock.

| run | instance | what is checked |
|---|---|---|
| `OW_edits` | 1 process, 2 starts, 3 paths, 2 edits, 1 fault, 1 kill | refusals come before all writes, success means published, reports are true, hand-written files survive, what is up to date is left alone |
| `OW_pair` | 2 processes that want the same text, 2 paths, 1 edit | two processes cannot both fail; the writer implements `OutputTree` |
| `IG_four` | every graph of 4 topics with at most 2 distinct other donors each, every graph of 3 with request lists up to 2, repeated and self donors included | components are the classes, donors come first, the order is a function of the graph; the analysis returns, with every cycle reported by its canonical path |
| `IR_topics` | 3 topics, 4 names, up to 2 requests each: chains, cycles, suppression, ambiguous aliases; 2 topics with 3 external names, two of them aliases; policies off and best effort; whole-section and by-title requests through a topic that inherits too; groups of two, names with up to two leading dots, selectors, two levels | the first donor gives; memos serve what was asked first, once; nothing, cycles included, is lost in silence; sections come from the first donor; groups stay whole, each formal once, repeated requests add nothing; every topic is resolved |
| `TM_fold` | a package block, an ordinary and an unnamed one in one topic, title and see-also, NULL too, with each DESCRIPTION; 2 or 3 blocks that claim 4 names as topic, name, alias and default alias; 2 or 3 package, data and function blocks of one topic; each target with the tags that decide its fate | the first value stays and defaults only fill gaps; order decides values and nothing else, and no `expect` fails; aliases are unambiguous; every block is accounted for |
| `NS_build` | 3 assignments of 3 names in every mixture of values and aliases over 2 files, with Collate, without, and with a file whose path is not text; `all` and `all.equal` assigned, installed or neither; 3 assignments of 2 names with S7 classes, in one file or two; calls with up to 3 arguments in every mixture of names and values; registered methods with each way to tag their block; tags of every kind, each refusal included, on blocks of every kind, re-exports and pairs of blocks | all walks along aliases, and the memo in any order of questions, agree with every load order; registrations follow R; exports are proven methods; a usage is the method that each classification proves, and differs from NAMESPACE over a generic of the package only; nothing asked of NAMESPACE is lost |
| `NS_usage` | `all` and `all.equal` assigned, installed or neither | violation of `UsageAgreesWithNamespace` |
| `RD_run` | 3 topics of 8 names, four of which are not told apart as files, each fine or failing in one of three ways, 4 of them fine or undefined; every stage silent, warning or failing; 2 topics with inline R, shared and own, 4 expressions, 3 user tables; every section with every shape of content; examples of up to 5 tokens; 1 or 2 people | errors of any stage shut the gate; no topic vanishes; unused is unused; documents are writable |
| `RD_people` | a person with a comment of two lines | violation of `DocumentsAreWritable` |
| `MD_convert` | paragraphs of 3 pieces out of thirty and of 4 out of ten: text, macros and broken macros, escapes, entities, code, emphasis, links, HTML; every label of a link with every target and resolution; 3 blocks out of sixteen, 5 headings, paragraphs and rules | the fragment is writable and the frames nest; nothing is swallowed; each macro is judged as if alone |
| `BT_files` | 3 lines of thirteen kinds of code and roxygen, with LF and with CR LF, and 4 of nine; 16 tags with values of up to 3 tokens; values of up to 4 lines; intros beside explicit tags; section titles of up to 6 tokens | no line, tag or prose goes in silence; provenance is exact; sections keep links whole |
| `IN_package` | calls of `person()` with up to 3 arguments, 3 people with every mixture of roles; 3 files in 4 orders, DESCRIPTION and configuration with every refusal; 2 libraries and a store, with 5 kinds of installation for two packages, a link among them; the same when they change once while 2 topics are asked for | inputs are heard whatever their order; authors are matched as R does; the two searches agree but for the cases named; topics are of one version |

A run holds several families of initial states where the questions share a
specification: the MC module names them.

The bounds are as small as the hazards allow. The writer needs three paths, so that
one entry can be applied, one fail and one remain, two of them in the `man` directory; two
edits, so that a destination can change and change back between
two looks; a second start after a fault or a kill. Four topics are needed for a
component of three with a donor outside, or two components of two; two requests are
needed for an order among donors. Three blocks are needed for a conflict before and
after the first resolution of it. Three assignments are needed for an alias of an alias,
a cycle with a tail, and a class that is replaced before it is copied; two files, for
the difference between lines and load order. Three claims on one file name are the
least that a pairwise comparison can get wrong, and a fourth topic must stay unharmed. A
macro with something before and after it takes three pieces; an unclosed one before another, with
text between, four. Five headings open and close every level twice. Four lines hold a block, code with an opening
brace, a line inside, and the end. An unnamed argument, a named one for the same formal, and one
that is displaced are three. A package that moves needs two libraries and one change; a
stale answer shows in the second of two requests. A link needs one store to lead to. Each property is broken by a plausible slip in a
definition that models the code (`mutants` in `PROJECT.json`; the slips stand before
the definitions they replace).

A property that joins two questions of one state says so in its definition, which names
both parts; each part has a comment of its own.

Two runs end in a violation.

`RD_people`: rd/mod.rs:1 says that writer-valid documents
are built, and `append_text` (rd/topic.rs:497) puts a text of a person with a line break
inside and more text behind it side by side, which the writer refuses. The topic is lost
with the error `RdSerializationFailed`, and nothing is written. `BrokenPeople` differs from the
people of `RD_run` in that text alone.

`NS_usage`: namespace/s3.rs:22 says that usages have the split that NAMESPACE has. The first
classification knows no installed generic, and what it finds is kept. A package that defines a
generic `all` and a function `all.equal.x`, while `all.equal` comes from base, has the
usage of a method of `all` for class `equal.x`, and NAMESPACE registers a method of `all.equal`
for class `x`. `UsagesMeetNamespace`, a part of `WalksAgree`, says that this is the only way for
them to part: the usage names a generic of the package, and NAMESPACE an installed one that the
package does not assign.

Other sentences of the documentation that the code does not keep word for word were met
on the way; no run is spent on them:

* README 203-206 promises a warning for every request to another package while external
  inheritance is off; a topic on an inheritance cycle is recovered without looking at its
  other requests.
* README 262-265 says that repeated donors warn; two aliases of one external help topic
  are compared by name.
* model/ir.rs:100-102 says that the display name of a topic is the explicit or implicit
  name of its first block; a package block's `@name` is an alias only, and its topic is
  named by its key.
* README 165-166 says that an ordinary topic named `reexports` is rejected when there is a
  static re-export; a package block with `@rdname reexports` passes before that check
  (model/merge/mod.rs).
* README 113-114 says that malformed metadata is reported; an undecodable
  `Meta/package.rds` of a package that is no dependency makes it invisible without a word
  (cli/installed.rs:237-249).
* README 318-319 speaks of the shortest proven generic, while `all.equal` goes before the
  shorter `all` (s3.rs:195).
* README 272 says that names are decoded and validated, while both words of a two-word
  `@exportS3Method` are taken as they are written.

### Fairness

`InheritGraph` and `InheritResolver` are one call; `WF_vars(Next)` says that it
is executed until it returns, and that a provider that is asked answers.
`AnalysisReturns` and `EveryTopicIsResolved` are what the loops of the code then come to, and
what a wrong indegree or an order that leaves a topic out would break. The other modules
state safety only: their loops are over lists of a length fixed when they start.

## 4. What is proved

The theorems hold for every number of processes, paths, topics, requests, blocks, files and
libraries, with the named assumptions of the modules only, which TLC evaluates on the
constants of every run. They say what the constants are:

| assumption | what it says, and why the code justifies it |
|---|---|
| `NumRdAssumption`, `BoundAssumption`, `NumNodesAssumption`, `NumNamesAssumption`, `NumFilesAssumption`, `NumberAssumption` | a number of things is a natural number; a topic has a name |
| `RunsAssumption` | there are finitely many processes, and at least one |
| `WantsAssumption`, `TextAssumption`, `EdgeListsAssumption`, `SpecialAssumption` | outputs, texts, request lists and names are of their kinds; a text is generated or it is not |
| `CanonicalAssumption`, `PolicyAssumption`, `RequestAssumption` | an external name has one canonical name; there are three policies; the requests of a topic are a list, and each asks, suppresses or is malformed |
| `ListsAssumption` | what a topic and a help topic say of sections, formals and parameters are lists; a topic describes a parameter once (model/merge/block.rs keeps the first); the groups of a help topic are its own |
| `LibrariesAssumption`, `VersionsAssumption`, `TreesAssumption`, `DocumentsAssumption` | 0 is no version, and no library or store is called as if there were none; a directory has the help of some version or none; a link leads into a store; the links of a topic are a list |
| `Intake!ScenesAssumption` | `Authors@R` is a list of entries with lists of arguments, as the parser gives them; a directory lists a file once; the paths are libraries; under the name of every package each library and store has a directory, a link or nothing, a link, which only libraries have, has nothing of its own, and a marker file is in a directory |
| `TopicMerge!PackagesAssumption`, `SlotsAssumption` | the blocks of a package and their tags are lists, what names a topic or an alias is a name, and a field under study is not one of the tags with a handler of their own |
| `Namespace!FamiliesAssumption` | the facts of a package are facts about its files, one file after the other, as bindings.rs sorts them; names are sequences of parts; the blocks are a list, and the object of a block is none or one of the assignments; only `@exportS3Method` reads a package in a word; `@exportMethod` has a word, without which the parser refuses it; the calls are lists of arguments, and a registrar has one signature, with different roles (S3RegistrarSet::with_additions) |
| `DocRun!PackagesAssumption` | every topic is made from blocks; inline R is never less than an error (diagnostic.rs:174-176); the codes of `JudgeNames` and `ReportUnused` are raised by no other stage |
| `DocRun!TopicsAssumption` | topics are of the type `RdTopic` of model/ir.rs: a field is one content or none, text is of whatever pieces, examples are whatever tokens |
| `WordsAssumption`, `SpellingAssumption` | what a file name keeps is neither a dot nor a hyphen |

`OutputWriterProofs`:

* `Invariance`: `TypeOK` and `WriterInv` are inductive. None of the safety properties
  is inductive alone. `WriterInv` adds, per run: `TempInv` (a temporary file exists
  exactly while one is written, in a folder that exists, with the text of the entry
  under way), `WindowInv` (after the last inspection the destination still calls for the
  planned action unless someone else changed it), `LedgerInv` (applied entries hold
  their text, and applied and left over make up the outputs, in path order) and
  `PreflightInv` (a destination to refuse is still to be inspected, or refused already).
  The preservation proof has one step per action and one per part.
* `Typing`, `PreflightSafe`, `SuccessSafe`, `UnmanagedSafe`, `UnchangedSafe` follow; the
  two action properties use `WindowInv` at the rename.
* `Implements`: `Spec => Tree!Spec`. `Begin`, `EndBeforeGate`, `Persist`,
  `KeepUnchanged`, the ends and the edits map to steps of `OutputTree`, everything else
  to a stutter.

* `ReportsTrue`: the accounts need the report of a run that is under way: applied, failed and
  left over are disjoint and make up the outputs, and at most one entry has failed. That an
  undisturbed run succeeds needs `QuietInv`: as long as nothing of the tree has changed since
  the run began, what it planned for each entry is still what an inspection gives, and no
  system call it is about to make can fail.
* `SomeRunSafe`: `RaceInv` says why a run failed: another run had applied the very entry
  (`Overtaken`), or had made the `man` directory under its feet and got further. If all runs
  had failed, take the last path that is anyone's failure and was applied by someone
  (there are finitely many paths): whoever applied it failed later, at a path that someone
  else applied, and so on past the last one. The directory is a step before all of them.

`InheritGraphProofs`:

* `TarjanSafe`: the invariant of Tarjan's algorithm. `StackInv` (the stack is in index
  order and holds the indexed topics of no component), `CallInv` (the calls under way
  are a chain of requests on the stack), `ReachInv` (everything above a call on the
  stack is reached from it), `LowInv` (a lowlink is an index reachable through the
  stack, and no greater than any edge seen allows), `ClassInv` (components emitted are
  classes, and closed together).
* `Analysis` joins `TarjanSafe` with `OrderInv`; `GraphTyping` follows: no index, length
  or difference the analysis uses leaves its range.
* `ClassesFound`: the components are the classes of `DonorGraph`; `DonorsFirst`,
  `OrderLeast`, `IndegreesCount`: the order, its determinism, and that the indegrees
  count the donors left, from `OrderInv`.

`InheritResolverProofs`, for every package, policy and provider, whose answers are free at
each call. There are two invariants, both in `InheritResolver`: `ResolverInv`, and `ListsInv` of
the merged lists; `IR_topics` checks the parts of them that are properties:

* `BothMemosServe`: `OrderInv` ties the memo to the order of the components: a topic is
  resolved once the loop that it is for has passed its component, and the local donors of the
  topic under way are resolved. That donors come first is the order of `DonorGraph`.
  `ExternalInv` counts the questions to the provider.
* `SilenceIsImpossible`: `FetchInv` (the donors looked up so far are those that the requests
  of the source lead to, and no later answer changes that), `ComplaintInv` (which request has
  which report, exactly) and `CycleInv`. A cycle has a request that is part of it to report
  (`OneFirstRequest`), since a component that inherits from itself has an edge inside.
* `FirstDonorGives`: `ProseComesFromFirstDonor` is inductive with the others, because the
  donors of a resolved topic never change any more (`ProseIsDue`).
* `FirstSectionGives`: the sections of a resolved topic are its own, then those that its donors
  give, the first of each title by rank. The merges are folds: recursive functions over the
  places of a list, of which `FoldExists` shows by the least counterexample (`UpToBound`, both in
  `FoldFacts`) that each step is the one the code takes, so that `AddSectionsSteps` can say what
  has been added after each. A repeated request has an earlier twin with the same donor (`GiversAlike`), so it
  is never the first to ask.
* `DescriptionsStayWhole`: groups of parameters go in whole, by a fold over donors with a fold
  over groups inside (`TakeGroupsSteps`, `MergeParamsSteps`). `FormalsOnce` needs that the groups
  of a topic stay disjoint and that the order by formals loses none: `ArrangedIs` has it from the
  pigeonhole principle (`PlacesAreTaken`), since as many places as groups are filled by different
  groups. A request asked twice finds its names filled and adds nothing (`RepeatsMergeNothing`).
  `MissingInv`: what no donor describes is reported, and nothing else is.

`DocRunProofs`, for any packages, whatever their stages say:

* `RunInvariant`: `TopicsInv` (the topics built are the first ones, each with what its build
  says and the path it claims), `JudgedInv` (after the second loop the claims that nobody else
  makes are left, and the late ones are blamed), `LossInv`, `UsedInv` (what is recorded of the
  session is exactly what was looked up so far) and `GateInv`.
* `GateIsSound`: `ErrorsInv`, what was raised is what is in the lists, would be lost in
  `Deduplicate` if a diagnostic went whose like is not kept. `FirstStays` is the point: of all
  that have its code and its place there is a first one, by topic, and it is the same
  diagnostic, because inline R has only errors.
* `EveryTopicIsSeen`: `LateOnes` is the argument about file names for any number of claimants:
  the late ones are those with an earlier rival, and with the firsts that the late ones point
  at they are all who have a rival. `BuildSays` has the rest: a topic that yields no file has
  an error at a place of its own.
* `UnusedIsMeant` follows from `UsedInv`: lookups of documents, of section keys and of topics
  that failed are in one session when `ReportUnused` reads it.
* `DocumentsAreTaken`: the writer refuses a leaf right after one of its kind that does not
  end its line, so a section that is right on its own may still be wrong next to another. The
  invariant of the assembly is two sets: `Fine`, the lists the writer takes, and `Finished`,
  those it takes whatever follows. Lists join when the first is finished (`FinishedJoin`) or
  the ends do not clash (`FineJoin`). Every helper is shown to keep a list in one of them
  (`NewlinesAreFine`, `TrimIsFine`, `TextIsFine`), every section to be a whole node
  (`UsageIsWhole`, `ArgumentsAreWhole`, `ReexportIsWhole`, `AuthorIsWhole`, ...), every loop over
  a list by `LoopStays`, and `DocumentIsFine` puts the sections in a row. The theorem has one
  hypothesis, `PeopleFit`: no name and no comment that the author section shows of a person has
  a line break. It is needed: `RD_people` is a package without it, whose document is refused.
* `ExamplesAreR`: `lower_rlike` calls itself for the body of a macro and goes on after it, so
  what it gives is defined by its values at regions with less left to scan (`Left`,
  `CallsAreShorter`). `RecursionExists` shows once that such a definition has a value
  everywhere, and `LowerRlikeIs` that the scan is one. Then a region that went wrong would go
  wrong with least left: `TurnIsKept` says that in any turn what is scanned already is said
  (`Speaks`), no leaf begins before the region (`Begins`), and every token of code is in
  a leaf (`Keeps`); what lies between the leaves is a name, an opening or a closing brace.
  The nodes are `Fine` by the same definition, so `DocumentsAreTaken` asks nothing of examples.

`IntakeProofs`:

* `OneVersion`: for any libraries, documents and number of changes, topics are of one
  version. `LibraryInv` adds to the property `DiskInv`, `RequestInv` (the directory in hand is
  the one the search leads to, or the request is marked; once open it stays open, and its
  index was read), `WorkInv` (the links judged followed by those left are the links of the
  topic, each judged as its version says) and `KeptInv`. `QualifyKeeps` is the point:
  `topic_exists` searches for the package again and opens what it finds, and agrees with the
  topic because the search leads to the same directory, whose database is already open. The
  directory is the one that links lead to (`FoundAt`): an upgrade may turn a directory into
  a link and the other way round.
* `SearchesMeet`: for any paths, directories and links. A dependency that stands in some
  library as a directory gives its S3 metadata, and topics come from the library that gave it, but
  for two cases: the search for topics stops earlier at a link or in a library that cannot
  be listed, or it goes on past a directory of a dependency without `Meta/package.rds`. `ScanInv`
  says what `visible_packages` has found in the libraries scanned so far: a package is visible
  exactly in the first of them that has it for that search, and a dependency that any of them
  has is visible. The other search stops at the first entry with the file it looks for. If
  the two part, the one that is ahead stands at an entry that the other passed over, and
  `Takes` and `IsInstalled` leave only these reasons to do so.
* `AuthorsMatched`: for any field. What is kept of the field was read from it (`AuthorsInv`), so
  the rest is about `person()` and about lists. In a call that is accepted every argument claims
  a slot of its own (`ClaimsAre`), those without a name the first ones in their order. Whatever
  slot comes before the one such an argument claims is claimed by an earlier argument without a
  name (`RankIsTaken`) and therefore by none with a name: so R, which counts the open formals
  only, arrives at the same one (`MatchedIsClaimed`). The sections grow person by person
  (`ListedHasSteps`, a fold again), each by one entry for each role that names it (`OneMore`).
* `InputsHeard`: for any listing and any configuration. A sorted list is the list of ranks: as
  many files are taken as there are ranks (`RankIsTaken`, as above), and a greater name has a
  greater rank (`RanksGrow`), so each file is there once and in its place (`EnumeratedIs`). The
  numbers in `r` stay those of the sources when the configuration is added (`SourcesStay`).

`TopicMergeProofs`: the four theorems hold for any number of blocks, tags and names. `IInv`
joins what each needs, one lemma per part and one step per action in each:

* `FoldInv` is the shape of the fold. `SaidInv` ties the cursor to the source: blocks folded
  precede those to come, `block_slots` holds a slot exactly when an earlier tag of the block
  filled it, and nothing is reported before its tag is applied. `HereCounts` follows: a tag
  that finds its slot free is the first of its kind in its block, comes after all that has
  been said, and is not reported yet.
* `ValuesKept`: `ValueInv` and `ParamInv` say of what has been *said so far* what the property
  says of everything. In a gap stands exactly what `Gap` gives, by how far the fold is, so
  neither the title of the re-exports nor a default of DESCRIPTION replaces a value.
* `OrderSafe`: `OrderInv`, `DocInv` (the type, and NULL lifted by a later type) and `KindInv`:
  kind, conflict, anchor and the report of the conflict are functions of the *set* of blocks
  folded so far, hence of no order. A topic that is a package topic has a package block, hence
  an anchor: `Describe` does not panic.
* `AliasesSafe`: `AliasInv` (who has an alias owns it or was told) and `YieldInv` (default
  aliases conflict with package topics only, whose kinds no longer change).

* `BlocksAccounted`: `AccountInv` follows each block that has been taken to its topic or to
  its error, and its namespace tags to the entry they were kept in; a topic has no other
  blocks. In the end all are taken.

`NamespaceProofs`, for any number of files and assignments, blocks and tags:

* `PrecedenceIsExact`: `Precedes`, three comparisons in the code, is `EvaluatedFirst`, which
  quantifies over all load orders. Where the code says no, one of four orders is the
  counterexample: files by name, backwards (Collate may ask for it), and the file of one of
  the two first or last (when its path is not text).
* `MemoSafe`: `[]MemoIsMeaning`. `AnalyzerInv` says of the calls on `chain` that each follows
  its alias to the next, that the assignment of each runs after those of all calls inside it,
  and that the answer in hand is what the name the last call follows means. So `NoCycle`: the
  guard against cycles is never met, which matters because it answers "unknown", and that
  answer would be remembered for every caller. A call that ends hands on what its name means,
  since a copy means what it copies (`FollowedMeans`) and what copies nothing means what its
  own assignment says (`OwnMeans`).

* `RequestsReach`: `ReachInv` follows a tag from its block (`MergeInv`: what is kept are the
  tags of merged blocks) to a directive or a report (`CollectInv`, with what `IsDealt` says of
  each kind of tag), through the questions to the analyzer, which end in a verdict of every
  kind (`AskInv`). An object is warned about once, so a later request for it is silent: then
  the earlier report is the one (`IsWarned`). `ImportsAreUnited` is part of it.
* `ExportsProven`: `VerdictInv` is what an analysis knows at each of its steps: every try
  behind it came to nothing (`Fruitless`), and an answer means what is certain, by `MemoSafe`.
  `MethodFound` and `NoMethodFound` turn that into the property, whose `IsMethod` knows no
  tries: the split that dispatch would use is `all.equal` if that works, and otherwise the
  shortest that does.
  `ProvenInv` keeps what is collected.
* `WalksMeet`: the four walks of bindings.rs are recursive functions of the names that have been
  visited. `WalkExists` makes them definable, and `WalkEnds` says where one stops, both for
  any walk of this shape: the names that are left become fewer (`NamesAreLeft`), so a walk that
  went wrong would go wrong with fewest names left. A walk along certain copies never meets a
  name again, since precedence has no cycles, and where it ends there is only one end
  (`EndIsOne`). For S7 classes, `TrackInv` says what is known at the assignment at hand: the
  class of the latest assignment of each name in that file, and nothing of another file, because
  the assignments come file by file. `UsageInv` and `ClassifyInv` say of the analyzers
  that classify usages what `VerdictInv` says of the one behind NAMESPACE: `IsFound` is what a
  usage may be, by how far the two classifications are. `UsagesAreProven` follows: in the end
  a usage is of the method that its object is by the generics of the package, and if that is none,
  by those installed too; one that is never asked about (`NoFormals`) is of none. With
  `ExportInv`, which says the same of the exports, comes `UsagesMeetNamespace`.
* `RegistrationsMatchR`: the code matches arguments in one loop, R all names first and then the
  rest by counting. `MatchInv` says what the loop keeps: each argument so far has a slot of its
  own, those with a name the slot of that name, and the others fill the first free ones in their
  order. The slots that are open to the others in the end are the ones they have, or none
  (`OpenIs`), so as many of them come before an argument as open roles before its slot
  (`SameRank`, by the bijection between the two). Where an argument would be given elsewhere, the
  code has ended the matching with an error, and nothing is registered.

Only model-checked, and why:

* `AnalysisReturns`, `EveryTopicIsResolved`: liveness under fairness.
  `CyclesAreCanonical` is checked with `AnalysisReturns`, which states it of the end.
* the properties of `Markdown` and `Tags`: `SourcedTexts`, `RoxyBlocks`, `TagGrammar`, `Tags`,
  `RawRd` and `Markdown` declare `RECURSIVE` operators, in modules where tlapm has no SMT
  solver.

## 5. Not modelled, and what is left

Left out of components that are modelled in part:

* Topic model: `@include` of files and the bodies they bring; generated usage and formals.
* Namespace: order and layout of the rendered lines; whether a raw directive parses.
* Rd topic builder: the line breaking of usages, the lists of methods of R6 and S7
  classes, and the writer, a crate.
* Markdown: the alignment of table columns, the percent-encoding of link destinations, provenance
  of what is converted.
* Blocks and tags: the facts about the documented object (facts/top_level.rs), from whose
  names and formals `Namespace` starts; the values of escapes.
* Documentation command: arguments of the command line and the terminal.

Not modelled at all: wording and layout of diagnostics, serialization of Rd text, the crates
that parse R, Markdown, DCF, TOML and RDS (their results are inputs, restricted to what
they can return), the generated tables (generated catalogs, MARC roles beyond their
use), durability of renames, and the release tooling.

The plan, in the order of importance:

1. Proofs about `Tags` and `Markdown`: that frames nest and nothing is swallowed, from an
   invariant of the open frames; the `RECURSIVE` operators have to become recursive functions
   or steps of the sweep first.
2. `@include`, the facts about documented objects and the methods of R6 and S7 classes.
