----------------------------- MODULE Namespace ------------------------------
(***************************************************************************)
(* From the code of a package to its NAMESPACE, and to the S3 methods in   *)
(* its usage sections: registrar calls are read, S7 classes tracked and    *)
(* registration targets validated; each block gives its namespace tags and *)
(* its usage; one analyzer classifies the usages by the package alone,     *)
(* another one what is left by what is installed too, and a third one the  *)
(* exports; directives are collected from re-exports and tags, made unique *)
(* and rendered.  (s3_register.rs, model/merge/mod.rs and bindings.rs,     *)
(* namespace/s3.rs and pipeline.rs, in the order of core/pipeline.rs.)     *)
(*                                                                         *)
(* What blocks mean for topics is in TopicMerge; here a block either       *)
(* reaches the merge, `documented`, or not.  A word of a tag is a name in  *)
(* some spelling: plain, quoted, or broken, which cannot be decoded.       *)
(***************************************************************************)
EXTENDS S3Analyzer, Registrars

CONSTANTS Syntactic,   \* names R reads without quotes
          Families     \* of inputs under study

\* A word of a tag is a name in some spelling; only @exportS3Method reads a
\* package in it.  Words are as they come from the parser: any number of them,
\* and of @exportMethod, which is the only one not to ask for them again, one
\* at least.
TagKindNames ==
  {"export", "exportPattern", "exportClass", "exportMethod", "exportS3Method", "import", "importFrom",
   "importClassesFrom", "importMethodsFrom", "useDynLib", "rawNamespace"}
Words == [package : STRING, name : Names, spelling : {"plain", "quoted", "broken", "comma"}]
Tag == [kind : TagKindNames, words : Seq(Words)]
Block == [fact : Nat, package : STRING, member : Names, documented : BOOLEAN,
          method : [generic : Words, class : Words], tags : Seq(Tag)]
IsBlockOf(b, c) ==
  /\ b.fact \in {None} \cup DOMAIN c.facts
  /\ \A t \in Range(b.tags) :
       /\ t.kind # "exportS3Method" => \A w \in Range(t.words) : w.package = ""
       /\ t.kind = "exportMethod" => t.words # <<>>

\* The facts of every input are facts about its files, one file after the
\* other, its blocks are of its assignments, and it has been configured with
\* one signature for a registrar at most.
ASSUME FamiliesAssumption ==
  \A family \in Families : \A P \in family :
    /\ P.code \in Code /\ IsInFileOrder(P.code) /\ P.here \in Names
    /\ P.blocks \in Seq(Block) /\ P.calls \in Seq(Call)
    /\ P.signatures \in Seq(Signature) /\ AreSignatures(P.signatures)
    /\ \A b \in Range(P.blocks) : IsBlockOf(b, P.code)

VARIABLES
  input,          \* here, signatures, calls, blocks; constant
  stage, at,      \* what runs, and its next item
  registrations,  \* facts of registrar calls, each with its call
  known, s7,      \* S7 classes by name in this file, and by assignment
  requests,       \* namespace tags, with what they need of their block
  usages,         \* usage contributions
  reexports,
  directives,     \* a set, as they are normalized; each with the request it comes from
  warned,         \* objects reported as unresolved
  reports,
  output          \* NAMESPACE: its lines, and names imported by package

model == <<registrations, known, s7, requests, usages, reexports>>
result == <<directives, warned, output>>
vars == <<analyzer, input, stage, at, model, result, reports>>

\* A name and how it is written: plain, quoted, broken, or with a comma.
Word(n, spelling) == [package |-> "", name |-> n, spelling |-> spelling]
NoWord == Word(NoName, "plain")
NoRequest == 0
NoMethod == [generic |-> NoName, class |-> NoName]

Report(i, what) == [stage |-> stage, at |-> i, what |-> what]
Reports(i, S) == {Report(i, w) : w \in S}

\* The stages, and what each goes through.  The usages are classified twice: at
\* the end of the merge, and by the pipeline.
ClassifyStages == {"classify", "reclassify"}
Stages == <<"extract", "track", "validate", "merge", "classify", "reclassify", "reexport",
            "collect", "render", "done">>
Items(s) ==
  CASE s = "extract" -> Len(input.calls)
    [] s = "track" -> Len(code.facts)
    [] s = "validate" -> Len(registrations)
    [] s = "merge" -> Len(input.blocks)
    [] s \in ClassifyStages -> Len(usages)
    [] s = "reexport" -> Len(reexports)
    [] s = "collect" -> Len(requests)
    [] OTHER -> 0

Init ==
  /\ \E family \in Families : \E P \in family :
       /\ code = P.code
       /\ input = [here |-> P.here, signatures |-> P.signatures,
                   calls |-> P.calls, blocks |-> P.blocks]
  /\ NewAnalyzer
  /\ stage = "extract" /\ at = 1
  /\ registrations = <<>> /\ known = <<>> /\ s7 = <<>>
  /\ requests = <<>> /\ usages = <<>> /\ reexports = <<>>
  /\ directives = {} /\ warned = {} /\ reports = {}
  /\ output = [lines |-> {}, imports |-> <<>>]

Busy(s) == stage = s /\ at <= Items(s)
Advance == at' = at + 1 /\ UNCHANGED <<input, stage>>

-----------------------------------------------------------------------------
(* Before the blocks are merged *)

\* extract, for one call: a callee has one signature at most.
ExtractCall ==
  LET call == input.calls[at]
      signature == {k \in DOMAIN input.signatures : input.signatures[k].callee = call.callee}
      reading(k) == Extract(call, input.signatures[k].roles) IN
  /\ Busy("extract")
  /\ registrations' = registrations \o
       (IF signature = {} THEN <<>>
        ELSE LET found == reading(CHOOSE k \in signature : TRUE).registrations
             IN [j \in DOMAIN found |-> [call |-> at, says |-> found[j]]])
  /\ reports' = reports \cup UNION {Reports(at, reading(k).reports) : k \in signature}
  /\ Advance
  /\ UNCHANGED <<analyzer, known, s7, requests, usages, reexports, result>>

\* Mutant: a name keeps its class when it is assigned something else.
TrackS7_Keep ==
  LET fact == code.facts[at]
      here == IF at > 1 /\ code.facts[at - 1].file = fact.file THEN known ELSE <<>>
      class == CASE fact.value \in {"s7", "refused"} -> at
                 [] fact.value = "alias" /\ fact.target \in DOMAIN here -> here[fact.target]
                 [] OTHER -> None IN
  /\ Busy("track")
  /\ known' = [n \in DOMAIN here \cup (IF class = None THEN {} ELSE {fact.name}) |->
                 IF n = fact.name /\ class # None THEN class ELSE here[n]]
  /\ s7' = Append(s7, class)
  /\ Advance
  /\ UNCHANGED <<analyzer, registrations, requests, usages, reexports, result, reports>>

\* s7_binding_results, for one assignment.
TrackS7 ==
  LET fact == code.facts[at]
      here == IF at > 1 /\ code.facts[at - 1].file = fact.file THEN known ELSE <<>>
      class == CASE fact.value \in {"s7", "refused"} -> at
                 [] fact.value = "alias" /\ fact.target \in DOMAIN here -> here[fact.target]
                 [] OTHER -> None IN
  /\ Busy("track")
  /\ known' = [n \in (DOMAIN here \ {fact.name}) \cup (IF class = None THEN {} ELSE {fact.name}) |->
                 IF n = fact.name THEN class ELSE here[n]]
  /\ s7' = Append(s7, class)
  /\ Advance
  /\ UNCHANGED <<analyzer, registrations, requests, usages, reexports, result, reports>>

\* validate_registration_targets, for one registration.
ValidateTarget ==
  LET registration == registrations[at].says IN
  /\ Busy("validate")
  /\ reports' = reports \cup
       IF HasName(registration)
            /\ ~\E i \in DOMAIN code.facts :
                  FactsOf(code, registration.target.name) = {i} /\ IsFunction(code, i)
       THEN Reports(at, {"invalid-s3-registration"}) ELSE {}
  /\ Advance
  /\ UNCHANGED <<analyzer, model, result>>

-----------------------------------------------------------------------------
(* A block: the value of its assignment, or the member it re-exports *)

NoPackage == ""
IsReexport(b) == b.package # NoPackage
Object(b) == IF IsReexport(b) THEN b.member
             ELSE IF b.fact = None THEN NoName ELSE code.facts[b.fact].name
ValueOf(b) == IF b.fact = None THEN "unknown" ELSE code.facts[b.fact].value
IsFunctionBlock(b) == ValueOf(b) \in {"function", "generic"}

\* object_accepts_explicit_method.
AcceptsMethod(b) ==
  IsFunctionBlock(b) \/ (ValueOf(b) = "alias" /\ ~IsProvenNonFunction(code, b.fact))

\* registration_matches: the different pairs registered for the object.
Pairs(b) ==
  IF Object(b) = NoName THEN {}
  ELSE {[generic |-> r.says.generic, class |-> r.says.class] :
          r \in {r \in Range(registrations) :
                   HasName(r.says) /\ r.says.target.name = Object(b)}}

\* @method, whose words may be in any spelling.
Declared(b) == [generic |-> b.method.generic.name, class |-> b.method.class.name]

Method(b) ==
  IF Declared(b) # NoMethod THEN Declared(b)
  ELSE IF Cardinality(Pairs(b)) = 1 THEN CHOOSE p \in Pairs(b) : TRUE
  ELSE NoMethod

Class(b) == IF b.fact = None THEN None ELSE s7[b.fact]
IsSupported(class) == class # None /\ code.facts[class].value = "s7"

\* Mutant: an alias of a function has no usage.
HasUsage_NoAlias(b) ==
  \/ IsFunctionBlock(b) \/ ValueOf(b) = "environment"
  \/ ValueOf(b) \in {"alias", "s7", "refused"} /\ IsSupported(Class(b))

\* resolve_usage.
HasUsage(b) ==
  \/ IsFunctionBlock(b) \/ ValueOf(b) = "environment"
  \/ ValueOf(b) \in {"alias", "s7", "refused"} /\ IsSupported(Class(b))
  \/ ValueOf(b) = "alias" /\ Formals(code, b.fact) # None

TagKinds(b) == {b.tags[k].kind : k \in DOMAIN b.tags}
IsNull(tag) == tag.kind = "exportS3Method" /\ tag.words = <<Word(<<"NULL">>, "plain")>>

IsUnsettled(b) ==
  /\ IsFunctionBlock(b) /\ \E k \in DOMAIN b.tags : IsNull(b.tags[k])
  /\ Declared(b) = NoMethod /\ Pairs(b) = {}
IsAmbiguous(b) == Declared(b) = NoMethod /\ Cardinality(Pairs(b)) > 1
IsUnexported(b) ==
  /\ Pairs(b) # {} /\ ~IsAmbiguous(b)
  /\ TagKinds(b) \cap {"export", "exportS3Method"} = {}

BlockReports(b) ==
  (IF IsUnsettled(b) THEN {"unresolved-s3-method-metadata"} ELSE {}) \cup
  (IF IsAmbiguous(b) THEN {"ambiguous-s3-registration"} ELSE {}) \cup
  (IF IsUnexported(b) THEN {"unexported-s3-method"} ELSE {}) \cup
  (IF Class(b) # None /\ ~IsSupported(Class(b)) THEN {"unsupported-s7"} ELSE {})

\* One turn of build_package_model_inner, with merge_block's usage.
MergeBlock ==
  LET b == input.blocks[at] IN
  /\ Busy("merge")
  /\ requests' = requests \o
       [k \in DOMAIN b.tags |-> [tag |-> b.tags[k], block |-> at]]
  /\ reports' = reports \cup IF b.documented THEN Reports(at, BlockReports(b)) ELSE {}
  /\ usages' = IF ~b.documented THEN usages
               ELSE Append(usages, [block |-> at, object |-> Object(b), method |-> Method(b),
                                    generated |-> HasUsage(b)])
  /\ reexports' = IF b.documented /\ IsReexport(b)
                       /\ ~\E x \in Range(reexports) : x.package = b.package /\ x.member = b.member
                  THEN Append(reexports, [package |-> b.package, member |-> b.member])
                  ELSE reexports
  /\ Advance
  /\ UNCHANGED <<analyzer, registrations, known, s7, result>>

-----------------------------------------------------------------------------
(* classify_usage_methods: a method that is there already stays *)

Classifying == \E s \in ClassifyStages : Busy(s)
\* Mutant: what was classified before is classified again.
ToClassify_Again(u) ==
  Method(input.blocks[u.block]) = NoMethod /\ u.generated /\ u.object # NoName

ToClassify(u) == u.method = NoMethod /\ u.generated /\ u.object # NoName

SkipUsage ==
  /\ Classifying /\ Idle /\ ~ToClassify(usages[at])
  /\ Advance
  /\ UNCHANGED <<analyzer, model, result, reports>>

ClassifyUsage ==
  /\ Classifying /\ Idle /\ ToClassify(usages[at])
  /\ Analyze(usages[at].object)
  /\ UNCHANGED <<input, stage, at, model, result, reports>>

TakeUsageVerdict ==
  /\ Classifying /\ object # NoName /\ verdict # "none"
  /\ usages' = IF verdict = "method" THEN [usages EXCEPT ![at].method = Candidate] ELSE usages
  /\ Dismiss /\ Advance
  /\ UNCHANGED <<registrations, known, s7, requests, reexports, result, reports>>

-----------------------------------------------------------------------------
(* Words and directives *)

\* decode_word, and the constructors that refuse an empty value.
Decodes(w) == w.spelling # "broken" /\ (w.package # "" \/ w.name # Empty)
AllDecode(ws) == \A w \in Range(ws) : Decodes(w)
HasComma(ws) == \E w \in Range(ws) : w.spelling = "comma"
IsHere(w) == w.package = "" /\ w.name = input.here

\* quote_name.
Rendered(w) ==
  [w EXCEPT !.spelling =
     IF w.package # "" \/ w.name \notin Syntactic THEN "quoted" ELSE "plain"]
Named(n) == Rendered(Word(n, "plain"))

\* of: the package or generic, if there is one.
Directive(kind, of, names) == [kind |-> kind, of |-> of, names |-> names]
Each(kind, of, W) == {Directive(kind, of, <<Rendered(w)>>) : w \in W}
AllRendered(ws) == [k \in DOMAIN ws |-> Rendered(ws[k])]
S3Method(generic, class) == {Directive("S3method", generic, <<class>>)}

Lower(says) == [says |-> says, reports |-> {}]
Invalid == [says |-> {}, reports |-> {"invalid-namespace-directive"}]
SelfImport == [says |-> {}, reports |-> {"self-import"}]

\* What a tag comes to, kind by kind (collect_request).
LoweredNames(kind, ws) ==
  IF ws # <<>> /\ AllDecode(ws) THEN Lower(Each(kind, NoWord, Range(ws))) ELSE Invalid

\* Mutant: an import of the package itself is dropped.
LoweredImport_Quiet(ws) ==
  IF HasComma(ws) THEN Lower({Directive("import", NoWord, ws)})
  ELSE IF ws = <<>> \/ ~AllDecode(ws) THEN Invalid
  ELSE Lower(Each("import", NoWord, {w \in Range(ws) : ~IsHere(w)}))

LoweredImport(ws) ==
  LET kept == {w \in Range(ws) : ~IsHere(w)} IN
  IF HasComma(ws) THEN Lower({Directive("import", NoWord, ws)})
  ELSE IF ws = <<>> \/ ~AllDecode(ws) THEN Invalid
  ELSE [says |-> Each("import", NoWord, kept),
        reports |-> IF kept = Range(ws) THEN {} ELSE {"self-import"}]

LoweredFrom(kind, ws) ==
  IF Len(ws) < 2 THEN Invalid
  ELSE IF ~Decodes(Head(ws)) THEN Invalid
  ELSE IF IsHere(Head(ws)) THEN SelfImport
  ELSE IF ~AllDecode(Tail(ws)) THEN Invalid
  ELSE IF kind = "importFrom"
  THEN Lower({Directive(kind, Rendered(Head(ws)), AllRendered(Tail(ws)))})
  ELSE Lower(Each(kind, Rendered(Head(ws)), Range(Tail(ws))))

LoweredLibrary(ws) ==
  IF HasComma(ws) THEN Lower({Directive("useDynLib", NoWord, ws)})
  ELSE IF ws = <<>> \/ ~AllDecode(ws) THEN Invalid
  ELSE IF Len(ws) = 1 THEN Lower(Each("useDynLib", NoWord, Range(ws)))
  ELSE Lower(Each("useDynLib", Rendered(Head(ws)), Range(Tail(ws))))

\* An @export without words that the block alone settles.
LoweredBare(b) ==
  LET m == b.method IN
  IF Object(b) = NoName THEN Invalid
  ELSE IF Declared(b) = NoMethod THEN Lower(Each("export", NoWord, {Word(Object(b), "plain")}))
  ELSE IF ~AcceptsMethod(b) \/ ~Decodes(m.generic) \/ ~Decodes(m.class) THEN Invalid
  ELSE Lower(S3Method(Rendered(m.generic), Rendered(m.class)))

\* @exportS3Method pkg::generic for a function: the class is the rest of its name.
LoweredDerived(w, n) ==
  LET k == Len(w.name)
      class == Part(n, k + 1, Len(n)) IN
  IF /\ w.spelling = "plain" /\ w.package # "" /\ w.name # Empty
     /\ k < Len(n) /\ Part(n, 1, k) = w.name /\ class # Empty
  THEN Lower(S3Method(w, Word(class, "plain")))
  ELSE Invalid

LoweredS3Method(b, ws) ==
  IF Len(ws) = 2 THEN Lower(S3Method(ws[1], ws[2]))
  ELSE IF IsNull([kind |-> "exportS3Method", words |-> ws]) THEN Lower({})
  ELSE IF Len(ws) = 1 /\ IsFunctionBlock(b) THEN LoweredDerived(ws[1], Object(b))
  ELSE Invalid

Lowered(b, tag) ==
  LET ws == tag.words IN
  CASE tag.kind = "export" /\ ws # <<>> -> LoweredNames("export", ws)
    [] tag.kind = "export" /\ ws = <<>> -> LoweredBare(b)
    [] tag.kind = "import" -> LoweredImport(ws)
    [] tag.kind \in {"importFrom", "importClassesFrom", "importMethodsFrom"} ->
         LoweredFrom(tag.kind, ws)
    [] tag.kind = "useDynLib" -> LoweredLibrary(ws)
    [] tag.kind = "rawNamespace" ->
         IF ws = <<>> \/ \E k \in DOMAIN ws : ws[k].spelling = "broken" THEN Invalid
         ELSE Lower({Directive("raw", NoWord, ws)})
    [] tag.kind = "exportClass" /\ Len(ws) # 1 -> Invalid
    [] tag.kind = "exportMethod" /\ ws = <<>> -> Lower({})
    [] \/ tag.kind = "exportPattern" \/ (tag.kind = "exportMethod" /\ ws # <<>>)
       \/ (tag.kind = "exportClass" /\ Len(ws) = 1) -> LoweredNames(tag.kind, ws)
    [] tag.kind = "exportS3Method" -> LoweredS3Method(b, ws)

-----------------------------------------------------------------------------
(* build_namespace_inner *)

BlockOf(r) == input.blocks[r.block]
Add(says) == directives' = directives \cup {[from |-> at, says |-> s] : s \in says}

\* The import that a documented re-export needs.
NameReexport ==
  LET x == reexports[at]
      import == Directive("importFrom", Named(<<x.package>>), <<Named(x.member)>>) IN
  /\ Busy("reexport")
  /\ IF <<x.package>> = input.here
     THEN reports' = reports \cup Reports(at, {"self-import"}) /\ UNCHANGED directives
     ELSE /\ directives' = directives \cup {[from |-> NoRequest, says |-> import]}
          /\ UNCHANGED reports
  /\ Advance
  /\ UNCHANGED <<analyzer, model, warned, output>>

\* A bare @export that the analyzer has to classify.
AsksExport(r) ==
  /\ r.tag.kind = "export" /\ r.tag.words = <<>> /\ Object(BlockOf(r)) # NoName
  /\ Declared(BlockOf(r)) = NoMethod /\ ~IsReexport(BlockOf(r))

\* An @exportS3Method that needs its object to be a function.
AsksFunction(r) ==
  /\ r.tag.kind = "exportS3Method" /\ Len(r.tag.words) = 1 /\ ~IsNull(r.tag)
  /\ Object(BlockOf(r)) # NoName /\ ~IsFunctionBlock(BlockOf(r))

CollectTag ==
  LET r == requests[at]
      lowered == Lowered(BlockOf(r), r.tag) IN
  /\ Busy("collect") /\ Idle /\ ~AsksExport(r) /\ ~AsksFunction(r)
  /\ Add(lowered.says) /\ reports' = reports \cup Reports(at, lowered.reports)
  /\ Advance
  /\ UNCHANGED <<analyzer, model, warned, output>>

AskExport ==
  /\ Busy("collect") /\ Idle /\ AsksExport(requests[at])
  /\ Analyze(Object(BlockOf(requests[at])))
  /\ UNCHANGED <<input, stage, at, model, result, reports>>

\* An object that stays unresolved is reported once.
TakeExportVerdict ==
  /\ Busy("collect") /\ object # NoName /\ verdict # "none"
  /\ Add(CASE verdict = "export" -> {Directive("export", NoWord, <<Named(object)>>)}
           [] verdict = "method" -> S3Method(Named(Candidate.generic), Named(Candidate.class))
           [] verdict = "unresolved" -> {})
  /\ IF verdict = "unresolved" /\ object \notin warned
     THEN warned' = warned \cup {object}
            /\ reports' = reports \cup Reports(at, {"unresolved-s3-export"})
     ELSE UNCHANGED <<warned, reports>>
  /\ Dismiss /\ Advance
  /\ UNCHANGED <<model, output>>

AskFunction ==
  /\ Busy("collect") /\ Idle /\ AsksFunction(requests[at])
  /\ Resolve(Object(BlockOf(requests[at])))
  /\ UNCHANGED <<code, provider, inquiry, input, stage, at, model, result, reports>>

TakeFunctionAnswer ==
  LET r == requests[at]
      lowered == IF answer \in {"function", "generic"}
                 THEN LoweredDerived(r.tag.words[1], Object(BlockOf(r))) ELSE Invalid IN
  /\ Busy("collect") /\ AsksFunction(r) /\ Answered
  /\ Add(lowered.says) /\ reports' = reports \cup Reports(at, lowered.reports)
  /\ Dismiss /\ Advance
  /\ UNCHANGED <<model, warned, output>>

\* Mutant: one request of a package stands for all.
Render_One ==
  LET said == {d.says : d \in directives}
      imports == {d \in said : d.kind = "importFrom"} IN
  /\ stage = "render" /\ stage' = "done"
  /\ output' = [lines |-> said \ imports,
                imports |-> [p \in {d.of : d \in imports} |->
                               Range((CHOOSE d \in imports : d.of = p).names)]]
  /\ UNCHANGED <<analyzer, input, at, model, directives, warned, reports>>

\* Equal directives once, and all names imported from a package together.
Render ==
  LET said == {d.says : d \in directives}
      imports == {d \in said : d.kind = "importFrom"} IN
  /\ stage = "render" /\ stage' = "done"
  /\ output' = [lines |-> said \ imports,
                imports |-> [p \in {d.of : d \in imports} |->
                               UNION {Range(d.names) : d \in {d \in imports : d.of = p}}]]
  /\ UNCHANGED <<analyzer, input, at, model, directives, warned, reports>>

-----------------------------------------------------------------------------
Following(s) == Stages[1 + CHOOSE k \in DOMAIN Stages : Stages[k] = s]

\* Mutant: a stage starts where the one before it ended.
EndStage_Keep ==
  /\ stage \notin {"render", "done"} /\ at > Items(stage)
  /\ stage' = Following(stage) /\ at' = at
  /\ IF stage' \in {"reclassify", "reexport"} THEN Renew(code.installed) ELSE UNCHANGED analyzer
  /\ UNCHANGED <<input, model, result, reports>>

\* Each classification of the usages and build_namespace make an analyzer of
\* their own; only the first of them does not ask what is installed.
EndStage ==
  /\ stage \notin {"render", "done"} /\ at > Items(stage)
  /\ stage' = Following(stage) /\ at' = 1
  /\ IF stage' \in {"reclassify", "reexport"} THEN Renew(code.installed) ELSE UNCHANGED analyzer
  /\ UNCHANGED <<input, model, result, reports>>

\* The analyzer works on a question of the stage.
Analyzer == AnalyzerStep /\ UNCHANGED <<input, stage, at, model, result, reports>>

\* NAMESPACE is there, and nothing is left to do.
Built == stage = "done" /\ UNCHANGED vars

Next ==
  \/ ExtractCall \/ TrackS7 \/ ValidateTarget \/ MergeBlock
  \/ SkipUsage \/ ClassifyUsage \/ TakeUsageVerdict
  \/ NameReexport \/ CollectTag \/ AskExport \/ TakeExportVerdict
  \/ AskFunction \/ TakeFunctionAnswer
  \/ Render \/ EndStage \/ Analyzer \/ Built

Spec == Init /\ [][Next]_vars

-----------------------------------------------------------------------------
(* Properties *)

\* The walks of bindings.rs along aliases find, for every assignment, the
\* function or constant it is certain to copy, in whatever order files load.
AliasesAreCertain ==
  stage = "extract" /\ at = 1 =>
    \A i \in DOMAIN code.facts : \E t \in DOMAIN code.facts :
      /\ ComesFrom(code, Copies(code), i, t) /\ \A e \in Copies(code) : e[1] # t
      /\ LET own == OwnMeaning(code, t)
             function == own \in {"function", "generic"} IN
         /\ Formals(code, i) = IF function THEN t ELSE None
         /\ FormalNames(code, i) =
              CASE function -> <<"known", t>>
                [] code.facts[t].value = "alias" -> <<"unknown", None>>
                [] OTHER -> <<"not a function", None>>
         /\ IsProvenNonFunction(code, i) <=> own = "nonfunction"
         /\ function => IsFunction(code, i)

\* An S7 block documents the class of the last assignment, in its file, of
\* the name it copies, and none when that has become something else
\* (s7_binding_results).
S7FollowsTheLatest == \A k \in DOMAIN s7 : s7[k] = ClassOf(code, k)

\* What a registrar call is taken to register is what R would register.
RegistrationsFollowR ==
  \A x \in Range(registrations) : \E k \in DOMAIN input.signatures :
    LET call == input.calls[x.call]
        roles == input.signatures[k].roles
        given(role) == {call.arguments[i].value : i \in
                          {i \in DOMAIN call.arguments : \E j \in DOMAIN roles :
                             roles[j] = role /\ RGives(call, roles, j, i)}} IN
    /\ input.signatures[k].callee = call.callee /\ RAccepts(call, roles)
    /\ \E g \in given("generic") : g.kind = "string" /\ g.name = x.says.generic
    /\ \E c \in given("class") : c.kind = "string" /\ c.name = x.says.class
    /\ HasName(x.says) =>
         \/ \E m \in given("method") : m.kind = "symbol" /\ m.name = x.says.target.name
         \/ /\ \A m \in given("method") : m.kind = "null"
            /\ x.says.target.name = x.says.generic \o x.says.class

\* What is certain of a name for dispatch, if other packages provide the
\* generics `outside`: package code hides them.
IsProvenGeneric(n, outside) ==
  IF FactsOf(code, n) # {} THEN Means(code, n, "generic") ELSE n \in outside
IsProvenFunction(n) == Means(code, n, "function") \/ Means(code, n, "generic")
SplitsOf(n) == {[generic |-> Part(n, 1, k), class |-> Part(n, k + 1, Len(n))] : k \in 1 .. Len(n) - 1}
IsSplit(n, m) ==
  n = m.generic \o m.class /\ {m.generic, m.class} \cap {NoName, Empty} = {}

\* m is the method that n is: the split at the shortest proven generic, but
\* all.equal before any other.
IsMethod(n, m, outside) ==
  /\ IsProvenFunction(n) /\ IsSplit(n, m) /\ IsProvenGeneric(m.generic, outside)
  /\ \/ m.generic = AllEqual
     \/ \A k \in 1 .. Len(n) - 1 :
          LET other == [generic |-> Part(n, 1, k), class |-> Part(n, k + 1, Len(n))] IN
          IsSplit(n, other) /\ IsProvenGeneric(other.generic, outside)
            => k >= Len(m.generic) /\ other.generic # AllEqual
MethodsOf(n, outside) == {m \in SplitsOf(n) : IsMethod(n, m, outside)}

Says(m) == Directive("S3method", Named(m.generic), <<Named(m.class)>>)
BareExports == {k \in DOMAIN requests : AsksExport(requests[k])}
SaidOf(k) == {d.says : d \in {d \in directives : d.from = k}}

\* A bare @export becomes the S3 method its object is proven to be, a plain
\* export only of what is proven not to be one, and nothing otherwise.
ExportsAreProven ==
  stage = "done" =>
    \A k \in BareExports :
      LET n == Object(BlockOf(requests[k]))
          plain == Len(n) = 1 \/ Means(code, n, "nonfunction") IN
      SaidOf(k) = {Says(m) : m \in MethodsOf(n, code.installed)} \cup
                    (IF plain THEN {Directive("export", NoWord, <<Named(n)>>)} ELSE {})

\* What a usage and a request of its block make of an object that the author
\* has not called a method.
IsLeftToProof(b) == Method(b) = NoMethod /\ ~IsReexport(b)
Shown(u) == IF u.method = NoMethod THEN {} ELSE {Says(u.method)}
Registered(k) == {s \in SaidOf(k) : s.kind = "S3method"}

\* A usage is written as the method that its object is by the generics of the
\* package alone; if that is none, as the one it is by those installed too
\* (classify_usage_methods, which is called twice).
UsagesAreProven ==
  stage = "done" =>
    \A u \in Range(usages) :
      LET b == input.blocks[u.block]
          own == MethodsOf(Object(b), {})
          proven == IF own # {} THEN own ELSE MethodsOf(Object(b), code.installed) IN
      IsLeftToProof(b) => Shown(u) = {Says(m) : m \in proven} /\ Cardinality(proven) <= 1

\* A usage is written as a method exactly when NAMESPACE registers its object
\* as one.  It is the same method unless the usage has a generic of the
\* package and NAMESPACE an installed one that the package does not hide.
UsagesMeetNamespace ==
  stage = "done" =>
    \A u \in Range(usages), k \in BareExports :
      requests[k].block = u.block /\ IsLeftToProof(input.blocks[u.block]) =>
        \/ Registered(k) = Shown(u)
        \/ \E m \in MethodsOf(Object(input.blocks[u.block]), code.installed) :
             /\ Registered(k) = {Says(m)} /\ u.method # NoMethod
             /\ FactsOf(code, u.method.generic) # {}
             /\ FactsOf(code, m.generic) = {} /\ m.generic \in code.installed

\* What the comment on classify_usage_methods says: usages have the split that
\* NAMESPACE has (namespace/s3.rs:22).  It is not so: the first classification
\* knows no installed generic, and the second keeps what it finds.
UsageAgreesWithNamespace ==
  stage = "done" =>
    \A u \in Range(usages), k \in BareExports :
      requests[k].block = u.block /\ IsLeftToProof(input.blocks[u.block]) =>
        Registered(k) = Shown(u)

\* All walks along the bindings of a package, the analyzer's with whatever it
\* remembers and those of bindings.rs, say what R would find there, and so
\* usages and NAMESPACE, which go by both, part only over a generic of the package.
WalksAgree ==
  /\ MemoIsMeaning /\ AliasesAreCertain /\ S7FollowsTheLatest
  /\ UsagesAreProven /\ UsagesMeetNamespace

\* Every tag leads to a directive or a report, save NULL, which asks for
\* nothing, and an object that has been reported already.
EveryRequestIsAccounted ==
  stage = "done" =>
    \A k \in DOMAIN requests :
      \/ SaidOf(k) # {} \/ IsNull(requests[k].tag)
      \/ \E r \in reports : r.stage = "collect" /\ r.at = k
      \/ k \in BareExports /\ \E r \in reports :
           /\ r.stage = "collect" /\ r.what = "unresolved-s3-export" /\ r.at < k
           /\ Object(BlockOf(requests[r.at])) = Object(BlockOf(requests[k]))

\* NAMESPACE imports from a package, in one place, exactly the names that the
\* valid tags and the documented re-exports ask of it, and never from itself.
ImportsAreUnited ==
  LET ofTag(t) == IF t.kind = "importFrom" /\ Len(t.words) > 1 /\ AllDecode(t.words)
                  THEN {<<t.words[1].name, t.words[j].name>> : j \in 2 .. Len(t.words)} ELSE {}
      tags == UNION {ofTag(requests[k].tag) : k \in DOMAIN requests}
      blocks == {<<<<b.package>>, b.member>> :
                   b \in {b \in Range(input.blocks) : IsReexport(b) /\ b.documented}}
      wanted == {w \in tags \cup blocks : w[1] # input.here} IN
  stage = "done" =>
    /\ wanted = UNION {{<<p.name, w.name>> : w \in output.imports[p]} : p \in DOMAIN output.imports}
    /\ \A l \in output.lines : l.kind = "import" /\ ~HasComma(l.names) => ~IsHere(l.names[1])

\* Nothing that is asked of NAMESPACE is lost on the way there.
RequestsReachNamespace == EveryRequestIsAccounted /\ ImportsAreUnited
=============================================================================
