------------------------------ MODULE RdTopics ------------------------------
(***************************************************************************)
(* topic::build: one resolved topic becomes one Rd document, or            *)
(* diagnostics that say why not.                                           *)
(*                                                                         *)
(* A field that may be missing is a sequence of at most one content.  A    *)
(* content is what its conversion finds and leaves: the inline R           *)
(* expressions met, each with its place, the diagnostics of other          *)
(* constructs, and the nodes it becomes; examples are their source.  Names *)
(* are sequences of tokens: a token of Words is itself, "." a dot, an      *)
(* operator is spelled out, any other is unusable in a file name.          *)
(* What is said of one topic is a set: nothing looks at its order.         *)
(***************************************************************************)
EXTENDS ExampleMacros

CONSTANTS Words,     \* tokens a file name keeps
          Spelling   \* operator token -> what the table replaces it by

ASSUME WordsAssumption == "." \notin Words /\ "-" \notin Words
ASSUME SpellingAssumption ==
  \A op \in DOMAIN Spelling :
    op \notin Words /\ \A i \in DOMAIN Spelling[op] : Spelling[op][i] \in Words \cup {"-"}

Diagnostic(severity, code, place) ==
  [severity |-> severity, code |-> code, place |-> place]
HasErrors(diagnostics) == \E d \in diagnostics : d.severity = "Error"

-----------------------------------------------------------------------------
(* File names *)

\* nice_name: operators by the table, the unusable as a hyphen, then runs of
\* hyphens as one, none at the ends, and "dot-" for a leading dot.
NiceName(name) ==
  LET Spelled(t) == IF t \in Words \cup {"."} THEN <<t>>
                    ELSE IF t \in DOMAIN Spelling THEN Spelling[t]
                    ELSE <<"-">>
      value == FlattenSeq([i \in DOMAIN name |-> Spelled(name[i])])
      Push(cleaned, t) ==
        IF t = "-" /\ (cleaned = <<>> \/ Last(cleaned) = "-") THEN cleaned
        ELSE Append(cleaned, t)
      pushed == FoldLeft(Push, <<>>, value)
      cleaned == IF pushed # <<>> /\ Last(pushed) = "-" THEN Front(pushed) ELSE pushed
  IN IF cleaned # <<>> /\ Head(cleaned) = "." THEN <<"dot", "-">> \o Tail(cleaned)
     ELSE cleaned

\* output_path: <<>> when nothing of the name is left.
OutputPath(key) == LET name == NiceName(key) IN IF name = <<>> THEN <<>> ELSE <<name>>

\* anchor: where a diagnostic about the whole topic points, if anywhere.
Anchored(t) ==
  \/ t.title # <<>> \/ t.aliases > 0 \/ t.description # <<>> \/ t.note # <<>>
  \/ t.author # <<>> \/ t.blocks > 0

-----------------------------------------------------------------------------
(* Contents *)

Content ==
  [form : {"Markdown", "Rd", "RCode", "Examples"}, nodes : Seq(Node), source : Seq(STRING),
   conditional : BOOLEAN,
   inline : SUBSET [expr : STRING, place : Seq(STRING)],
   problems : SUBSET [severity : {"Error", "Warning"}, code : STRING, place : Seq(STRING)],
   place : Seq(STRING)]
RichText == {c \in Content : c.form # "Examples"}
\* A field, an item of which there is at most one.
Optional(S) == {s \in Seq(S) : Len(s) <= 1}
RdTopic ==
  [key : Seq(STRING), kind : STRING, docType : BOOLEAN, docTypeSuppressed : BOOLEAN,
   kindConflict : BOOLEAN, blocks : Nat, aliases : Nat, reexports : Seq(Nat \ {0}),
   keywords : Nat, title : Optional(RichText), description : Optional(RichText),
   descriptionSuppressed : BOOLEAN, details : Optional(RichText), value : Optional(RichText),
   examples : Optional(Content), usages : Seq(UsageContribution),
   params : Seq([names : Seq(Node), content : RichText]),
   sections : Seq([title : RichText, body : RichText]), seeAlso : Optional(RichText),
   references : Optional(RichText), note : Optional(RichText), format : Optional(RichText),
   formatExpected : BOOLEAN, source : Optional(RichText), author : Optional(RichText),
   packageAuthor : Optional(PackageAuthor),
   packageSeeAlso : Optional([urls : Nat, bugs : BOOLEAN]),
   metadata : [undescribed : BOOLEAN, badAuthors : BOOLEAN]]

\* RawRdIssue::code
IssueCode(issue) ==
  IF issue.as = "Unterminated" THEN "UnterminatedRawRdMacro" ELSE "UnsupportedRawRdMacro"

\* resolved_fragment: Markdown meets inline R and other constructs, examples
\* are scanned for raw Rd; R code and inherited Rd are taken as they are.
\* Table: the expressions that have a substitution.
Found(content, Table) ==
  CASE content.form = "Markdown" ->
         content.problems
           \cup {Diagnostic("Error", "UndefinedInlineRSubstitution", e.place) :
                   e \in {met \in content.inline : met.expr \notin Table}}
    [] content.form = "Examples" ->
         {Diagnostic("Error", IssueCode(issue), content.place) :
            issue \in Lower(content.source).issues}
    [] OTHER -> {}
LookedUp(content) ==
  IF content.form = "Markdown" THEN {e.expr : e \in content.inline} ELSE {}

\* trim_inherited_rd_nodes
Trimmed(content) ==
  IF content.form # "Rd" THEN content.nodes
  ELSE TrimTopLevel(TrimTopLevel(TrimTopLevel(content.nodes, "Text"), "RCode"), "Verb")

NodesIn(content) ==
  IF content.form = "Examples" THEN Lower(content.source).nodes
  ELSE content.nodes

\* The contents build converts, in its order.
Converted(t) ==
  t.title \o t.format \o t.source
    \o [i \in DOMAIN t.params |-> t.params[i].content]
    \o t.value \o t.description \o t.details \o t.note
    \o FlattenSeq([i \in DOMAIN t.sections |-> <<t.sections[i].title, t.sections[i].body>>])
    \o t.examples \o t.references \o t.seeAlso \o t.author

ContentsOf(t) == {Converted(t)[i] : i \in DOMAIN Converted(t)}

-----------------------------------------------------------------------------
(* build *)

SaidIf(condition, diagnostic) == IF condition THEN {diagnostic} ELSE {}
\* What is said before the title is looked at.
Warnings(t) ==
  SaidIf(t.kind = "Data" /\ t.format = <<>> /\ ~ t.kindConflict /\ t.formatExpected,
      Diagnostic("Warning", "MissingDataFormat", t.key))
  \cup SaidIf(t.metadata.undescribed /\ t.description = <<>>,
           Diagnostic("Warning", "MissingPackageDescription", t.key))
  \cup SaidIf(t.metadata.badAuthors /\ t.author = <<>>,
           Diagnostic("Warning", "PackageAuthorsParse", t.key))

\* Mutant: an unusable name is no error.
Refusal_Quiet(t) ==
  SaidIf(t.title = <<>>, Diagnostic("Error", "MissingTopicTitle", t.key))
\* What keeps a topic from being built at all.
Refusal(t) ==
  IF t.title = <<>>
  THEN SaidIf(Anchored(t), Diagnostic("Error", IF t.kind = "Package" THEN "MissingPackageTitle"
                                            ELSE "MissingTopicTitle", t.key))
  ELSE SaidIf(OutputPath(t.key) = <<>>, Diagnostic("Error", "UnnameableRdFile", t.key))
Refused(t) == t.title = <<>> \/ OutputPath(t.key) = <<>>

Field(field) == [i \in DOMAIN field |-> Spaced(Trimmed(field[i]), "Text")]
One(condition, node) == IF condition THEN <<node>> ELSE <<>>

\* The description: the topic's own, the links of reexports, or the title
\* again unless NULL suppressed it.
DescriptionSection(t) ==
  IF t.description # <<>> THEN Field(t.description)
  ELSE IF t.reexports # <<>> THEN <<ReexportSection(t.reexports)>>
  ELSE One(~ t.descriptionSuppressed, Spaced(Trimmed(t.title[1]), "Text"))

\* The sections in the order of the file.  SeeAlso and author fall back to
\* what DESCRIPTION has for the package topic.
Roots(t) ==
  LET single(nodes) == FlattenSeq([i \in DOMAIN nodes |-> Placed(nodes[i], FALSE)])
      named == [i \in DOMAIN t.sections |->
                  NamedSection(t.sections[i].title.nodes, t.sections[i].body.nodes)]
      example(c) == IF c.form = "Examples" THEN ExamplesNodes([conditional |-> c.conditional,
                                                               body |-> NodesIn(c)])
                    ELSE Trimmed(c)
      docType == t.docType \/ (~ t.docTypeSuppressed /\ t.kind \in {"Package", "Data"})
  IN single(One(docType, Plain(<<Word("Text")>>, "Text"))
              \o <<Plain(<<Word("Verb")>>, "Verb")>>
              \o [i \in 1 .. t.aliases |-> Plain(<<Word("Verb")>>, "Verb")]
              \o <<Plain(t.title[1].nodes, "Text")>>
              \o Field(t.format) \o Field(t.source)
              \o UsageSection(t.usages)
              \o (IF t.params # <<>>
                  THEN <<ArgumentsSection([i \in DOMAIN t.params |->
                           [names |-> t.params[i].names,
                            description |-> t.params[i].content.nodes]])>>
                  ELSE <<>>)
              \o Field(t.value) \o DescriptionSection(t)
              \o Field(t.details) \o Field(t.note))
     \o FlattenSeq([i \in DOMAIN named |-> Placed(named[i], TRUE)])
     \o single([i \in DOMAIN t.examples |-> Spaced(example(t.examples[i]), "RCode")]
              \o Field(t.references)
              \o (IF t.seeAlso = <<>> THEN [i \in DOMAIN t.packageSeeAlso |->
                                              SeeAlsoSection(t.packageSeeAlso[i])]
                  ELSE Field(t.seeAlso))
              \o (IF t.author = <<>> THEN [i \in DOMAIN t.packageAuthor |->
                                             AuthorSection(t.packageAuthor[i])]
                  ELSE Field(t.author))
              \o [i \in 1 .. t.keywords |-> Plain(<<Word("Text")>>, "Text")])

\* The document is written only if nothing in it was an error; what the
\* writer refuses is one more.
Build(t, Table) ==
  LET found == UNION {Found(c, Table) : c \in ContentsOf(t)}
      written == Representable(Roots(t))
  IN IF Refused(t)
     THEN [diagnostics |-> Warnings(t) \cup Refusal(t), looked |-> {}, path |-> <<>>]
     ELSE [diagnostics |-> Warnings(t) \cup found
                             \cup SaidIf(~ HasErrors(found) /\ ~ written,
                                      Diagnostic("Error", "RdSerializationFailed", t.key)),
           looked |-> UNION {LookedUp(c) : c \in ContentsOf(t)},
           path |-> IF ~ HasErrors(found) /\ written THEN OutputPath(t.key) ELSE <<>>]

=============================================================================
