------------------------------ MODULE MCDocRun ------------------------------
(* Small packages for DocRun: names that share a file, diagnostics of every *)
(* stage, inline R in shared contents, and the pieces of every section.     *)
EXTENDS DocRun, TLC, FiniteSetsExt

MCWords == {"a", "dot", "eq"}
MCSpelling == ("=" :> <<"-", "eq", "-">>) @@ ("==" :> <<"-", "eq", "-">>)
MCBuiltins == {"badge"}

Prose(nodes) ==
  [form |-> "Markdown", inline |-> {}, problems |-> {}, nodes |-> nodes,
   conditional |-> FALSE, source |-> <<>>, place |-> <<"?">>]
Plainly == Prose(<<Word("Text")>>)
Inline(expr, place) == [Plainly EXCEPT !.inline = {[expr |-> expr, place |-> <<place>>]}]

Topic(key) ==
  [key |-> key, kind |-> "Ordinary", docType |-> FALSE, docTypeSuppressed |-> FALSE,
   aliases |-> 1, blocks |-> 1, title |-> <<Plainly>>, format |-> <<>>, source |-> <<>>,
   usages |-> <<>>, params |-> <<>>, value |-> <<>>, description |-> <<>>,
   descriptionSuppressed |-> FALSE, reexports |-> <<>>, details |-> <<>>, note |-> <<>>,
   sections |-> <<>>, examples |-> <<>>, references |-> <<>>, seeAlso |-> <<>>,
   author |-> <<>>, packageSeeAlso |-> <<>>, packageAuthor |-> <<>>, keywords |-> 0,
   kindConflict |-> FALSE, formatExpected |-> FALSE,
   metadata |-> [undescribed |-> FALSE, badAuthors |-> FALSE]]

Package(topics) ==
  [inputs |-> "fine", config |-> "fine", user |-> {}, files |-> <<{}>>, model |-> {},
   inherit |-> {}, keyed |-> {}, topics |-> topics, namespace |-> {}]

-----------------------------------------------------------------------------
(* Names.  Three become "a", two "eq", two "dot-a", one nothing. *)
Names == << <<"a">>, <<"a", " ">>, <<" ", "a">>, <<"=">>, <<"==">>, <<".", "a">>,
            <<"dot", "-", "a">>, <<" ">> >>

Unwritable == Prose(<<[Word("Text") EXCEPT !.ok = FALSE]>>)
Variant(key, v) ==
  CASE v = "fine" -> Topic(key)
    [] v = "untitled" -> [Topic(key) EXCEPT !.title = <<>>]
    [] v = "undefined" -> [Topic(key) EXCEPT !.details = <<Inline("x", "shared")>>]
    [] v = "unwritable" -> [Topic(key) EXCEPT !.note = <<Unwritable>>]

Packed(chosen, v) ==
  LET order == SetToSortSeq(chosen, LAMBDA i, j : i < j)
  IN Package([i \in DOMAIN order |-> Variant(Names[order[i]], v[i])])
NamesOf(n, Variants) ==
  {Packed(chosen, v) : chosen \in kSubset(n, DOMAIN Names), v \in [1 .. n -> Variants]}

-----------------------------------------------------------------------------
(* Stages.  Each may warn or fail. *)
Said == {{}, {Diagnostic("Warning", "w", <<"w">>)},
         {Diagnostic("Error", "e", <<"e">>), Diagnostic("Warning", "w", <<"w">>)}}
Warned == {[Topic(<<"a">>) EXCEPT !.kind = "Data", !.formatExpected = TRUE],
           [Topic(<<"a">>) EXCEPT !.kind = "Package", !.metadata.undescribed = TRUE,
                                  !.metadata.badAuthors = TRUE],
           Variant(<<"a">>, "undefined")}
Stages ==
  {[Package(<<t>>) EXCEPT !.files = <<f, g>>, !.model = m, !.inherit = h, !.namespace = n] :
     t \in Warned, f \in Said, g \in Said, m \in Said, h \in Said, n \in Said}
Starts ==
  {[Package(<<Topic(<<"a">>)>>) EXCEPT !.inputs = i, !.config = c] :
     i \in {"fine", "unreadable"}, c \in {"none", "fine", "unreadable", "invalid"}}

-----------------------------------------------------------------------------
(* Inline R.  Two topics, contents of their own and one they share. *)
Exprs == {"u", "v", "badge", "x"}
Dynamic == [Plainly EXCEPT !.problems = {Diagnostic("Error", "UnsupportedInlineR", <<"shared">>)}]
Bodies == {<<>>, <<Dynamic>>} \cup {<<Inline(e, "shared")>> : e \in Exprs}
Mine(e, key, title) ==
  [Topic(key) EXCEPT !.title = IF title THEN <<Plainly>> ELSE <<>>,
                     !.description = <<Inline(e, key[1])>>]
Inlined ==
  {[Package(<<[Mine(e, <<"a">>, s) EXCEPT !.details = b], [Topic(<<"eq">>) EXCEPT !.value = d]>>)
      EXCEPT !.user = u, !.keyed = k] :
     e \in {"u", "badge", "x"}, s \in BOOLEAN, b \in Bodies, d \in Bodies,
     u \in {{}, {"u", "v"}, {"badge", "u"}}, k \in {{}, {"v", "x"}}}

-----------------------------------------------------------------------------
(* Pieces.  What a content may be, and each section with every one of them. *)
Written == {<<>>, <<Word("Text")>>, <<Line("Text"), Word("Text")>>, <<Line("Text")>>,
            <<Holding(<<>>)>>, <<Word("Text"), Holding(<<>>), Word("Text")>>,
            <<Line("Text"), NewlineLeaf("Text"), Word("Text")>>}
Contents ==
  {Prose(n) : n \in Written}
    \cup {[Prose(n) EXCEPT !.form = "Rd"] :
            n \in Written \cup {<<NewlineLeaf("Text"), Line("Text"), Blank>>,
                                <<Blank, Line("RCode"), NewlineLeaf("RCode")>>,
                                <<NewlineLeaf("Verb"), Word("Text")>>, <<NewlineLeaf("Text")>>}}
\* Examples as R source, or what another topic had.
Tokens == { <<"c">>, <<"nl">>, <<"\\", "dontrun", "{">>, <<"\\", "dontshow", "{">>,
            <<"\\", "x">>, <<"{">>, <<"}">> }
More == { <<"\\">>, <<"\\", "(">>, <<"[">>, <<"]">>, <<"text{">>, <<"text}">>, <<"text\\">> }
Sources == {FlattenSeq(s) : s \in [1 .. 3 -> Tokens \cup More] \cup [1 .. 5 -> Tokens]}
Code(source, conditional) ==
  [Prose(<<>>) EXCEPT !.form = "Examples", !.source = source, !.conditional = conditional,
                      !.place = <<"ex">>]
Examples == {Code(s, FALSE) : s \in Sources}
              \cup {Code(FlattenSeq(s), TRUE) : s \in [1 .. 2 -> Tokens] \cup {<<>>}}
              \cup {[Prose(n) EXCEPT !.form = "Rd"] :
                      n \in {<<>>, <<Word("RCode")>>, <<Line("RCode"), Word("RCode")>>,
                             <<Word("RCode"), Holding(<<>>)>>,
                             <<Holding(<<>>), NewlineLeaf("RCode")>>}}
Texts == {[lines |-> 0, ends |-> FALSE], [lines |-> 1, ends |-> FALSE],
          [lines |-> 2, ends |-> FALSE], [lines |-> 2, ends |-> TRUE]}
Usages == {[form |-> f, method |-> m, text |-> x] :
             f \in {"Generated", "Explicit", "Suppressed"}, m \in BOOLEAN, x \in Texts}
Groups == {[names |-> n, content |-> c] :
             n \in {<<Word("Text")>>, <<Line("Text")>>, <<Holding(<<>>)>>}, c \in Contents}
People == {[name |-> Text, email |-> e, identities |-> i, comments |-> c, roles |-> r] :
             e \in BOOLEAN, i \in 0 .. 2, r \in BOOLEAN,
             c \in {<<>>, <<[label |-> <<>>, value |-> Text]>>,
                    <<[label |-> <<Text>>, value |-> Text], [label |-> <<>>, value |-> Text]>>}}
OnePerson == CHOOSE p \in People : p.email /\ p.identities = 2
Authors ==
  {[maintainers |-> m, authors |-> a, others |-> o] :
     m \in {<<>>, <<OnePerson>>}, a \in {<<>>} \cup {<<p>> : p \in People},
     o \in {<<>>, <<OnePerson, OnePerson>>}}
Pkg0 == [Topic(<<"a">>) EXCEPT !.kind = "Package"]
T0 == Topic(<<"a">>)
Composed ==
  { {[T0 EXCEPT !.title = <<c>>] : c \in Contents},
    {[T0 EXCEPT !.details = <<c>>, !.references = <<c>>, !.keywords = 2] : c \in Contents},
    {[T0 EXCEPT !.sections = <<[title |-> c, body |-> d]>>] : c \in Contents, d \in Contents},
    {[T0 EXCEPT !.usages = <<u, v>>] : u \in Usages, v \in Usages},
    {[T0 EXCEPT !.params = <<g, h>>] :
             g \in Groups, h \in {x \in Groups : x.content.form = "Markdown"
                                             /\ x.names = <<Line("Text")>>}},
    {[T0 EXCEPT !.examples = <<c>>] : c \in Examples},
    {[T0 EXCEPT !.reexports = l, !.descriptionSuppressed = s] :
            l \in {<<>>, <<1>>, <<2, 1>>}, s \in BOOLEAN},
    {[Pkg0 EXCEPT !.packageAuthor = <<a>>] : a \in Authors},
    {[Pkg0 EXCEPT !.packageSeeAlso = <<[urls |-> n, bugs |-> b]>>] :
            n \in 0 .. 2, b \in BOOLEAN} }

MCFamilies ==
  { NamesOf(3, {"fine", "untitled", "undefined", "unwritable"}), NamesOf(4, {"fine", "undefined"}),
    Stages, Starts, Inlined } \cup {{Package(<<t>>) : t \in family} : family \in Composed}

\* A name or a comment of a person with a line break in it.
BrokenPeople ==
  {{Package(<<[Pkg0 EXCEPT !.packageAuthor =
                <<[maintainers |-> <<[OnePerson EXCEPT !.comments = c]>>,
                   authors |-> <<>>, others |-> <<>>]>>]>>) :
     c \in {<<[label |-> <<>>, value |-> Text]>>, <<[label |-> <<>>, value |-> Broken]>>}}}
=============================================================================
