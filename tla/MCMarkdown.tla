----------------------------- MODULE MCMarkdown -----------------------------
(* Documents for Markdown, put together from pieces: the characters of the *)
(* source and the events the Markdown parser has for them.                 *)
EXTENDS Markdown, TLC

Nothing == [form |-> "none"]
Ev(type, tag, from, to, plain, of) ==
  [type |-> type, tag |-> tag, from |-> from, to |-> to, plain |-> plain, of |-> of]
Shift(events, by) ==
  [i \in DOMAIN events |-> [events[i] EXCEPT !.from = @ + by, !.to = @ + by]]
Then(p, q) ==
  [source |-> p.source \o q.source, events |-> p.events \o Shift(q.events, Len(p.source))]
Gap(source) == [source |-> source, events |-> <<>>]
All(pieces) == FoldLeft(Then, Gap(<<>>), pieces)
\* A construct around a piece, between characters of its own.
Around(tag, of, left, piece, right) ==
  LET inner == All(<<Gap(left), piece, Gap(right)>>)
      end == Len(inner.source) + 1
  IN [source |-> inner.source,
      events |-> <<Ev("Start", tag, 1, end, TRUE, of)>> \o inner.events
                   \o <<Ev("End", tag, 1, end, TRUE, of)>>]
Single(type, source, plain, of) ==
  [source |-> source, events |-> <<Ev(type, "", 1, Len(source) + 1, plain, of)>>]
Words(source) == Single("Text", source, TRUE, Nothing)

-----------------------------------------------------------------------------
(* Inline pieces *)
X == Words(<<"x">>)
Entity == Single("Text", <<"&", ";">>, FALSE, Nothing)
Escape == All(<<Gap(<<"\\">>), Words(<<"{">>)>>)
Break == Single("Break", <<"nl">>, TRUE, Nothing)
CodeOf(form) == Single("Code", <<"tick", "x", "tick">>, TRUE, [form |-> form])
Tagged0 == Single("Html", <<"<", "\\", "R", ">">>, TRUE, Nothing)
Emph(piece) == Around("Emphasis", Nothing, <<"*">>, piece, <<"*">>)
Image == Around("Image", Nothing, <<"!", "[">>, X, <<"]">>)
Link(of, piece) == Around("Link", of, <<"[">>, piece, <<"]", "\\", "R">>)
Autolink == Around("Link", [form |-> "autolink"], <<"<">>, Words(<<"\\", "R">>), <<">">>)
Core == {X, Words(<<"x", "\\", "R", " ">>), Words(<<"\\", "eqn", "{">>), Words(<<"}">>), Escape, Break,
         CodeOf("code"), Emph(X), Tagged0, Entity}
More == {Words(<<"{">>), Words(<<"\\", "x", "{">>), Words(<<"\\">>), Words(<<"\\", "eqn", "[">>), Words(<<"]", "{">>), Words(<<"\\", "tab">>),
         Emph(Words(<<"}">>)), Emph(Words(<<"\\", "R">>)), Image, Autolink, Link([form |-> "url"], X),
         Link([form |-> "same"], All(<<X, Break>>))}
         \cup {CodeOf(f) : f \in {"verb", "substituted", "undefined", "Rd"}}
Para(pieces) == Around("Paragraph", Nothing, <<>>, All(pieces), <<"nl">>)
Doc(p) == [source |-> p.source, events |-> p.events]
SeqsOf(n, S) == [1 .. n -> S]

Inline3 == {Doc(Para(s)) : s \in SeqsOf(3, Core \cup More)}
Inline4 == {Doc(Para(s)) : s \in SeqsOf(4, Core)}

\* Help links: a label that repeats its target, and every label with others.
Name(package, suffix) == package \o <<"x">> \o suffix
Names == {Name(p, s) : p \in {<<>>, <<"self", "::">>, <<"other", "::">>}, s \in {<<>>, <<"-class">>, <<"()">>}}
Odd == {<<"x", "]">>, <<"self", "::", "x", "control", "-class">>, <<"x", "nl", "x">>, <<"-class">>,
        <<"tick", "tick", "x", "tick", "tick">>, <<"self", "::", "-class">>}
Labels ==
  {Words(n) : n \in Names \cup {<<"-class">>, <<"self", "::", "-class">>, <<"x", "\\", "R">>}}
  \cup {CodeOf("code"), CodeOf("verb"), CodeOf("substituted"), Emph(X), All(<<X, Break, X>>),
        All(<<Words(<<"self", "::">>), Emph(X)>>), All(<<X, Words(<<"\\", "eqn", "{", "-class", "}">>)>>),
        All(<<Words(<<"self", "::">>), Image, Words(<<"-class">>)>>)}
HelpLink(target, resolution, label) ==
  Link([form |-> "topic", target |-> target, resolution |-> resolution], label)
Links ==
  {Doc(Para(<<X, HelpLink(t, r, l), X>>)) :
     t \in Names \cup Odd, r \in {"Local", "External", "Ambiguous"}, l \in Labels}
  \cup {Doc(Para(<<X, HelpLink(l.source, r, l), X>>)) : r \in {"Local", "External"}, l \in Labels}

-----------------------------------------------------------------------------
(* Blocks *)
P == Para(<<X>>)
Macro == Para(<<Words(<<"\\", "R">>)>>)
Heading(n) == Around(n, Nothing, <<"#">>, X, <<"nl">>)
Quote(p) == Around("BlockQuote", Nothing, <<">">>, p, <<>>)
CodeBlock(of) == Around("CodeBlock", of, <<"tick">>, Words(<<"x", "\\", "R", "{">>), <<"tick">>)
HtmlBlock == Around("HtmlBlock", [form |-> "html"], <<>>, Tagged0, <<"nl">>)
Item(p) == Around("Item", Nothing, <<"-">>, p, <<>>)
List(tag, of, items) == Around(tag, of, <<>>, All(items), <<>>)
Tight == List("Itemize", Nothing, <<Item(X), Item(X)>>)
Dashes == Single("Rule", <<"-", "-">>, TRUE, Nothing)
Cell(p) == Around("TableCell", Nothing, <<"|">>, p, <<>>)
Table ==
  Around("Table", [form |-> "table", width |-> 2], <<>>,
         All(<<Around("TableHead", Nothing, <<>>, All(<<Cell(X), Cell(Gap(<<" ">>))>>), <<"nl">>),
               Around("TableRow", Nothing, <<>>, All(<<Cell(Emph(X)), Cell(X)>>), <<"nl">>)>>),
         <<"nl">>)
Nested == List("Enumerate", [form |-> "late"], <<Item(All(<<X, Tight>>)), Item(All(<<P, Table, P>>))>>)
Mixed == List("Itemize", Nothing, <<Item(All(<<X, CodeBlock(Nothing)>>)), Item(Heading("Heading2"))>>)

Sections == {P, Heading("Heading1"), Heading("Heading2"), Heading("Heading3"), Dashes}
Shapes == Sections \cup {Macro, Tight, Table, Nested, Mixed, HtmlBlock, Quote(P), Quote(Heading("Heading2")),
                         Quote(Tight), CodeBlock(Nothing), CodeBlock([form |-> "executable"])}
BlocksOf3 == {Doc(All(s)) : s \in SeqsOf(3, Shapes)}
BlocksOf5 == {Doc(All(s)) : s \in SeqsOf(5, Sections)}

MCFamilies == {Inline3, Inline4, Links, BlocksOf3, BlocksOf5}
=============================================================================
