------------------------------ MODULE Markdown ------------------------------
(***************************************************************************)
(* Converter (markdown_conversion): one pass over the events of the        *)
(* Markdown parser with a stack of frames, from which the nodes of an Rd   *)
(* fragment grow; raw Rd macros are spliced in on the way.                 *)
(*                                                                         *)
(* A character of the source is known in the output by its position; a     *)
(* macro, a decoded character and a substituted span by the position they  *)
(* start at.  What the converter adds is a newline or a space.  A node     *)
(* keeps its kind, its text (a tagged node that of its children) and       *)
(* whether the writer accepts its children.                                *)
(*                                                                         *)
(* The target of a help link is a sequence of characters, as the source    *)
(* is: "self" and "other" stand for the names of packages, and "::", "()"  *)
(* and "-class" for themselves.                                            *)
(***************************************************************************)
EXTENDS RawRd

CONSTANT Families   \* sets of documents: [source, events]

NewLine == 0
Blank == -1

VARIABLES doc,        \* constant through a conversion
          at,         \* events handled
          frames, next, diagnosed,
          fragment    \* <<>>, or the nodes

vars == <<doc, at, frames, next, diagnosed, fragment>>

-----------------------------------------------------------------------------
(* Nodes *)

Leaves == {"Text", "Verb", "RCode"}
Leaf(kind, text) == [kind |-> kind, text |-> text, ok |-> text # <<>>]
Chunks(kind, text) ==
  LET lines == LinesOf(text, NewLine) IN [i \in DOMAIN lines |-> Leaf(kind, lines[i])]

\* The writer joins neighbouring leaves of one kind, unless a line ends.
Representable(nodes) ==
  /\ \A i \in DOMAIN nodes :
       /\ nodes[i].ok
       /\ nodes[i].kind \in Leaves =>
            \A j \in 1 .. Len(nodes[i].text) - 1 : nodes[i].text[j] # NewLine
  /\ \A i \in 1 .. Len(nodes) - 1 :
       nodes[i].kind \in Leaves /\ nodes[i].kind = nodes[i + 1].kind =>
         Last(nodes[i].text) = NewLine
TextOf(nodes) == FoldLeft(LAMBDA text, n : text \o n.text, <<>>, nodes)
Tagged(kind, children) ==
  [kind |-> kind, text |-> TextOf(children), ok |-> Representable(children)]

-----------------------------------------------------------------------------
(* Frames *)

None == 0  Line == 1  Paragraph == 2  Section == 3
Newlines(separator) == IF separator = Paragraph THEN <<NewLine, NewLine>> ELSE <<NewLine>>

Frame(kind) ==
  [kind |-> kind, level |-> 0, from |-> 0, of |-> [form |-> "none"], title |-> <<>>,
   cells |-> <<>>, rows |-> <<>>, pending |-> <<>>, nodes |-> <<>>, sep |-> None]
Void(frame) == frame.pending = <<>> /\ frame.nodes = <<>>

FlushPending(frame) ==
  [frame EXCEPT !.sep = None, !.pending = <<>>, !.nodes = @ \o Chunks("Text", frame.pending)]
AppendNode(frame, node) ==
  LET flushed == FlushPending(frame) IN [flushed EXCEPT !.nodes = Append(@, node)]
MaterializeSeparator(frame) ==
  [frame EXCEPT !.sep = None,
                !.pending = IF frame.sep = None \/ Void(frame) THEN @
                            ELSE @ \o Newlines(frame.sep)]
AppendPlain(frame, text) ==
  IF text = <<>> THEN frame
  ELSE LET f == MaterializeSeparator(frame) IN [f EXCEPT !.pending = @ \o text]
\* Mutant: text of a finished construct stays a leaf of its own.
AppendFlattenedNode_Apart(frame, node) == AppendNode(MaterializeSeparator(frame), node)
AppendFlattenedNode(frame, node) ==
  IF node.kind = "Text" THEN AppendPlain(frame, node.text)
  ELSE AppendNode(MaterializeSeparator(frame), node)
Flattened(frame, nodes) ==
  FoldLeft(LAMBDA f, n : AppendFlattenedNode(f, n), frame, nodes)

-----------------------------------------------------------------------------
(* Lowering of finished constructs *)

LowerList(tag, children) == Tagged(tag, <<Leaf("Text", <<NewLine>>)>> \o children)

\* lower_row: each cell between spaces, \tab between cells, \cr at the end.
LowerRow(cells, width) ==
  LET cell(i) == IF i <= Len(cells) THEN cells[i] ELSE <<>>
      put(f, i) ==
        LET led == [f EXCEPT !.pending = @ \o <<Blank>>]
            filled == Flattened(led, cell(i))
            ended == FlushPending([filled EXCEPT !.pending = Append(@, Blank)])
        IN AppendNode(ended, Tagged(IF i < width THEN "Tab" ELSE "Cr", <<>>))
  IN FoldLeft(put, Frame("Root"), [i \in 1 .. width |-> i]).nodes

LowerTable(rows) ==
  LET newline == <<Leaf("Text", <<NewLine>>)>>
      body == FoldLeft(LAMBDA b, i : b \o (IF i = 1 THEN <<>> ELSE newline) \o rows[i],
                       newline, [i \in DOMAIN rows |-> i])
  IN Tagged("Tabular", <<Tagged("Group", <<Leaf("Text", <<Blank>>)>>),
                         Tagged("Group", body \o newline)>>)

LowerCodeBlock(body) ==
  Tagged("Preformatted", Chunks("Verb", IF body = <<>> THEN <<NewLine>> ELSE body))

\* The body of a subsection ends with a newline, in its last text or alone.
LowerSubsection(frame) ==
  LET settled == FlushPending(IF frame.sep = Section THEN MaterializeSeparator(frame) ELSE frame)
      nodes == settled.nodes
      open == nodes # <<>> /\ Last(nodes).kind = "Text" /\ Last(Last(nodes).text) # NewLine
      body == IF open THEN Front(nodes) \o <<Leaf("Text", Append(Last(nodes).text, NewLine))>>
              ELSE Append(nodes, Leaf("Text", <<NewLine>>))
  IN Tagged("Subsection", <<Tagged("Group", frame.title), Tagged("Group", body)>>)

CodeSpan(children) == Len(children) = 1 /\ children[1].kind \in {"Code", "VerbSpan"}

\* rendered_text: the characters of a text; a macro shows its arguments.
CharsOf(p) ==
  LET macros == {i \in DOMAIN doc.raw.macros : doc.raw.macros[i].from = p}
      groups == doc.raw.macros[Min(macros)].groups
      body(g) == SubSeq(doc.source, groups[g].from + 1, groups[g].to - 2)
  IN CASE p = NewLine -> <<"nl">>
       [] p = Blank -> <<" ">>
       [] macros = {} -> <<doc.source[p]>>
       [] OTHER -> FlattenSeq([g \in DOMAIN groups |-> body(g)])
RenderedText(text) == FlattenSeq([i \in DOMAIN text |-> CharsOf(text[i])])

\* parse_topic, of a target without the delimiters of a code span.
ParseTopic(target, children) ==
  LET ticked == CodeSpan(children) /\ Len(target) > 1 /\ target[1] = "tick" /\ Last(target) = "tick"
      input == IF ticked THEN SubSeq(target, 2, Len(target) - 1) ELSE target
      marks == {k \in DOMAIN input : input[k] = "::"}
      cut == IF marks = {} THEN 0 ELSE Min(marks)
      function == SubSeq(input, cut + 1, Len(input))
      call == function # <<>> /\ Last(function) = "()"
  IN [input |-> input, qualified |-> cut # 0, package |-> SubSeq(input, 1, cut - 1), cut |-> cut,
      call |-> call, s4 |-> function # <<>> /\ Last(function) = "-class",
      topic |-> IF call THEN Front(function) ELSE function]
Own(parsed) == parsed.qualified /\ parsed.package = <<"self">>

\* A label that only repeats the target is rebuilt from it: without the name
\* of the own package, and without the suffix of a class.
Generated(parsed, children) ==
  /\ \A i \in DOMAIN children : children[i].kind = "Text"
  /\ RenderedText(TextOf(children)) = parsed.input
\* Mutant: the name of another package is left out as well.
Rebuilt_Bare(parsed, text) ==
  SubSeq(text, parsed.cut + 1, IF parsed.s4 THEN Len(text) - 1 ELSE Len(text))
Rebuilt(parsed, text) ==
  SubSeq(text, IF Own(parsed) THEN parsed.cut + 1 ELSE 1,
         IF parsed.s4 THEN Len(text) - 1 ELSE Len(text))
LabelText(parsed, children) ==
  IF Generated(parsed, children) THEN Rebuilt(parsed, TextOf(children)) ELSE TextOf(children)

\* The option of a help link: a package with the target, the target where
\* the label is another, or none.  A target of this package has no package.
LinkOption(link, children) ==
  LET parsed == ParseTopic(link.target, children)
  IN CASE parsed.qualified /\ ~ Own(parsed) -> "package"
       [] ~ parsed.qualified /\ link.resolution = "External" -> "package"
       [] RenderedText(LabelText(parsed, children)) = parsed.topic -> "none"
       [] OTHER -> "target"
\* An option with a bracket or a control character cannot be written.
Refused(link, children) ==
  LET parsed == ParseTopic(link.target, children)
  IN /\ link.form = "topic" /\ LinkOption(link, children) # "none"
     /\ {"]", "control"} \cap (ToSet(parsed.package) \cup ToSet(parsed.topic)) # {}
\* A target without a package is looked up, and may be nowhere or anywhere.
Doubtful(link, children) ==
  /\ link.form = "topic" /\ ~ ParseTopic(link.target, children).qualified
  /\ link.resolution \in {"Unresolved", "Ambiguous"}
\* lower_url: a destination that its text only repeats stands alone.
LowerUrl(link, children) ==
  IF link.form \in {"autolink", "same"} THEN Tagged("Url", Chunks("Verb", TextOf(children)))
  ELSE Tagged("Href", <<Tagged("Group", <<>>), Tagged("Group", children)>>)
\* lower_link.  A target that cannot be written leaves the label behind.
LowerLink(link, children) ==
  LET parsed == ParseTopic(link.target, children)
      generated == Generated(parsed, children)
      shown == IF generated \/ CodeSpan(children)
               THEN Chunks("Text", LabelText(parsed, children)) ELSE children
      node == Tagged("Link", shown)
  IN CASE link.form # "topic" -> <<LowerUrl(link, children)>>
       [] Refused(link, children) -> IF CodeSpan(children) THEN children ELSE shown
       [] CodeSpan(children) \/ (generated /\ parsed.call) -> <<Tagged("Code", <<node>>)>>
       [] OTHER -> <<node>>

\* finish_frame: the nodes it leaves to its parent.
FinishFrame(frame) ==
  LET flushed == FlushPending(frame)
  IN CASE frame.kind = "TableRow" -> LowerRow(frame.cells, frame.level)
       [] frame.kind = "Table" -> <<LowerTable(frame.rows)>>
       [] frame.kind = "CodeBlock" -> <<LowerCodeBlock(frame.pending)>>
       [] frame.kind = "Subsection" -> <<LowerSubsection(frame)>>
       [] frame.kind = "Link" -> LowerLink(frame.of, flushed.nodes)
       [] frame.kind \in {"Itemize", "Enumerate"} ->
            <<LowerList(frame.kind, FlushPending(MaterializeSeparator(frame)).nodes)>>
       [] frame.kind \in {"Emphasis", "Strong"} -> <<Tagged(frame.kind, flushed.nodes)>>
       [] OTHER -> flushed.nodes

-----------------------------------------------------------------------------
(* The stack *)

Top == Last(frames)
WithTop(stack, frame) == Append(Front(stack), frame)

RECURSIVE CloseSections(_, _)
CloseSections(stack, minimum) ==
  LET top == Last(stack)
      parent == Flattened(Last(Front(stack)), FinishFrame(top))
  IN IF top.kind # "Subsection" \/ top.level < minimum THEN stack
     ELSE CloseSections(WithTop(Front(stack), [parent EXCEPT !.sep = Section]), minimum)

\* open_heading
OpenHeading(frame) ==
  LET settled == IF frame.sep = Section THEN MaterializeSeparator(frame)
                 ELSE [frame EXCEPT !.sep = None]
  IN IF frame.kind = "Subsection" \/ ~ Void(settled)
     THEN [settled EXCEPT !.pending = Append(@, NewLine)] ELSE settled

\* prepare_block_start: what the first block of a subsection is led by.
PrepareBlockStart(frame, tag) ==
  LET settled == IF frame.sep = Section THEN MaterializeSeparator(frame) ELSE frame
      leading == CASE tag = "Paragraph" -> <<NewLine, NewLine>>
                   [] tag \in {"CodeBlock", "Itemize", "Enumerate", "BlockQuote", "HtmlBlock",
                               "Table"} -> <<NewLine>>
                   [] OTHER -> <<>>
  IN IF frame.kind # "Subsection" THEN frame
     ELSE IF Void(settled) /\ settled.sep = Line /\ leading # <<>>
     THEN [settled EXCEPT !.sep = None, !.pending = leading] ELSE settled

HeadingLevel(tag) ==
  CASE tag = "Heading1" -> 1 [] tag = "Heading2" -> 2 [] tag = "Heading3" -> 3 [] OTHER -> 0

SeparatorAfter(tag) ==
  CASE tag \in {"Paragraph", "Heading1", "Heading2", "Heading3", "BlockQuote", "CodeBlock",
                "HtmlBlock", "Itemize", "Enumerate", "Table"} -> Paragraph
    [] tag = "Item" -> Line
    [] OTHER -> None

\* Which frame a construct gets; the parts of a table only in their place.
FrameKind(tag, parent) ==
  CASE tag \in {"TableHead", "TableRow"} -> IF parent.kind = "Table" THEN "TableRow" ELSE "Unsupported"
    [] tag = "TableCell" -> IF parent.kind = "TableRow" THEN "TableCell" ELSE "Unsupported"
    [] tag \in {"Link", "Paragraph", "CodeBlock", "Emphasis", "Strong", "Itemize", "Enumerate",
                "Table"} -> tag
    [] OTHER -> "Unsupported"

\* Mutant: what is inside a macro is converted as well.
Suppresses_Never(e) == FALSE
Suppresses(e) ==
  LET ahead == {i \in DOMAIN doc.raw.macros : i >= next /\ doc.raw.macros[i].to > e.from}
      macro == doc.raw.macros[Min(ahead)]
  IN ahead # {} /\ Inside(e, macro) /\ (e.from > macro.from \/ e.to < macro.to)
\* advance_before
Advanced(offset) ==
  LET passed == {i \in DOMAIN doc.raw.macros : i >= next /\ doc.raw.macros[i].to <= offset}
  IN next + Cardinality(passed)
Report(name, e) == diagnosed' = diagnosed \cup {[what |-> name, from |-> e.from]}

-----------------------------------------------------------------------------
(* raw_rd::append_text *)

EventText(e) ==
  IF e.type = "Break" THEN <<NewLine>>
  ELSE IF e.plain THEN [i \in 1 .. e.to - e.from |-> e.from + i - 1] ELSE <<e.from>>
\* A slice of the source of a decoded text may be none of the text.
LiteralSlice(e, from, to) ==
  LET text == EventText(e)
  IN IF to - e.from <= Len(text) THEN SubSeq(text, from - e.from + 1, to - e.from) ELSE text
MacroNode(macro) == [kind |-> "Macro", text |-> <<macro.from>>, ok |-> TRUE]

RECURSIVE Spliced(_, _, _, _)
Spliced(frame, n, e, cursor) ==
  LET macros == doc.raw.macros
      ahead == {i \in DOMAIN macros : i >= n /\ macros[i].to > cursor}
      k == IF ahead = {} THEN Len(macros) + 1 ELSE Min(ahead)
      macro == macros[k]
      lead == IF cursor < macro.from THEN AppendPlain(frame, LiteralSlice(e, cursor, macro.from))
              ELSE frame
      placed == AppendNode(MaterializeSeparator(lead), MacroNode(macro))
  IN CASE k > Len(macros) \/ (k <= Len(macros) /\ macro.from >= e.to) ->
            [frame |-> IF cursor < e.to THEN AppendPlain(frame, LiteralSlice(e, cursor, e.to))
                       ELSE frame, next |-> k]
       [] macro.from < e.from /\ macro.to >= e.to -> [frame |-> frame, next |-> k]
       [] macro.from < e.from /\ macro.to < e.to -> Spliced(frame, k + 1, e, macro.to)
       [] macro.from >= e.from /\ macro.to > e.to -> [frame |-> placed, next |-> k]
       [] OTHER -> Spliced(placed, k + 1, e, macro.to)

-----------------------------------------------------------------------------
(* Events *)

Init ==
  /\ \E Documents \in Families : \E d \in Documents :
       doc = [source |-> d.source, events |-> d.events, raw |-> Prepared(d.source, d.events)]
  /\ at = 0 /\ frames = <<Frame("Root")>> /\ next = 1 /\ fragment = <<>>
  /\ diagnosed = {[what |-> "raw Rd", from |-> doc.raw.unsupported[i].from] :
                    i \in DOMAIN doc.raw.unsupported}

Event == doc.events[at + 1]
Takes(type) == at < Len(doc.events) /\ Event.type = type /\ at' = at + 1

\* An event that belongs to a macro.
Skip ==
  /\ \E type \in {"Start", "End", "Break", "Html"} : Takes(type)
  /\ Suppresses(Event)
  /\ next' = Advanced(Event.from)
  /\ UNCHANGED <<doc, frames, diagnosed, fragment>>

Kept(type) == Takes(type) /\ ~ Suppresses(Event) /\ next' = Advanced(Event.from)
OpensSection(tag) == HeadingLevel(tag) >= 2 /\ Top.kind \in {"Root", "Subsection"}

\* Mutant: a heading leaves the sections of its own level open.
StartHeading_Nested ==
  /\ Kept("Start") /\ OpensSection(Event.tag)
  /\ LET level == HeadingLevel(Event.tag)
         closed == CloseSections(frames, level + 1)
     IN frames' = Append(WithTop(closed, OpenHeading(Last(closed))),
                         [Frame("Heading") EXCEPT !.level = level, !.from = Event.from])
  /\ UNCHANGED <<doc, diagnosed, fragment>>
StartHeading ==
  /\ Kept("Start") /\ OpensSection(Event.tag)
  /\ LET level == HeadingLevel(Event.tag)
         closed == CloseSections(frames, level)
     IN frames' = Append(WithTop(closed, OpenHeading(Last(closed))),
                         [Frame("Heading") EXCEPT !.level = level, !.from = Event.from])
  /\ UNCHANGED <<doc, diagnosed, fragment>>

\* A list, table or code block in an item, and any list, starts on a new line.
NestedStart(frame, tag) ==
  IF \/ frame.kind = "Item" /\ tag \in {"Itemize", "Enumerate", "Table", "CodeBlock"}
     \/ frame.sep = Paragraph /\ tag \in {"Itemize", "Enumerate"}
  THEN [frame EXCEPT !.sep = Line] ELSE frame

Start ==
  /\ Kept("Start") /\ ~ OpensSection(Event.tag)
  /\ LET parent == NestedStart(PrepareBlockStart(Top, Event.tag), Event.tag)
         marked == AppendNode(MaterializeSeparator(parent), Tagged("ItemMark", <<>>))
         new == [Frame(FrameKind(Event.tag, parent)) EXCEPT
                   !.from = Event.from, !.of = Event.of,
                   !.level = CASE Event.tag = "Table" -> Event.of.width
                               [] parent.kind = "Table" -> parent.level
                               [] OTHER -> 0]
     IN frames' = IF Event.tag = "Item"
                  THEN Append(WithTop(frames, marked),
                              [Frame("Item") EXCEPT !.pending = <<Blank>>])
                  ELSE Append(WithTop(frames, parent), new)
  /\ IF Event.tag = "Enumerate" /\ Event.of.form = "late" THEN Report("late start", Event)
     ELSE UNCHANGED diagnosed
  /\ UNCHANGED <<doc, fragment>>

EndHeading ==
  /\ Kept("End") /\ Top.kind = "Heading"
  /\ frames' = WithTop(frames, [Frame("Subsection") EXCEPT
                                  !.level = Top.level, !.from = Top.from, !.sep = Line,
                                  !.title = FinishFrame(Top)])
  /\ UNCHANGED <<doc, diagnosed, fragment>>

\* The envelopes that need no report of their own: parts of an unsupported
\* table, headings inside anything unsupported.
Redundant(stack, tag) ==
  \/ HeadingLevel(tag) # 0 /\ \E i \in DOMAIN stack : stack[i].kind = "Unsupported"
  \/ tag \in {"TableHead", "TableRow", "TableCell"} /\ Last(stack).kind = "Unsupported"

End ==
  /\ Kept("End") /\ Top.kind # "Heading"
  /\ LET parent == Last(Front(frames))
         nodes == FinishFrame(Top)
         given == CASE Top.kind = "TableCell" -> [parent EXCEPT !.cells = Append(@, nodes)]
                    [] Top.kind = "TableRow" -> [parent EXCEPT !.rows = Append(@, nodes)]
                    [] OTHER -> Flattened(parent, nodes)
         after == SeparatorAfter(Event.tag)
     IN frames' = WithTop(Front(frames), [given EXCEPT !.sep = IF @ < after THEN after ELSE @])
  /\ LET stack == Front(frames)
         children == FlushPending(Top).nodes
     IN IF \/ Top.kind = "Unsupported" /\ ~ Redundant(stack, Event.tag)
           \/ Top.kind = "CodeBlock" /\ Event.of.form = "executable"
           \/ Top.kind = "Link" /\ (Doubtful(Event.of, children) \/ Refused(Event.of, children))
        THEN Report(Event.tag, Event) ELSE UNCHANGED diagnosed
  /\ UNCHANGED <<doc, fragment>>

Text ==
  /\ Takes("Text") \/ (Takes("Break") /\ ~ Suppresses(Event))
  /\ LET done == Spliced(Top, next, Event, Event.from)
     IN frames' = WithTop(frames, done.frame) /\ next' = done.next
  /\ UNCHANGED <<doc, diagnosed, fragment>>

CodeText(e) == IF e.of.form = "substituted" THEN <<e.from>>
               ELSE [i \in 1 .. e.to - e.from - 2 |-> e.from + i]
\* Inline R with a substitution gives the nodes of its entry; without one,
\* or over several lines, it stays verbatim and is reported.
Code ==
  /\ Takes("Code")
  /\ LET leaf == Leaf(IF Event.of.form = "code" THEN "RCode" ELSE "Verb", CodeText(Event))
         span == Tagged(IF Event.of.form = "code" THEN "Code" ELSE "VerbSpan", <<leaf>>)
         entry == <<Leaf("Text", CodeText(Event))>>
     IN frames' = WithTop(frames,
                    IF Event.of.form = "substituted" THEN Flattened(Top, entry)
                    ELSE AppendNode(MaterializeSeparator(Top), span))
  /\ IF Event.of.form \in {"undefined", "Rd"} THEN Report("inline R", Event)
     ELSE UNCHANGED diagnosed
  /\ UNCHANGED <<doc, next, fragment>>

InHtmlBlock == Top.kind = "Unsupported" /\ Top.of.form = "html"
Html ==
  /\ Kept("Html")
  /\ frames' = WithTop(frames, AppendPlain(Top, EventText(Event)))
  /\ IF InHtmlBlock THEN UNCHANGED diagnosed ELSE Report("Html", Event)
  /\ UNCHANGED <<doc, fragment>>

Rule ==
  /\ Takes("Rule")
  /\ Report("Rule", Event)
  /\ frames' = WithTop(frames, [Top EXCEPT !.sep = IF @ < Paragraph THEN Paragraph ELSE @])
  /\ UNCHANGED <<doc, next, fragment>>

Finish ==
  /\ at = Len(doc.events) /\ at' = at + 1
  /\ fragment' = FinishFrame(CloseSections(frames, 0)[1])
  /\ frames' = <<>>
  /\ UNCHANGED <<doc, next, diagnosed>>

Done == at > Len(doc.events) /\ UNCHANGED vars

Next ==
  \/ Skip \/ StartHeading \/ Start \/ EndHeading \/ End \/ Text \/ Code \/ Html \/ Rule
  \/ Finish \/ Done

Spec == Init /\ [][Next]_vars

-----------------------------------------------------------------------------
(* Properties *)

Outer == {"Root", "Subsection"}

\* Sections nest by level and lie directly under the root; a row is in a
\* table and a cell in a row: the arms the code takes for unreachable are
\* (mod.rs:Converter::end, finish).
FramesNest ==
  at <= Len(doc.events) =>
    /\ \A i \in DOMAIN frames :
         /\ frames[i].kind = "Root" <=> i = 1
         /\ frames[i].kind \in {"Subsection", "Heading"} => frames[i - 1].kind \in Outer
         /\ frames[i].kind = "Subsection" => frames[i - 1].level < frames[i].level
         /\ frames[i].kind = "TableRow" => frames[i - 1].kind = "Table"
         /\ frames[i].kind = "TableCell" => frames[i - 1].kind = "TableRow"
         /\ frames[i].kind \in {"Table", "TableRow"} => Void(frames[i])

\* What comes out is what the writer takes: however constructs are nested,
\* flattened or left out, no two pieces of text meet that are not one, and
\* every leaf is one line (mod.rs:assert_fragment_writer_valid, an assertion
\* of debug builds only).
OutputIsWritable == Representable(fragment)

\* The writer takes what comes out, and no arm that is taken for unreachable on
\* the way there is reached.
FragmentsAreWritable == OutputIsWritable /\ FramesNest

Visible ==
  LET covered == {p \in DOMAIN doc.source :
                    \E i \in DOMAIN doc.raw.macros :
                      doc.raw.macros[i].from <= p /\ p < doc.raw.macros[i].to}
      events == {doc.events[i] : i \in DOMAIN doc.events}
      shown == {e \in events : e.type \in {"Text", "Code", "Html"}}
      literal(e) == ToSet(IF e.type = "Code" THEN CodeText(e) ELSE EventText(e))
      macros == {doc.raw.macros[i].from : i \in DOMAIN doc.raw.macros}
  IN macros \cup ((UNION {literal(e) : e \in shown}) \ covered)

\* Constructs that leave only their contents: inside a macro, or reported, or
\* inside another that is.
Envelopes ==
  {e \in {doc.events[i] : i \in DOMAIN doc.events} :
     /\ e.type = "Start" /\ e.tag \in {"BlockQuote", "HtmlBlock", "Image", "Heading1"}
     /\ \A i \in DOMAIN doc.raw.macros : ~ Inside(e, doc.raw.macros[i])}
Reported(e) ==
  \E d \in diagnosed, o \in Envelopes : Inside(e, o) /\ d.what = o.tag /\ d.from = o.from

\* What links leave out: of a help link whose label is its target and nothing
\* else, with no macro, no code and no emphasis in it, the name of the own
\* package before it and the suffix of a class after it.
LeftOut ==
  LET events == ToSet(doc.events)
      breaks == {e.from : e \in {e \in events : e.type = "Break"}}
      label(o) == SetToSortSeq({p \in Visible \cup breaks : o.from <= p /\ p < o.to}, <)
      plain(o) ==
        /\ \A e \in events : Inside(e, o) => /\ e.type = "Code" => e.of.form = "substituted"
                                            /\ e.tag \notin {"Emphasis", "Strong"}
        /\ \A i \in DOMAIN doc.raw.macros : ~ Inside(doc.raw.macros[i], o)
      repeats(o) == plain(o) /\ [i \in DOMAIN label(o) |-> doc.source[label(o)[i]]] = o.of.target
      own(o) == Len(label(o)) > 1 /\ o.of.target[1] = "self" /\ o.of.target[2] = "::"
      class(o) == Len(label(o)) > 0 /\ Last(o.of.target) = "-class"
      links == {o \in events : o.type = "Start" /\ o.tag = "Link" /\ o.of.form = "topic" /\ repeats(o)}
  IN UNION {(IF own(o) THEN {label(o)[1], label(o)[2]} ELSE {})
            \cup (IF class(o) THEN {Last(label(o))} ELSE {}) : o \in links}

\* Nothing is swallowed, repeated or moved: the text of the fragment is every
\* character outside the macros that no link leaves out, and every macro and
\* code span once, in the order of the source; and a construct of which only
\* that text is left is reported (raw_rd.rs:append_text, suppresses; link.rs:
\* lower_link; unsupported.rs: "diagnose the construct, flatten recoverable
\* descendants, and retain their literal text").
NothingIsSwallowed ==
  at > Len(doc.events) =>
    LET said == SelectSeq(TextOf(fragment), LAMBDA p : p > 0)
    IN /\ {said[i] : i \in DOMAIN said} = Visible \ LeftOut
       /\ \A i \in 1 .. Len(said) - 1 : said[i] < said[i + 1]
       /\ \A e \in Envelopes : Reported(e)

\* Each macro is judged as if it were alone, whatever the sweep went through
\* before it and whichever of its checks it left early
\* (raw_rd.rs:CandidateSweep).
MacrosAreJudgedAlone ==
  at = 0 =>
    LET facts == FactsOf(doc.events)
        scanned == ScanSource(doc.source, OpaqueRanges(doc.events))
        accepted(c) == /\ c.kind # "Unsupported" /\ IsRepresentable(doc.source, c)
                       /\ AcceptableAlone(facts, doc.source, c)
    IN doc.raw.macros = SelectSeq(scanned, accepted)

=============================================================================
