-------------------------------- MODULE Tags --------------------------------
(***************************************************************************)
(* From one R file to the tags of its blocks (arity_adapter::parse,        *)
(* tags::parse_block): the lines of the parser's blocks find the           *)
(* expressions they document, the lines of each expression become an intro *)
(* and raw tags, every tag is parsed on its own, and the intro is          *)
(* reconciled with the tags.                                               *)
(***************************************************************************)
EXTENDS TagGrammar

CONSTANT Files  \* sets of files

VARIABLES
  pc,
  file,      \* constant through a run
  at,        \* blocks of the parser, or windows, or raw tags, done so far
  grouped,   \* window -> its lines
  dropped,   \* the lines of no window, with their markers
  blocks,    \* blocks reduced so far: window, intro, raw tags
  block,     \* the block at which parse_block is
  parsed,    \* its parsed tags, each with the index of its raw tag
  tags,      \* finished blocks: their tags
  said       \* diagnostics: code, source range, and block and tag if of one

vars == <<pc, file, at, grouped, dropped, blocks, block, parsed, tags, said>>

Init ==
  /\ \E F \in Files : file \in F
  /\ pc = "collect" /\ at = 0
  /\ grouped = [k \in DOMAIN Windows(file) |-> <<>>] /\ dropped = <<>>
  /\ blocks = <<>> /\ block = 1 /\ parsed = <<>> /\ tags = <<>> /\ said = <<>>

Of(b, t, diagnostics) ==
  [i \in DOMAIN diagnostics |->
     [code |-> diagnostics[i].code, span |-> diagnostics[i].span, block |-> b, tag |-> t]]

\* collect_window_lines: the lines of the next block of the parser.
Collect ==
  /\ pc = "collect" /\ at < Len(ArityBlocks(file))
  /\ LET windows == Windows(file)
         lines == LinesOf(file, ArityBlocks(file)[at + 1])
         placed == [i \in DOMAIN lines |-> Placement(file, windows, lines[i])]
         of(k) == SelectSeq(placed, LAMBDA p : p.window = k)
     IN /\ grouped' = [k \in DOMAIN grouped |->
                         grouped[k] \o [i \in DOMAIN of(k) |-> of(k)[i].line]]
        /\ dropped' = dropped \o [i \in DOMAIN of(0) |-> of(0)[i].line]
  /\ at' = at + 1
  /\ UNCHANGED <<pc, file, blocks, block, parsed, tags, said>>

\* Mutant: each dropped line is the start of a group; only the last is told.
Grouped_Last(lines) ==
  IF lines = <<>> THEN <<>>
  ELSE <<[at |-> Last(lines).marker, end |-> Last(lines).end, start |-> LineStart(file, Last(lines).at)]>>
\* push_unattached_diagnostics: lines that follow each other are one group.
Grouped(lines) ==
  LET start(line) == LineStart(file, line.at)
      follows(group, line) == start(line) = LineStop(file, group.start) + 1
      Add(groups, line) ==
        IF groups # <<>> /\ follows(Last(groups), line)
        THEN Front(groups) \o <<[Last(groups) EXCEPT !.end = line.end]>>
        ELSE Append(groups, [at |-> line.marker, end |-> line.end, start |-> start(line)])
  IN FoldLeft(Add, <<>>, lines)
ReportDropped ==
  /\ pc = "collect" /\ at = Len(ArityBlocks(file))
  /\ LET groups == Grouped(dropped)
     IN said' = Of(0, 0, [i \in DOMAIN groups |->
                            Said("UnattachedRoxygenBlock", [at |-> groups[i].at, end |-> groups[i].end])])
  /\ pc' = "reduce" /\ at' = 0
  /\ UNCHANGED <<file, grouped, dropped, blocks, block, parsed, tags>>

\* The next window: a block if it has lines.  @noMd is said here.
ReduceWindow ==
  /\ pc = "reduce" /\ at < Len(grouped)
  /\ LET lines == grouped[at + 1]
         done == Reduce(file, lines)
         noMd == SelectSeq([k \in DOMAIN done.tags |-> k], LAMBDA k : done.tags[k].name = "noMd")
     IN IF lines = <<>> THEN UNCHANGED <<blocks, said>>
        ELSE /\ blocks' = Append(blocks, [window |-> at + 1, lines |-> lines,
                                          intro |-> done.intro, tags |-> done.tags])
             /\ said' = said \o FlattenSeq([i \in DOMAIN noMd |->
                          Of(Len(blocks) + 1, noMd[i],
                             <<Said("UnsupportedTag", done.tags[noMd[i]].full)>>)])
  /\ at' = at + 1
  /\ UNCHANGED <<pc, file, grouped, dropped, block, parsed, tags>>

StartTags ==
  /\ pc = "reduce" /\ at = Len(grouped)
  /\ pc' = IF blocks = <<>> THEN "done" ELSE "tags"
  /\ at' = 0
  /\ UNCHANGED <<file, grouped, dropped, blocks, block, parsed, tags, said>>

\* parse_block, the next raw tag.
ParseNext ==
  /\ pc = "tags" /\ at < Len(blocks[block].tags)
  /\ \E result \in {ParseOne(file, blocks[block].tags[at + 1])} :
        /\ parsed' = parsed \o [i \in DOMAIN result.tag |->
                                  [raw |-> at + 1, tag |-> result.tag[i]]]
        /\ said' = said \o Of(block, at + 1, result.said)
  /\ at' = at + 1
  /\ UNCHANGED <<pc, file, grouped, dropped, blocks, block, tags>>

-----------------------------------------------------------------------------
(* intro.rs *)

\* split_paragraphs: at each two newlines, from left to right.
RECURSIVE Paragraphs(_, _)
Paragraphs(value, from) ==
  LET text == value.text
      breaks == {i \in from .. Len(text) - 1 : text[i] = "nl" /\ text[i + 1] = "nl"}
  IN IF breaks = {} THEN <<Slice(value, from, Len(text) + 1)>>
     ELSE <<Slice(value, from, First(breaks))>> \o Paragraphs(value, First(breaks) + 2)

Implicit(kind, value) == [raw |-> 0, tag |-> Meaning(kind, <<value>>, <<>>)]
Intro(b) == TrimOuter(FromLines(file, b.intro, "Intro"))
\* Mutant: an explicit @details beside the prose is not taken up.
Merged_None(b, entry) == FALSE
\* An explicit @details that says something.
Merged(b, entry) == b.tags[entry.raw].name = "details" /\ ~ IsNull(entry.tag.parts[1])

\* reconcile: the first paragraph is the title and the next the description,
\* each unless a tag of that name stands in the block, parsed or not; what
\* is left goes before the explicit details, in one.
Reconciled(b, explicit) ==
  LET named(name) == \E k \in DOMAIN b.tags : b.tags[k].name = name
      paragraphs == Paragraphs(Intro(b), 1)
      titles == IF named("title") THEN 0 ELSE 1
      wanted == titles + (IF named("description") THEN 0 ELSE 1)
      taken == IF wanted > Len(paragraphs) THEN Len(paragraphs) ELSE wanted
      kind(i) == IF i <= titles THEN "title" ELSE "description"
      promoted == [i \in 1 .. taken |-> Implicit(kind(i), paragraphs[i])]
      rest == SubSeq(paragraphs, taken + 1, Len(paragraphs))
      merged == SelectSeq(explicit, LAMBDA e : Merged(b, e))
      details == ConcatWith(rest \o [i \in DOMAIN merged |-> merged[i].tag.parts[1]],
                            <<"nl", "nl">>, b.intro[1].at)
      kept == SelectSeq(explicit, LAMBDA e : b.tags[e.raw].name # "details")
  IN IF b.intro = <<>> \/ Intro(b) = Nothing THEN explicit
     ELSE IF rest = <<>> THEN promoted \o explicit
     ELSE promoted \o <<Implicit("details", details)>> \o kept

Reconcile ==
  /\ pc = "tags" /\ at = Len(blocks[block].tags)
  /\ tags' = Append(tags, Reconciled(blocks[block], parsed))
  /\ at' = 0 /\ parsed' = <<>> /\ block' = block + 1
  /\ pc' = IF block = Len(blocks) THEN "done" ELSE "tags"
  /\ UNCHANGED <<file, grouped, dropped, blocks, said>>

Done == pc = "done" /\ UNCHANGED vars

Next == Collect \/ ReportDropped \/ ReduceWindow \/ StartTags \/ ParseNext \/ Reconcile \/ Done

Spec == Init /\ [][Next]_vars

-----------------------------------------------------------------------------
(* Properties *)

\* Every roxygen line of the file is heard of: if only blanks stand between
\* the marker and the end of the code before it on the line, it documents
\* the expression that ends next, in exactly one block and as exactly one
\* line of its intro or of one of its tags, in order; if not, or if no
\* expression follows, exactly one diagnostic covers it
\* (window.rs:collect_window_lines, reduce.rs:reduce_lines).
EveryLineIsHeard ==
  pc = "done" =>
    LET e == Expressions(file)
        later(m) == {k \in DOMAIN e : e[k].end > m}
        before(m) == {LineStart(file, m)} \cup {e[k].end : k \in {j \in DOMAIN e : e[j].end <= m}}
        belongs(m) == later(m) # {} /\ Blank(file, Final(before(m)), m)
        unattached == SelectSeq(said, LAMBDA s : s.code = "UnattachedRoxygenBlock")
        sections(b) == b.intro \o FlattenSeq([k \in DOMAIN b.tags |-> b.tags[k].lines])
        markers == Markers(file)
    IN /\ \A m \in markers :
            LET in == {b \in DOMAIN blocks : \E i \in DOMAIN blocks[b].lines :
                                               blocks[b].lines[i].marker = m}
                by == {i \in DOMAIN unattached :
                         unattached[i].span.at <= m /\ m < unattached[i].span.end}
            IN IF belongs(m) THEN /\ {blocks[b].window : b \in in} = {First(later(m))}
                                  /\ Cardinality(in) = 1 /\ by = {}
               ELSE in = {} /\ Cardinality(by) = 1
       /\ \A b \in DOMAIN blocks :
            /\ [i \in DOMAIN sections(blocks[b]) |-> sections(blocks[b])[i].end]
                 = [i \in DOMAIN blocks[b].lines |-> blocks[b].lines[i].end]
            /\ \A i, j \in DOMAIN blocks[b].lines :
                 i < j => blocks[b].lines[i].end <= blocks[b].lines[j].at

Values(b) == UNION {Range(tags[b][i].tag.parts) : i \in DOMAIN tags[b]}

\* What a value says of its origin is true after every cut and joint on the
\* way: each of its positions stands for the token it was made from, only
\* joints for nothing; and a diagnostic about a tag points into that tag
\* (tags/text.rs: "every byte can be projected back to source").
ProvenanceIsExact ==
  pc = "done" =>
    /\ \A b \in DOMAIN tags : \A v \in Values(b) : IsSourced(file, v)
    /\ \A i \in DOMAIN said :
         LET s == said[i] full == blocks[s.block].tags[s.tag].full
         IN s.block # 0 => full.at <= s.span.at /\ s.span.at <= s.span.end /\ s.span.end <= full.end

Black(value) == SelectSeq(value.text, LAMBDA t : t \notin White)

\* No tag and no prose goes in silence: every raw tag becomes a tag, is part
\* of the details the intro began, or is named in a diagnostic, but for @md
\* and for @details NULL beside prose; and the prose of the intro, with the
\* details taken up, is that of the implicit tags, in order
\* (tags/mod.rs:parse_block, tags/intro.rs:reconcile).
EveryTagIsHeard ==
  pc = "done" =>
    \A b \in DOMAIN tags :
      LET raw == blocks[b].tags
          done == tags[b]
          implicit == SelectSeq(done, LAMBDA e : e.raw = 0)
          begun == \E i \in DOMAIN implicit : implicit[i].tag.kind = "details"
          value(k) == TrimOuter(FromLines(file, raw[k].lines, "TagValue"))
          takenUp == SelectSeq([k \in DOMAIN raw |-> k],
                               LAMBDA k : begun /\ raw[k].name = "details" /\ ~ IsNull(value(k)))
          prose(values) == FlattenSeq([i \in DOMAIN values |-> Black(values[i])])
      IN /\ \A k \in DOMAIN raw :
              \/ \E i \in DOMAIN done : done[i].raw = k
              \/ \E i \in DOMAIN takenUp : takenUp[i] = k
              \/ \E i \in DOMAIN said : said[i].block = b /\ said[i].tag = k
              \/ raw[k].name = "md"
              \/ raw[k].name = "details" /\ begun /\ IsNull(value(k))
         /\ Black(Intro(blocks[b])) \o prose([i \in DOMAIN takenUp |-> value(takenUp[i])])
              = prose([i \in DOMAIN implicit |-> implicit[i].tag.parts[1]])

\* Nothing goes in silence: no line on the way into a block, no tag and no prose
\* on the way out of it.
NothingIsSilent == EveryLineIsHeard /\ EveryTagIsHeard

\* A link to a topic: what recognize_roxygen_link accepts, wherever it is.
IsLink(text, from, to) ==
  LET inner == {i \in from + 1 .. to - 2 : text[i] \in Bracket}
      two == \E i \in inner : inner = {i, i + 1} /\ text[i] = "]" /\ text[i + 1] = "["
                                 /\ i > from + 1 /\ i + 1 < to - 2
  IN /\ text[from] = "[" /\ At(text, to - 1) = "]"
     /\ (inner = {} /\ to > from + 2) \/ two
     /\ ~ (from > 1 /\ text[from - 1] \in {"]", "\\"})
     /\ At(text, to) \notin {"[", "{"}

\* The colon that splits a section is in no link to a topic: no link of the
\* value loses its tail to the body (section.rs:split_section_title,
\* markdown.rs:roxygen_link_ranges).
SectionsKeepLinksWhole ==
  pc = "done" =>
    \A b \in DOMAIN tags : \A i \in DOMAIN tags[b] :
      LET t == tags[b][i].tag
          whole == t.parts[1].text \o <<":">> \o t.parts[2].text
          colon == Len(t.parts[1].text) + 1
      IN t.kind = "section" /\ t.parts[2] # Nothing =>
           ~ \E from \in 1 .. colon - 1, to \in colon + 2 .. Len(whole) + 1 : IsLink(whole, from, to)

=============================================================================
