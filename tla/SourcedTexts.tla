---------------------------- MODULE SourcedTexts ----------------------------
(***************************************************************************)
(* Text with provenance (tags/text.rs).  A source file is a sequence of    *)
(* tokens; a token stands for one byte.  A value is normalized text and    *)
(* runs: [from, to, at, end], the text at from .. to-1 comes from the      *)
(* source at at .. end-1.  A run is affine when both are equally long; its *)
(* positions then correspond one by one.  Otherwise every position of the  *)
(* run stands for the whole source range: "@" for "@@", a newline for CR   *)
(* LF, and joints that have no source at all.                              *)
(***************************************************************************)
EXTENDS Naturals, Sequences, SequencesExt

White == {"sp", "nl", "cr"}

Nothing == [text |-> <<>>, runs |-> <<>>]
Run(from, to, at, end) == [from |-> from, to |-> to, at |-> at, end |-> end]
IsAffine(run) == run.to - run.from = run.end - run.at

\* Mutant: runs that touch are merged whatever their lengths.
PushRun_Touching(runs, run) ==
  IF runs # <<>> /\ Last(runs).to = run.from /\ Last(runs).end = run.at
  THEN Front(runs) \o <<Run(Last(runs).from, run.to, Last(runs).at, run.end)>>
  ELSE Append(runs, run)
PushRun(runs, run) ==
  IF run.from = run.to THEN runs
  ELSE IF /\ runs # <<>>
          /\ IsAffine(Last(runs)) /\ IsAffine(run)
          /\ Last(runs).to = run.from /\ Last(runs).end = run.at
  THEN Front(runs) \o <<Run(Last(runs).from, run.to, Last(runs).at, run.end)>>
  ELSE Append(runs, run)

PushMapped(value, tokens, at, end) ==
  LET from == Len(value.text) + 1
  IN [text |-> value.text \o tokens,
      runs |-> PushRun(value.runs, Run(from, from + Len(tokens), at, end))]

AppendPart(value, part) ==
  LET offset == Len(value.text)
      Push(runs, run) ==
        PushRun(runs, [run EXCEPT !.from = @ + offset, !.to = @ + offset])
  IN [text |-> value.text \o part.text, runs |-> FoldLeft(Push, value.runs, part.runs)]

\* push_normalized_line: from left to right, "@@" is one "@".
RECURSIVE PushLine(_, _, _, _)
PushLine(value, source, at, end) ==
  LET escapes == {i \in at .. end - 2 : source[i] = "@" /\ source[i + 1] = "@"}
      next == CHOOSE i \in escapes : \A j \in escapes : i <= j
      chunk(to) == IF at = to THEN value ELSE PushMapped(value, SubSeq(source, at, to - 1), at, to)
  IN IF escapes = {} THEN chunk(end)
     ELSE PushLine(PushMapped(chunk(next), <<"@">>, next, next + 2), source, next + 2, end)

\* line_terminator
Terminator(source, at) ==
  LET token(i) == IF i \in DOMAIN source THEN source[i] ELSE "end"
  IN IF token(at) = "cr" /\ token(at + 1) = "nl" THEN at + 2
     ELSE IF token(at) = "nl" THEN at + 1
     ELSE at

\* from_lines: lines are source ranges [at, end].  A tag value loses one
\* white space at its start, an intro none.
FromLines(source, lines, head) ==
  LET first(line) ==
        IF head = "TagValue" /\ line.at < line.end /\ source[line.at] \in White
        THEN line.at + 1 ELSE line.at
      Push(value, i) ==
        LET line == lines[i]
            pushed == PushLine(value, source, IF i = 1 THEN first(line) ELSE line.at, line.end)
        IN IF i = Len(lines) THEN pushed
           ELSE PushMapped(pushed, <<"nl">>, line.end, Terminator(source, line.end))
  IN FoldLeft(Push, Nothing, [i \in DOMAIN lines |-> i])

\* The source of the part of a run between from and to.
Within(run, from, to) ==
  LET a == IF run.from > from THEN run.from ELSE from
      b == IF run.to < to THEN run.to ELSE to
      at == run.at + (a - run.from)
  IN IF a >= b THEN <<>>
     ELSE IF IsAffine(run) THEN <<Run(a, b, at, at + (b - a))>>
     ELSE <<Run(a, b, run.at, run.end)>>

\* slice of text at from .. to-1.
Slice(value, from, to) ==
  LET Push(runs, run) ==
        LET part == Within(run, from, to)
        IN IF part = <<>> THEN runs
           ELSE PushRun(runs, [part[1] EXCEPT !.from = @ - (from - 1), !.to = @ - (from - 1)])
  IN [text |-> SubSeq(value.text, from, to - 1), runs |-> FoldLeft(Push, <<>>, value.runs)]

\* push_merged_span: a span that touches the last one makes it longer.
PushMergedSpan(spans, span) ==
  IF spans # <<>> /\ Last(spans).end = span.at
  THEN Front(spans) \o <<[Last(spans) EXCEPT !.end = span.end]>>
  ELSE Append(spans, span)

\* source_spans: the source of a range, touching spans merged.
SourceSpans(value, from, to) ==
  LET Push(spans, run) ==
        LET part == Within(run, from, to)
        IN IF part = <<>> THEN spans
           ELSE PushMergedSpan(spans, [at |-> part[1].at, end |-> part[1].end])
  IN FoldLeft(Push, <<>>, value.runs)

\* value_span_for_range: from the first of them to the last.
ValueSpan(value, from, to, fallback) ==
  LET spans == SourceSpans(value, from, to)
  IN IF spans = <<>> THEN fallback ELSE [at |-> Head(spans).at, end |-> Last(spans).end]

\* trim_outer
TrimOuter(value) ==
  LET black == {i \in DOMAIN value.text : value.text[i] \notin White}
      from == CHOOSE i \in black : \A j \in black : i <= j
      to == CHOOSE i \in black : \A j \in black : i >= j
  IN IF black = {} THEN Nothing ELSE Slice(value, from, to + 1)

\* The lines of a text: where each begins.
Starts(text) ==
  SelectSeq([i \in 1 .. Len(text) + 1 |-> i], LAMBDA i : i = 1 \/ text[i - 1] = "nl")
LineEnd(text, k) == IF k = Len(Starts(text)) THEN Len(text) + 1 ELSE Starts(text)[k + 1] - 1
Indent(text, k) ==
  LET from == Starts(text)[k]
      black == {i \in from .. LineEnd(text, k) : i = LineEnd(text, k) \/ text[i] # "sp"}
  IN (CHOOSE i \in black : \A j \in black : i <= j) - from

\* trim_continuation_indent: what all lines after the first are indented by.
TrimContinuation(value) ==
  LET starts == Starts(value.text)
      later == 2 .. Len(starts)
      indent == Indent(value.text, CHOOSE k \in later : \A j \in later :
                                     Indent(value.text, k) <= Indent(value.text, j))
      from(k) == starts[k] + (IF k = 1 THEN 0 ELSE indent)
      to(k) == IF k = Len(starts) THEN Len(value.text) + 1 ELSE starts[k + 1]
  IN IF later = {} \/ indent = 0 THEN value
     ELSE FoldLeft(LAMBDA out, k : AppendPart(out, Slice(value, from(k), to(k))),
                   Nothing, [k \in DOMAIN starts |-> k])

\* concat_with: empty parts are no parts; a joint stands at the anchor.
ConcatWith(parts, joint, anchor) ==
  LET Push(out, part) ==
        AppendPart(IF out = Nothing THEN out ELSE PushMapped(out, joint, anchor, anchor), part)
  IN FoldLeft(Push, Nothing, SelectSeq(parts, LAMBDA p : p # Nothing))

\* The words: maximal runs of what is not white space.
WordRanges(text) ==
  LET black(i) == i \in DOMAIN text /\ text[i] \notin White
      starts == SelectSeq([i \in DOMAIN text |-> i], LAMBDA i : black(i) /\ ~ black(i - 1))
      to(i) == CHOOSE j \in i + 1 .. Len(text) + 1 :
                 ~ black(j) /\ \A k \in i .. j - 1 : black(k)
  IN [k \in DOMAIN starts |-> [from |-> starts[k], to |-> to(starts[k])]]

\* What a value says of its provenance is true: a position stands for the
\* token it was made from.
IsSourced(source, value) ==
  /\ \A i \in DOMAIN value.text :
       LET spans == SourceSpans(value, i, i + 1)
           made == SubSeq(source, spans[1].at, spans[1].end - 1)
       IN /\ Len(spans) = 1
          /\ made \in {<<value.text[i]>>, <<>>}
               \cup (IF value.text[i] = "@" THEN {<<"@", "@">>} ELSE {})
               \cup (IF value.text[i] = "nl" THEN {<<"cr", "nl">>} ELSE {})
          /\ made = <<>> => value.text[i] = "nl"
=============================================================================
