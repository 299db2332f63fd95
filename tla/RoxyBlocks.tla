----------------------------- MODULE RoxyBlocks -----------------------------
(***************************************************************************)
(* Which expression a roxygen line documents (arity_adapter/window.rs,     *)
(* lines.rs) and how the lines of a block become an intro and raw tags     *)
(* (reduce.rs).  Positions are those of the tokens of a file, ranges are   *)
(* half open: at .. end-1.                                                 *)
(*                                                                         *)
(* The parser is a crate; what it finds is defined here from the tokens:   *)
(* "x" and "s" (a string with a marker in it) are expressions, "{" .. "}"  *)
(* is one, ";" ends one, "#" begins a comment and "#'" a roxygen comment.  *)
(***************************************************************************)
EXTENDS SourcedTexts, FiniteSets

CONSTANT TagNames  \* tokens that can follow "@"

First(S) == CHOOSE i \in S : \A j \in S : i <= j
Final(S) == CHOOSE i \in S : \A j \in S : i >= j
From(file) == 1 .. Len(file) + 1

-----------------------------------------------------------------------------
(* The parser *)

LineStart(file, i) == Final({1} \cup {j \in 2 .. i : file[j - 1] = "nl"})
LineStop(file, i) == First({j \in i .. Len(file) + 1 : j > Len(file) \/ file[j] = "nl"})
InComment(file, i) == \E j \in LineStart(file, i) .. i : file[j] \in {"#", "#'"}
Markers(file) == {i \in DOMAIN file : /\ file[i] = "#'"
                                      /\ ~ (i > LineStart(file, i) /\ InComment(file, i - 1))}

\* One pass over the tokens: the braces open, where the first of them is.
Expressions(file) ==
  LET Step(s, i) ==
        CASE file[i] = "nl" -> [s EXCEPT !.comment = FALSE]
          [] s.comment -> s
          [] file[i] \in {"#", "#'"} -> [s EXCEPT !.comment = TRUE]
          [] file[i] = "{" -> [s EXCEPT !.depth = @ + 1, !.at = IF s.depth = 0 THEN i ELSE @]
          [] file[i] = "}" ->
               [s EXCEPT !.depth = @ - 1,
                         !.out = IF s.depth = 1 THEN Append(@, [at |-> s.at, end |-> i + 1]) ELSE @]
          [] file[i] \in {"x", "s"} /\ s.depth = 0 ->
               [s EXCEPT !.out = Append(@, [at |-> i, end |-> i + 1])]
          [] OTHER -> s
  IN FoldLeft(Step, [comment |-> FALSE, depth |-> 0, at |-> 0, out |-> <<>>],
              [i \in DOMAIN file |-> i]).out

\* A block: markers on lines that follow each other, with nothing but white
\* space before all of them but the first.
Blank(file, from, to) == \A i \in from .. to - 1 : file[i] = "sp"
ArityBlocks(file) ==
  LET markers == Markers(file)
      line(m) == LineStart(file, m)
      continues == {m \in markers : /\ Blank(file, line(m), m) /\ line(m) > 1
                                    /\ \E p \in markers : line(p) = LineStart(file, line(m) - 1)}
      starts == SelectSeq([i \in DOMAIN file |-> i], LAMBDA i : i \in markers \ continues)
      final(k) == Final({m \in markers : m < IF k = Len(starts) THEN Len(file) + 1 ELSE starts[k + 1]})
  IN [k \in DOMAIN starts |-> [at |-> starts[k], end |-> LineStop(file, final(k))]]

-----------------------------------------------------------------------------
(* lines.rs *)

\* source_line_end: before CR LF as before LF.
SourceLineEnd(file, at, limit) ==
  LET stop == First({limit} \cup {j \in at .. limit - 1 : file[j] = "nl"})
  IN IF stop > at /\ file[stop - 1] = "cr" THEN stop - 1 ELSE stop

\* roxygen_marker_start: the first marker from the start of the block on.
\* Mutant: from the start of the line on.
BlockMarker_FromLine(file, at, end) ==
  First({j \in LineStart(file, at) .. end - 1 : file[j] \in {"#'", "s"}})
BlockMarker(file, at, end) == First({j \in at .. end - 1 : file[j] \in {"#'", "s"}})
\* prefix_marker_start, for the lines after it.
PrefixMarker(file, at, end) == First({j \in at .. end : j = end \/ file[j] # "sp"})

\* prefix_content_start: the marker and one white space are no content.
ContentStart(file, marker, end) ==
  IF marker >= end \/ file[marker] # "#'" THEN end
  ELSE IF marker + 1 < end /\ file[marker + 1] = "sp" THEN marker + 2 ELSE marker + 1

\* physical_lines: each with its marker, as collect_window_lines finds it.
RECURSIVE PhysicalLines(_, _, _, _)
PhysicalLines(file, block, at, first) ==
  LET end == SourceLineEnd(file, at, block.end)
      marker == IF first THEN BlockMarker(file, block.at, end) ELSE PrefixMarker(file, at, end)
      next == end + (IF file[end] = "cr" THEN 2 ELSE 1)
  IN <<[at |-> at, end |-> end, content |-> ContentStart(file, marker, end), marker |-> marker]>>
     \o (IF end >= block.end \/ next >= block.end THEN <<>>
         ELSE PhysicalLines(file, block, next, FALSE))
LinesOf(file, block) == PhysicalLines(file, block, LineStart(file, block.at), TRUE)

-----------------------------------------------------------------------------
(* window.rs *)

\* expression_windows: from the end of the expression before to its own.
Windows(file) ==
  LET e == Expressions(file)
  IN [k \in DOMAIN e |-> [at |-> IF k = 1 THEN 1 ELSE e[k - 1].end, end |-> e[k].end]]
WindowOf(windows, marker) ==
  {k \in DOMAIN windows : windows[k].at <= marker /\ marker < windows[k].end}

\* eligible_marker_line: only blanks between the marker and the start of its
\* line, or of the window when that is on the same line.
Eligible(file, window, line) ==
  LET physical == LineStart(file, line.at)
      from == IF LineStart(file, window.at) = physical THEN window.at ELSE physical
  IN Blank(file, from, line.marker)

\* Where one line goes: a window, or none.  Its span begins no earlier than
\* the window does.
Most(a, b) == IF a > b THEN a ELSE b
Placement(file, windows, line) ==
  LET in == WindowOf(windows, line.marker)
      k == First(in)
      ok == in # {} /\ Eligible(file, windows[k], line)
  IN IF ok
     THEN [window |-> k, line |-> [line EXCEPT !.at = Most(windows[k].at, @)]]
     ELSE [window |-> 0, line |-> line]

-----------------------------------------------------------------------------
(* reduce.rs *)

\* tag_head: the content of the line starts with "@" and a name.
HasHead(file, line) ==
  /\ line.content + 1 < line.end
  /\ file[line.content] = "@" /\ file[line.content + 1] \in TagNames

\* reduce_lines.  A section goes on to the next head or the last line.
\* Mutant: the first line after the intro is its last.
IntroLines_Overlap(heads, lines) == SubSeq(lines, 1, IF heads = <<>> THEN Len(lines) ELSE heads[1])
IntroLines(heads, lines) ==
  SubSeq(lines, 1, IF heads = <<>> THEN Len(lines) ELSE heads[1] - 1)
Reduce(file, lines) ==
  LET heads == SelectSeq([i \in DOMAIN lines |-> i], LAMBDA i : HasHead(file, lines[i]))
      content(line) == [at |-> line.content, end |-> line.end]
      next(k) == IF k = Len(heads) THEN Len(lines) + 1 ELSE heads[k + 1]
      value(k) ==
        LET i == heads[k]
        IN <<[at |-> lines[i].content + 2, end |-> lines[i].end]>>
             \o [j \in 1 .. next(k) - i - 1 |-> content(lines[i + j])]
      stop(k) == IF next(k) > Len(lines) THEN Last(lines).end ELSE lines[next(k)].marker
      intro == IntroLines(heads, lines)
  IN [intro |-> [i \in DOMAIN intro |-> content(intro[i])],
      tags |-> [k \in DOMAIN heads |->
                  LET at == lines[heads[k]].content
                  IN [name |-> file[at + 1], lines |-> value(k),
                      span |-> [at |-> at + 2, end |-> stop(k)],
                      full |-> [at |-> at, end |-> stop(k)]]]]

=============================================================================
