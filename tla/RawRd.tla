------------------------------- MODULE RawRd -------------------------------
(***************************************************************************)
(* Raw Rd macros in Markdown prose (markdown_conversion/raw_rd.rs): which  *)
(* stretches of the source are macros, and which of those may be taken out *)
(* of the event stream of the Markdown parser.                             *)
(*                                                                         *)
(* The source is a sequence of characters; a macro name the code knows is  *)
(* one character.  A range [from, to) is a record.  An event of the parser *)
(* has a type, a tag, the range it comes from, and says whether its text   *)
(* is that range of the source or something decoded from it.               *)
(*                                                                         *)
(* CandidateSweep walks the facts about the events once, with a cursor for *)
(* each kind and the ends of what is still open; what a candidate sees of  *)
(* it depends on the candidates before.  AcceptableAlone is the judgement  *)
(* it must come to, from all facts at once.                                *)
(***************************************************************************)
EXTENDS Integers, Sequences, FiniteSets, SequencesExt, FiniteSetsExt

RangeOf(from, to) == [from |-> from, to |-> to]
Overlap(a, b) == a.from < b.to /\ b.from < a.to
Inside(a, b) == b.from <= a.from /\ a.to <= b.to

-----------------------------------------------------------------------------
(* scan_source *)

Known == {"R", "tab", "eqn"}
Letters == Known \cup {"x"}

\* Backslashes right before i: an odd number escapes it.
EscapedIn(source, i) ==
  LET run == {k \in 1 .. i - 1 : \A j \in k .. i - 1 : source[j] = "\\"}
  IN Cardinality(run) % 2 = 1

\* scan_group: the end of the balanced group at open, or 0.
GroupEnd(source, open) ==
  LET count(c, j) == Cardinality({i \in open .. j : source[i] = c /\ ~ EscapedIn(source, i)})
      closes == {j \in open .. Len(source) : count("{", j) = count("}", j)}
  IN IF open > Len(source) \/ source[open] # "{" \/ closes = {} THEN 0 ELSE Min(closes) + 1

\* scan_option
OptionEnd(source, open) ==
  LET closes == {j \in open + 1 .. Len(source) : source[j] = "]" /\ ~ EscapedIn(source, j)}
  IN IF closes = {} THEN 0 ELSE Min(closes) + 1

\* scan_equation: one or two groups.
EquationGroups(source, open) ==
  LET first == GroupEnd(source, open)
      second == IF first # 0 /\ first <= Len(source) /\ source[first] = "{"
                THEN <<GroupEnd(source, first)>> ELSE <<>>
  IN IF first = 0 \/ second = <<0>> THEN <<>>
     ELSE <<RangeOf(open, first)>> \o (IF second = <<>> THEN <<>> ELSE <<RangeOf(first, second[1])>>)

NoMacro == [from |-> 0, to |-> 0, kind |-> "None", groups |-> <<>>]
MacroAt(source, start) ==
  LET past == {j \in start + 1 .. Len(source) + 1 :
                 j = Len(source) + 1 \/ source[j] \notin Letters}
      nameEnd == Min(past)
      name == IF nameEnd = start + 2 THEN source[start + 1] ELSE "x"
      next == IF nameEnd <= Len(source) THEN source[nameEnd] ELSE "end"
      option == OptionEnd(source, nameEnd)
      open == CASE next = "{" -> nameEnd
                [] next = "[" -> IF option # 0 /\ option <= Len(source) /\ source[option] = "{"
                                 THEN option ELSE 0
                [] OTHER -> 0
      groups == EquationGroups(source, open)
      Found(to, kind, g) == [from |-> start, to |-> to, kind |-> kind, groups |-> g]
  IN CASE nameEnd = start + 1 -> NoMacro
       [] name \in {"R", "tab"} /\ next \notin {"{", "["} ->
            Found(nameEnd, IF name = "R" THEN "Zero" ELSE "Unsupported", <<>>)
       [] open = 0 -> NoMacro
       [] name = "eqn" /\ next = "{" ->
            IF groups = <<>> THEN Found(Len(source) + 1, "Unsupported", <<>>)
            ELSE Found(Last(groups).to, "Equation", groups)
       [] OTHER -> IF GroupEnd(source, open) = 0 THEN NoMacro
                   ELSE Found(GroupEnd(source, open), "Unsupported", <<>>)

\* From the cursor, after run backslashes; code is skipped whole.
RECURSIVE ScanFrom(_, _, _, _)
ScanFrom(source, opaque, cursor, run) ==
  LET around == {o \in opaque : o.from <= cursor /\ cursor < o.to}
      macro == MacroAt(source, cursor)
  IN CASE cursor > Len(source) -> <<>>
       [] around # {} -> ScanFrom(source, opaque, (CHOOSE o \in around : TRUE).to, 0)
       [] source[cursor] # "\\" -> ScanFrom(source, opaque, cursor + 1, 0)
       [] run % 2 = 1 \/ macro = NoMacro -> ScanFrom(source, opaque, cursor + 1, run + 1)
       [] OTHER -> <<macro>> \o ScanFrom(source, opaque, macro.to, 0)
ScanSource(source, opaque) == ScanFrom(source, opaque, 1, 0)

\* is_representable: each line of each argument balances its own braces.
Balanced(line) ==
  LET level(j) == LET count(c) == Cardinality({i \in 1 .. j : line[i] = c /\ ~ EscapedIn(line, i)})
                  IN count("{") - count("}")
  IN (\A j \in DOMAIN line : level(j) >= 0) /\ level(Len(line)) = 0
LinesOf(text, newline) ==
  LET ends == {i \in DOMAIN text : text[i] = newline \/ i = Len(text)}
      end(k) == CHOOSE i \in ends : Cardinality({j \in ends : j <= i}) = k
  IN [k \in 1 .. Cardinality(ends) |-> SubSeq(text, IF k = 1 THEN 1 ELSE end(k - 1) + 1, end(k))]
IsRepresentable(source, macro) ==
  \A g \in DOMAIN macro.groups :
    LET lines == LinesOf(SubSeq(source, macro.groups[g].from + 1, macro.groups[g].to - 2), "nl")
    IN \A k \in DOMAIN lines : Balanced(lines[k])

-----------------------------------------------------------------------------
(* EventFacts *)

Blocks == {"Paragraph", "Heading1", "Heading2", "Heading3", "BlockQuote", "CodeBlock",
           "Itemize", "Enumerate", "Item", "Table", "TableHead", "TableRow", "TableCell"}
\* Sorted by start, then end.
Before(a, b) ==
  \/ a.from < b.from
  \/ a.from = b.from /\ a.to < b.to
  \/ a.from = b.from /\ a.to = b.to /\ a.id < b.id
InOrder(ranges) ==
  [i \in 1 .. Cardinality(ranges) |->
     CHOOSE r \in ranges : Cardinality({q \in ranges : Before(q, r)}) = i - 1]
Selected(events, Test(_)) == {i \in DOMAIN events : Test(events[i])}
Ranges(events, Test(_)) ==
  {[from |-> events[i].from, to |-> events[i].to, id |-> i] : i \in Selected(events, Test)}
OpaqueRanges(events) ==
  Ranges(events, LAMBDA e : e.type = "Code" \/ (e.type = "End" /\ e.tag = "CodeBlock"))
ConstructKind(e) ==
  CASE e.tag = "HtmlBlock" \/ (e.tag = "Link" /\ e.of.form = "autolink") -> "Closed"
    [] e.tag \in Blocks -> "Block"
    [] OTHER -> "Open"

FactsOf(events) ==
  [constructs |-> InOrder({[from |-> events[i].from, to |-> events[i].to, id |-> i,
                            kind |-> ConstructKind(events[i])] :
                             i \in Selected(events, LAMBDA e : e.type = "Start")}),
   text |-> InOrder({[from |-> events[i].from, to |-> events[i].to, id |-> i,
                      plain |-> events[i].plain] :
                       i \in Selected(events, LAMBDA e : e.type = "Text")}),
   html |-> InOrder(Ranges(events, LAMBDA e : e.type = "Html")),
   opaque |-> InOrder(OpaqueRanges(events)),
   coverage |-> InOrder(Ranges(events, LAMBDA e : e.type \in {"Text", "Break", "Html"}))]

-----------------------------------------------------------------------------
(* CandidateSweep.  A cursor is the index of the next fact. *)

Started == [constructs |-> 1, active |-> {}, html |-> 1, htmlEnd |-> 0, opaque |-> 1,
            opaqueEnd |-> 0, text |-> 1, coverage |-> 1, coverageEnd |-> 0, ok |-> TRUE]

\* The facts from the cursor on that start before the limit, and the next.
Passed(facts, cursor, limit) ==
  {i \in cursor .. Len(facts) : \A j \in cursor .. i : facts[j].from < limit}
After(cursor, passed) == cursor + Cardinality(passed)
\* The furthest end beyond the candidate among old and passed ones.
StillOpen(old, facts, passed, c) ==
  Max({old} \cup {facts[i].to : i \in {j \in passed : facts[j].to > c.to}})

HtmlBoundariesAllow(s, facts, c) ==
  LET passed == Passed(facts.html, s.html, c.to)
      end == StillOpen(IF s.htmlEnd <= c.from THEN 0 ELSE s.htmlEnd, facts.html, passed, c)
  IN [s EXCEPT !.html = After(@, passed), !.htmlEnd = end,
               !.ok = /\ \A i \in passed : Overlap(facts.html[i], c) => Inside(facts.html[i], c)
                      /\ end <= c.from]

OpaqueApart(s, facts, c) ==
  LET passed == Passed(facts.opaque, s.opaque, c.to)
  IN [s EXCEPT !.opaque = After(@, passed),
               !.opaqueEnd = StillOpen(@, facts.opaque, passed, c),
               !.ok = /\ ~ (s.opaqueEnd > c.from /\ s.opaqueEnd < c.to)
                      /\ \A i \in passed :
                           Overlap(facts.opaque[i], c) => Inside(c, facts.opaque[i])]

\* A construct that is open around the candidate's start.
Surrounds(construct, c) ==
  construct.to >= c.to /\ (construct.to > c.to => construct.kind # "Closed")
Contained(s, facts, c) ==
  {i \in Passed(facts.constructs, s.constructs, c.to) : Inside(facts.constructs[i], c)}
\* Mutant: constructs that were open before stay open.
ConstructsAllow_KeepActive(s, facts, c) ==
  LET passed == Passed(facts.constructs, s.constructs, c.to)
      k(i) == facts.constructs[i]
      early == {i \in passed : k(i).from < c.from /\ k(i).to > c.from}
      late == {i \in passed : k(i).from >= c.from /\ k(i).to > c.to}
  IN [s EXCEPT !.constructs = After(@, passed), !.active = @ \cup early \cup late,
               !.ok = /\ \A i \in s.active \cup early : Surrounds(k(i), c)
                      /\ \A i \in late : k(i).from = c.from /\ k(i).kind = "Block"
                      /\ \A i \in Contained(s, facts, c) :
                           k(i).kind = "Block" => k(i).from = c.from /\ k(i).to = c.to]
ConstructsAllow(s, facts, c) ==
  LET passed == Passed(facts.constructs, s.constructs, c.to)
      k(i) == facts.constructs[i]
      active == {i \in s.active : k(i).to > c.from}
      early == {i \in passed : k(i).from < c.from /\ k(i).to > c.from}
      late == {i \in passed : k(i).from >= c.from /\ k(i).to > c.to}
  IN [s EXCEPT !.constructs = After(@, passed), !.active = active \cup early \cup late,
               !.ok = /\ \A i \in active \cup early : Surrounds(k(i), c)
                      /\ \A i \in late : k(i).from = c.from /\ k(i).kind = "Block"
                      /\ \A i \in Contained(s, facts, c) :
                           k(i).kind = "Block" => k(i).from = c.from /\ k(i).to = c.to]

\* The first text event from the cursor on that ends after the boundary.
Reaching(facts, cursor, boundary) ==
  LET ahead == {i \in cursor .. Len(facts.text) : facts.text[i].to > boundary}
  IN IF ahead = {} THEN Len(facts.text) + 1 ELSE Min(ahead)
BoundariesAreAligned(s, facts, c) ==
  LET first == Reaching(facts, s.text, c.from)
      last == Reaching(facts, first, c.to)
      splits(i, b) == i <= Len(facts.text) /\ facts.text[i].from < b /\ ~ facts.text[i].plain
  IN [s EXCEPT !.text = last, !.ok = ~ splits(first, c.from) /\ ~ splits(last, c.to)]

Fill(source, state, range) ==
  [at |-> Max({state.at, range.to}),
   gap |-> state.gap \/ /\ range.from > state.at
                        /\ SubSeq(source, state.at, range.from - 1) # <<"\\">>]
CoverageComplete(s, facts, c, source, contained) ==
  LET before == Passed(facts.coverage, s.coverage, c.from)
      passed == Passed(facts.coverage, s.coverage, c.to)
      open == IF s.coverageEnd <= c.from THEN 0 ELSE s.coverageEnd
      from == Max({c.from, open} \cup {facts.coverage[i].to : i \in before})
      ranges == InOrder({facts.coverage[i] : i \in passed \ before}
                          \cup {[from |-> facts.constructs[i].from, to |-> facts.constructs[i].to,
                                 id |-> facts.constructs[i].id] : i \in contained})
      done == FoldLeft(LAMBDA st, r : Fill(source, st, r), [at |-> from, gap |-> FALSE], ranges)
      end == StillOpen(open, facts.coverage, passed, c)
  IN [s EXCEPT !.coverage = After(@, passed),
               !.coverageEnd = IF end <= c.to THEN 0 ELSE end,
               !.ok = ~ done.gap /\ done.at >= c.to]

\* accepts_candidate: a check that fails leaves the cursors of the later
\* ones where they are.
AcceptsCandidate(s0, facts, c, source) ==
  LET html == HtmlBoundariesAllow(s0, facts, c)
      opaque == OpaqueApart(html, facts, c)
      constructs == ConstructsAllow(opaque, facts, c)
      aligned == BoundariesAreAligned(constructs, facts, c)
  IN CASE ~ html.ok -> html
       [] ~ opaque.ok -> opaque
       [] ~ constructs.ok -> constructs
       [] ~ aligned.ok -> aligned
       [] OTHER -> CoverageComplete(aligned, facts, c, source, Contained(opaque, facts, c))

\* RawRdPreparation::new: the macros to splice and those to report.
Judge(facts, source, state, c) ==
  LET s == IF c.kind = "Unsupported" THEN [state.sweep EXCEPT !.ok = FALSE]
           ELSE AcceptsCandidate(state.sweep, facts, c, source)
  IN IF s.ok /\ IsRepresentable(source, c)
     THEN [state EXCEPT !.sweep = s, !.macros = Append(@, c)]
     ELSE [state EXCEPT !.sweep = s, !.unsupported = Append(@, c)]
Prepared(source, events) ==
  LET facts == FactsOf(events)
  IN FoldLeft(LAMBDA state, c : Judge(facts, source, state, c),
              [sweep |-> Started, macros |-> <<>>, unsupported |-> <<>>],
              ScanSource(source, OpaqueRanges(events)))

-----------------------------------------------------------------------------
(* The judgement without a sweep (a reference, not code). *)

Contents(facts) == {facts.coverage[i] : i \in DOMAIN facts.coverage}
InnerConstructs(facts, c) ==
  {facts.constructs[i] : i \in {j \in DOMAIN facts.constructs : Inside(facts.constructs[j], c)}}
Uncovered(facts, c) ==
  {p \in c.from .. c.to - 1 :
     \A r \in Contents(facts) \cup InnerConstructs(facts, c) : ~ (r.from <= p /\ p < r.to)}

AcceptableAlone(facts, source, c) ==
  /\ \A i \in DOMAIN facts.html : Overlap(facts.html[i], c) => Inside(facts.html[i], c)
  /\ \A i \in DOMAIN facts.opaque : Overlap(facts.opaque[i], c) => Inside(c, facts.opaque[i])
  /\ \A i \in DOMAIN facts.constructs :
       LET k == facts.constructs[i] IN
       Overlap(k, c) =>
         \/ k.from < c.from /\ Surrounds(k, c)
         \/ k.from = c.from /\ k.to > c.to /\ k.kind = "Block"
         \/ Inside(k, c) /\ (k.kind = "Block" => Inside(c, k))
  /\ \A i \in DOMAIN facts.text : \A b \in {c.from, c.to} :
       facts.text[i].from < b /\ b < facts.text[i].to => facts.text[i].plain
  /\ \A p \in Uncovered(facts, c) :
       /\ source[p] = "\\" /\ p + 1 < c.to
       /\ p + 1 \notin Uncovered(facts, c)

=============================================================================
