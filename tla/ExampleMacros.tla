--------------------------- MODULE ExampleMacros ---------------------------
(***************************************************************************)
(* Raw Rd macros in the R code of examples (rd/examples_raw_rd.rs).  The   *)
(* source is a sequence of tokens.  The R parser marks the braces and the  *)
(* backslashes that are neither in a string nor in a comment: "{", "}" and *)
(* "\\"; the same characters inside one are only text.  A name is a token. *)
(*                                                                         *)
(* The result is the nodes of the examples, the pieces of the source that  *)
(* are their leaves, and the issues found, each with its range.            *)
(***************************************************************************)
EXTENDS RdPieces, FiniteSets

RLike == {"dontshow"}         \* and \donttest, \testonly, \dontdiff
Supported == RLike \cup {"dontrun"}
MacroNames == Supported \cup {"x"}

\* Braces the R parser marks, and tokens that are code and never markup.
Opening == "{"
Closing == "}"
CodeTokens == {"c", "nl", "(", "text{", "text}", "text\\"}

Least(S) == CHOOSE i \in S : \A j \in S : i <= j
FirstAt(source, token, from, to) == {i \in from .. to - 1 : source[i] = token}
Token(source, i) == IF i \in DOMAIN source THEN source[i] ELSE "end"

\* find_matching_close: just past the brace that balances the one at open.
Close(source, open, end) ==
  LET count(t, j) == Cardinality(FirstAt(source, t, open, j + 1))
      closes == {j \in open .. end - 1 : count(Opening, j) = count(Closing, j)}
  IN IF closes = {} THEN 0 ELSE Least(closes) + 1

\* scan_option: a backslash escapes the next token; not by the R markers.
OptionClose(source, open, end) ==
  LET escaped(i) ==
        LET run == {k \in open + 1 .. i - 1 : \A j \in k .. i - 1 : source[j] \in {"\\", "text\\"}}
        IN Cardinality(run) % 2 = 1
      closes == {i \in FirstAt(source, "]", open + 1, end) : ~ escaped(i)}
  IN IF closes = {} THEN 0 ELSE Least(closes) + 1

\* scan_candidate: what the backslash begins.
Candidate(source, at, end) ==
  LET named == at + 1 < end /\ source[at + 1] \in MacroNames
      name == source[at + 1]
      option == at + 2 < end + 1 /\ Token(source, at + 2) = "["
      optionEnd == OptionClose(source, at + 2, end)
      open == IF option THEN optionEnd ELSE at + 2
      close == Close(source, open, end)
      known == named /\ ~ option /\ name \in Supported
      Unsupported(to, from) == [as |-> "Unsupported", to |-> to, open |-> from]
  IN IF ~ named THEN Unsupported(at + 1, 0)
     ELSE IF option /\ optionEnd = 0 THEN Unsupported(end, 0)
     ELSE IF Token(source, open) # Opening THEN Unsupported(open, 0)
     ELSE IF known /\ close # 0 THEN [as |-> "Supported", to |-> close, open |-> open]
     ELSE IF known THEN [as |-> "Unterminated", to |-> open + 1, open |-> open]
     ELSE Unsupported(IF close = 0 THEN end ELSE close, open)

Opaque(name) == name = "dontrun"
\* Mutant: an unsupported macro is passed over in silence.
Issue_Quiet(as, at, to) == {}
Issue(as, at, to) == {[as |-> as, from |-> at, to |-> to]}

\* A piece of the source: one node a line.
Piece(source, tag, from, to) ==
  LET newlines == Cardinality(FirstAt(source, "nl", from, to))
      ends == source[to - 1] = "nl"
      text == [lines |-> IF ends THEN newlines ELSE newlines + 1, ends |-> ends]
  IN IF from < to
     THEN [nodes |-> Lines(tag, text), issues |-> {},
           leaves |-> {[tag |-> tag, from |-> from, to |-> to]}]
     ELSE [nodes |-> <<>>, issues |-> {}, leaves |-> {}]
\* One lowered part and what follows it.
Then(part, rest) ==
  [nodes |-> part.nodes \o rest.nodes, leaves |-> part.leaves \cup rest.leaves,
   issues |-> part.issues \cup rest.issues]

\* One turn of lower_rlike over [literal, end) from the cursor on; what the
\* turns after it give is in lower.
LowerFrom(source, lower, literal, cursor, end) ==
  LET starts == {i \in FirstAt(source, "\\", cursor, end) :
                   ~ (i + 1 < end /\ source[i + 1] = "(")}
      Body(at, found) ==
        IF Opaque(source[at + 1]) THEN Piece(source, "Verb", found.open + 1, found.to - 1)
        ELSE lower[<<found.open + 1, found.open + 1, found.to - 1>>]
      Rest(found) ==
        lower[<<IF found.as = "Supported" THEN found.to ELSE literal,
                IF found.as = "Unterminated" THEN end ELSE found.to, end>>]
      Macro(at, found) ==
        Then(Piece(source, "RCode", literal, at),
             Then([Body(at, found) EXCEPT !.nodes = <<Holding(@)>>], Rest(found)))
      Judged(at, found) ==
        IF found.as = "Supported" THEN Macro(at, found)
        ELSE [Rest(found) EXCEPT !.issues = Issue(found.as, at, found.to) \cup @]
      FromFirst(at) == Judged(at, Candidate(source, at, end))
  IN IF starts = {} THEN Piece(source, "RCode", literal, end) ELSE FromFirst(Least(starts))
LowerRlike(source) ==
  LET lower[turn \in Nat \X Nat \X Nat] == LowerFrom(source, lower, turn[1], turn[2], turn[3])
  IN lower
Lower(source) == LowerRlike(source)[<<1, 1, Len(source) + 1>>]

=============================================================================
