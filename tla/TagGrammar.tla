----------------------------- MODULE TagGrammar -----------------------------
(***************************************************************************)
(* What a tag's value means (tags/registry.rs, param.rs, inherit.rs,       *)
(* section.rs, words.rs, the grammars of mod.rs and the links of           *)
(* markdown.rs).  A grammar takes a value with provenance and returns the  *)
(* parsed tag, if any, and what it says: a code and a source range each.   *)
(*                                                                         *)
(* A parsed tag is its kind, its parts (values with provenance) and its    *)
(* words.                                                                  *)
(***************************************************************************)
EXTENDS RoxyBlocks

-----------------------------------------------------------------------------
(* registry.rs *)

Prose == {"title", "description", "details", "return", "returns", "seealso", "references",
          "note", "format", "source", "author"}
Imports == {"importFrom", "importClassesFrom", "importMethodsFrom"}
NamespaceTags == Imports \cup {"export", "exportS3Method", "import", "rawNamespace",
                               "useDynLib", "exportPattern", "exportClass", "exportMethod"}
Evaluated == {"eval", "evalRd", "evalNamespace", "template", "templateVar", "includeRmd"}
Known == Prose \cup NamespaceTags \cup Evaluated \cup
         {"param", "name", "rdname", "docType", "aliases", "include", "keywords", "noRd",
          "examples", "examplesIf", "usage", "method", "order", "inherit", "inheritSection",
          "inheritParams", "section", "md", "noMd"}

\* ValueRequirement; all other tags require a value.
Forbidden == {"noRd", "md"}
Allowed == Evaluated \cup {"export", "exportS3Method", "import", "importFrom", "noMd"}
Requirement(name) ==
  IF name \in Forbidden THEN "Forbidden" ELSE IF name \in Allowed THEN "Allowed" ELSE "Required"

\* Multiline; all other tags have one line.
Always == Prose \cup Evaluated \cup {"param", "docType", "examples", "examplesIf", "usage",
                                     "inherit", "section", "rawNamespace"}
Multiline(name) ==
  IF name \in Imports THEN "Indent" ELSE IF name \in Always THEN "Always" ELSE "Never"

\* These grammars judge an empty value on their own.
SelfChecking == {"param", "examplesIf", "inherit", "inheritSection", "inheritParams"}

-----------------------------------------------------------------------------
(* Results *)

Said(code, span) == [code |-> code, span |-> span]
Refused(code, span) == [tag |-> <<>>, said |-> <<Said(code, span)>>]
Meaning(kind, parts, words) == [kind |-> kind, parts |-> parts, words |-> words]
Parsed(kind, parts, words) == [tag |-> <<Meaning(kind, parts, words)>>, said |-> <<>>]
Whole(value, raw) == ValueSpan(value, 1, Len(value.text) + 1, raw.span)
Part(value, range) == Slice(value, range.from, range.to)
Spelled(value, range) == SubSeq(value.text, range.from, range.to - 1)
WordsOf(value) ==
  LET ranges == WordRanges(value.text)
  IN [k \in DOMAIN ranges |-> Spelled(value, ranges[k])]

-----------------------------------------------------------------------------
(* @param *)

SkipWhite(text, i) == First({j \in i .. Len(text) + 1 : j > Len(text) \/ text[j] \notin White})
Least(a, b) == IF a < b THEN a ELSE b
At(text, i) == IF i \in DOMAIN text THEN text[i] ELSE "end"

\* The names, where the description starts (0: nowhere), what is said; in a
\* fatal case no tag.
RECURSIVE Names(_, _, _, _)
Names(value, raw, cursor0, done) ==
  LET text == value.text
      cursor == SkipWhite(text, cursor0)
      span(from, to) == ValueSpan(value, from, to, raw.span)
      say(from, to) == [done EXCEPT !.said = Append(@, Said("TagParseError", span(from, to)))]
      quoted == At(text, cursor) = "tick"
      closes == {j \in cursor + 1 .. Len(text) : text[j] = "tick"}
      bare == First({j \in cursor .. Len(text) + 1 : At(text, j) \in White \cup {",", "end"}})
      to == IF quoted THEN First(closes) + 1 ELSE bare
      content == IF quoted THEN [from |-> cursor + 1, to |-> to - 1]
                 ELSE [from |-> cursor, to |-> to]
      named == \E j \in content.from .. content.to - 1 : text[j] \notin White
      next == IF named THEN [done EXCEPT !.names = Append(@, Spelled(value, content))]
              ELSE say(cursor, to)
      after == SkipWhite(text, to)
      trailing == [next EXCEPT !.said = Append(@, Said("TagParseError", span(after, after + 1)))]
  IN IF cursor > Len(text) THEN done
     ELSE IF text[cursor] = "," THEN Names(value, raw, cursor + 1, say(cursor, cursor + 1))
     ELSE IF quoted /\ closes = {}
     THEN [say(cursor, Len(text) + 1) EXCEPT !.fatal = TRUE]
     ELSE IF quoted /\ At(text, to) \notin White \cup {",", "end"}
     THEN [say(cursor, to) EXCEPT !.fatal = TRUE]
     ELSE IF At(text, after) = ","
     THEN IF after = Len(text) THEN trailing ELSE Names(value, raw, after + 1, next)
     ELSE [next EXCEPT !.start = IF after > Len(text) THEN 0 ELSE after]

ParseParam(raw, value) ==
  LET description(start) ==
        TrimContinuation(TrimOuter(Slice(value, start, Len(value.text) + 1)))
      missing == Said("TagParseError", Whole(value, raw))
      Param(found) ==
        IF found.fatal THEN [tag |-> <<>>, said |-> found.said]
        ELSE IF found.names = <<>> \/ found.start = 0
        THEN [tag |-> <<>>, said |-> Append(found.said, missing)]
        ELSE [tag |-> <<Meaning("param", <<description(found.start)>>, found.names)>>,
              said |-> found.said]
  IN Param(Names(value, raw, 1, [names |-> <<>>, start |-> 0, said |-> <<>>, fatal |-> FALSE]))

-----------------------------------------------------------------------------
(* @inherit, @inheritParams, @inheritSection *)

InheritFields == {"params", "return", "title", "description", "details", "seealso", "sections",
                  "references", "examples", "author", "source", "note", "format"}

\* parse_inherit_field
IsField(word) == \E f \in InheritFields : word = <<f>>

\* All fields when none is named; a name that is no field is said and skipped.
ParseInherit(raw, value) ==
  LET words == WordRanges(value.text)
      is(k) == IsField(Spelled(value, words[k]))
      others == [k \in 1 .. Len(words) - 1 |-> k + 1]
      wrong == SelectSeq(others, LAMBDA k : ~ is(k))
      span(k) == ValueSpan(value, words[k].from, words[k].to, raw.span)
  IN IF words = <<>> THEN Refused("TagParseError", Whole(value, raw))
     ELSE [tag |-> <<Meaning("inherit", <<Part(value, words[1])>>,
                             LET right == SelectSeq(others, is)
                             IN [k \in DOMAIN right |-> Spelled(value, words[right[k]])])>>,
           said |-> [k \in DOMAIN wrong |-> Said("TagParseError", span(wrong[k]))]]

\* name and -name; anything else ends the tag.
IsRName(word) == word # <<>> /\ Head(word) \notin {"-", "1", ",", "tick", ":"}
                   /\ \A i \in DOMAIN word : word[i] \notin {"-", ",", "tick", ":", "[", "]", "{", "}"}
IsSelector(word) == IsRName(word) \/ (Head(word) = "-" /\ IsRName(Tail(word)))
ParseInheritParams(raw, value) ==
  LET words == WordRanges(value.text)
      wrong == {k \in 2 .. Len(words) : ~ IsSelector(Spelled(value, words[k]))}
  IN IF words = <<>> THEN Refused("TagParseError", Whole(value, raw))
     ELSE IF wrong # {}
     THEN Refused("UnsupportedSelection",
                  ValueSpan(value, words[First(wrong)].from, words[First(wrong)].to, raw.span))
     ELSE Parsed("inheritParams", <<Part(value, words[1])>>, Tail(WordsOf(value)))

ParseInheritSection(raw, value) ==
  LET words == WordRanges(value.text)
      span(r) == ValueSpan(value, r.from, r.to, raw.span)
      title == [from |-> words[2].from, to |-> words[Len(words)].to]
  IN IF words = <<>> THEN Refused("TagParseError", Whole(value, raw))
     ELSE IF Spelled(value, words[1]) = <<"NULL">> \/ Len(words) = 1
     THEN Refused("TagParseError", span(words[1]))
     ELSE Parsed("inheritSection", <<Part(value, words[1]), Part(value, title)>>, <<>>)

-----------------------------------------------------------------------------
(* markdown.rs: links to topics; section.rs: the colon after the title *)

Bracket == {"[", "]"}
\* The next bracket after i.
NextBracket(text, i) == First({j \in i + 1 .. Len(text) + 1 : At(text, j) \in Bracket \cup {"end"}})

\* recognize_roxygen_link: an envelope from .. to-1 of one or two groups.
Recognized(text, from, middle, to) ==
  /\ ~ (from > 1 /\ text[from - 1] \in {"]", "\\"})
  /\ At(text, to) \notin {"[", "{"}
  /\ IF middle = 0 THEN to > from + 2
     ELSE middle > from + 1 /\ to > middle + 3

\* roxygen_link_ranges
RECURSIVE LinkRanges(_, _)
LinkRanges(text, cursor) ==
  LET open == First({j \in cursor .. Len(text) + 1 : At(text, j) \in {"[", "end"}})
      first == NextBracket(text, open)
      two == At(text, first + 1) = "["
      second == NextBracket(text, first + 1)
      to == IF two THEN second + 1 ELSE first + 1
      link == IF Recognized(text, open, IF two THEN first ELSE 0, to)
              THEN <<[from |-> open, to |-> to]>> ELSE <<>>
  IN IF open > Len(text) THEN <<>>
     ELSE IF open > 1 /\ text[open - 1] \in {"]", "\\"} THEN LinkRanges(text, open + 1)
     ELSE IF At(text, first) = "[" THEN LinkRanges(text, first)
     ELSE IF At(text, first) = "end" THEN <<>>
     ELSE IF two /\ At(text, second) = "[" THEN LinkRanges(text, second)
     ELSE IF two /\ At(text, second) = "end" THEN <<>>
     ELSE link \o LinkRanges(text, to)

\* Mutant: links are no different from other text.
Protected_Nothing(text) == {}
\* protected_markdown_ranges: what is in a link; a code span is one token.
Protected(text) ==
  LET links == LinkRanges(text, 1)
  IN UNION {links[k].from .. links[k].to - 1 : k \in DOMAIN links}

\* split_section_title: the first colon that is neither protected, nor
\* escaped, nor in braces; 0 when there is none.
SplitSectionTitle(text) ==
  LET guarded == Protected(text)
      Step(s, i) ==
        IF s.at # 0 \/ i \in guarded THEN s
        ELSE IF s.escaped THEN [s EXCEPT !.escaped = FALSE]
        ELSE CASE text[i] = "\\" -> [s EXCEPT !.escaped = TRUE]
               [] text[i] = "{" -> [s EXCEPT !.depth = @ + 1]
               [] text[i] = "}" -> [s EXCEPT !.depth = @ - 1]
               [] text[i] = ":" /\ s.depth = Len(text) -> [s EXCEPT !.at = i]
               [] OTHER -> s
  IN FoldLeft(Step, [at |-> 0, escaped |-> FALSE, depth |-> Len(text)],
              [i \in DOMAIN text |-> i]).at

-----------------------------------------------------------------------------
(* mod.rs *)

\* apply_multiline.  A value of too many lines is said and kept; a value
\* with a line that does not hang is said and cut before it.
ApplyMultiline(raw, value) ==
  LET text == value.text
      n == Len(Starts(text))
      blank(k) == Blank(text, Starts(text)[k], LineEnd(text, k))
      wrong == {k \in 2 .. n : blank(k) \/ Indent(text, k) <= Indent(text, 1)}
      from == Starts(text)[First(wrong)]
      to == IF from > Len(text) THEN from ELSE from + 1
      policy == Multiline(raw.name)
  IN IF n <= 1 \/ policy = "Always" \/ (policy = "Indent" /\ wrong = {})
     THEN [value |-> value, said |-> <<>>]
     ELSE IF policy = "Never"
     THEN [value |-> value, said |-> <<Said("TagParseError", Whole(value, raw))>>]
     ELSE [value |-> Slice(value, 1, from - 1),
           said |-> <<Said("TagParseError", ValueSpan(value, from, to, raw.span))>>]

IsNull(value) == value.text = <<"NULL">>

\* The condition of @examplesIf is its first line; "bad" is no R.
ParseExamplesIf(raw, value) ==
  LET end == LineEnd(value.text, 1)
      body == Slice(value, Least(end + 1, Len(value.text) + 1), Len(value.text) + 1)
      blank(v) == \A i \in DOMAIN v.text : v.text[i] \in White
      condition == Slice(value, 1, end)
  IN IF blank(condition) \/ \E i \in DOMAIN condition.text : condition.text[i] = "bad"
     THEN Refused("InvalidExamplesIfCondition", ValueSpan(value, 1, end, raw.span))
     ELSE IF blank(body)
     THEN Refused("EmptyExamplesIfBody",
                  ValueSpan(value, Least(end + 1, Len(value.text) + 1), Len(value.text) + 1, raw.span))
     ELSE Parsed("examples", <<condition, body>>, <<>>)

\* @section.  Without a colon: a title of several lines is refused, one of
\* one line is a section without a body; both are said.
ParseSection(raw, value) ==
  LET end == Len(value.text) + 1
      long == \E i \in DOMAIN value.text : value.text[i] = "nl"
      wrong == Refused("TagParseError", Whole(value, raw))
      Section(colon) ==
        IF colon # 0
        THEN Parsed("section", <<Slice(value, 1, colon), Slice(value, colon + 1, end)>>, <<>>)
        ELSE IF long THEN wrong
        ELSE [wrong EXCEPT !.tag = <<Meaning("section", <<value, Nothing>>, <<>>)>>]
  IN Section(SplitSectionTitle(value.text))

\* @aliases: NULL among the words suppresses the default aliases.
ParseAliases(value) ==
  LET words == WordsOf(value)
      isNull(w) == w = <<"NULL">>
  IN Parsed(IF \E k \in DOMAIN words : isNull(words[k]) THEN "aliasesOnly" ELSE "aliases",
            <<value>>, SelectSeq(words, LAMBDA w : ~ isNull(w)))

\* @method takes two words, @docType one or NULL, @order a number.
MethodFails(words) == Len(words) # 2
DocTypeFails(value, words) == ~ IsNull(value) /\ Len(words) # 1
OrderFails(value) == value.text # <<"1">>
\* @include: a path that does not stay in the package.
InvalidIncludePath(word) == word # <<"f.R">>

\* parse_tag: all other kinds keep the whole value, or check its words.
ParseTag(raw, value) ==
  LET words == WordsOf(value)
      ranges == WordRanges(value.text)
      invalid == {k \in DOMAIN words : InvalidIncludePath(words[k])}
      fails == \/ raw.name = "method" /\ MethodFails(words)
               \/ raw.name = "docType" /\ DocTypeFails(value, words)
               \/ raw.name = "order" /\ OrderFails(value)
  IN CASE raw.name = "param" -> ParseParam(raw, value)
       [] raw.name = "inherit" -> ParseInherit(raw, value)
       [] raw.name = "inheritParams" -> ParseInheritParams(raw, value)
       [] raw.name = "inheritSection" -> ParseInheritSection(raw, value)
       [] raw.name = "examplesIf" -> ParseExamplesIf(raw, value)
       [] raw.name = "section" -> ParseSection(raw, value)
       [] raw.name = "aliases" -> ParseAliases(value)
       [] raw.name = "include" /\ invalid # {} ->
            Refused("TagParseError",
                    ValueSpan(value, ranges[First(invalid)].from, ranges[First(invalid)].to, raw.span))
       [] raw.name \in {"md", "noMd"} -> [tag |-> <<>>, said |-> <<>>]
       [] raw.name \in Evaluated ->
            [Parsed(raw.name, <<value>>, <<>>) EXCEPT
               !.said = <<Said("UnsupportedTag", Whole(value, raw))>>]
       [] fails -> Refused("TagParseError", Whole(value, raw))
       [] OTHER -> Parsed(raw.name, <<value>>, words)

\* check_value_requirement
RequirementFails(raw, trimmed) ==
  \/ Requirement(raw.name) = "Required" /\ trimmed = Nothing
  \/ Requirement(raw.name) = "Forbidden" /\ trimmed # Nothing

\* One turn of the loop of parse_block.
ParseOne(file, raw) ==
  LET normalized == FromLines(file, raw.lines, "TagValue")
      trimmed == TrimOuter(normalized)
      open == IF At(normalized.text, 1) = "nl"
              THEN Slice(normalized, 2, Len(normalized.text) + 1) ELSE normalized
      semantic == IF raw.name = "rawNamespace" THEN normalized
                  ELSE IF raw.name = "examples" THEN open
                  ELSE trimmed
      lined == ApplyMultiline(raw, semantic)
      result == ParseTag(raw, lined.value)
  IN IF raw.name \notin Known
     THEN [tag |-> <<Meaning("unknown", <<normalized>>, <<>>)>>,
           said |-> <<Said("UnknownTag", raw.full)>>]
     ELSE IF raw.name \notin SelfChecking /\ RequirementFails(raw, trimmed)
     THEN Refused("TagParseError", Whole(normalized, raw))
     ELSE [result EXCEPT !.said = lined.said \o @]

=============================================================================
