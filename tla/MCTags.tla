------------------------------- MODULE MCTags -------------------------------
(* Small R files: lines of code and of roxygen in every order, tags with    *)
(* every short value, values of several lines, intros beside tags, titles   *)
(* of sections with brackets and braces.                                    *)
EXTENDS Tags

MCTagNames == Known \cup {"future"}

Lines(s) == FlattenSeq([i \in DOMAIN s |-> IF i < Len(s) THEN s[i] \o <<"nl">> ELSE s[i]])
CrLf(s) == FlattenSeq([i \in DOMAIN s |-> IF i < Len(s) THEN s[i] \o <<"cr", "nl">> ELSE s[i]])

-----------------------------------------------------------------------------
(* Code and roxygen.  Braces are balanced. *)
LongKinds ==
  { <<"x">>, <<"x", ";", "sp", "x">>, <<"s", "#'", "sp", "b">>, <<"sp", "#'", "sp", "@", "export">>,
    <<"{", "#'", "c">>, <<"}", "sp", "#'", "b">>, <<"{">>, <<>>, <<"#'", "sp", "a">> }
LineKinds ==
  LongKinds \cup { <<"x", "sp", "#'", "a">>, <<"x", ";", "#'", "a">>, <<"}", ";", "x">>,
                   <<"#", "sp", "#'">> }
Opens(s) == LET all == FlattenSeq(s) IN Cardinality({i \in DOMAIN all : all[i] = "{"})
Closes(s) == LET all == FlattenSeq(s) IN Cardinality({i \in DOMAIN all : all[i] = "}"})
Balanced(s) ==
  /\ Opens(s) = Closes(s)
  /\ \A i \in DOMAIN s : Opens(SubSeq(s, 1, i)) >= Closes(SubSeq(s, 1, i))
Attached == {Lines(s) : s \in {t \in [1 .. 3 -> LineKinds] \cup [1 .. 4 -> LongKinds] : Balanced(t)}}
              \cup {CrLf(s) : s \in {t \in [1 .. 3 -> LineKinds] : Balanced(t)}}

-----------------------------------------------------------------------------
(* Roxygen before one expression *)
Doc(content) == IF content = <<>> THEN <<"#'">> ELSE <<"#'", "sp">> \o content
Before(contents) == [i \in DOMAIN contents |-> Doc(contents[i])] \o << <<"x">> >>
Tag(name, value) == <<"@", name>> \o value

UpTo(n, S) == UNION {[1 .. k -> S] : k \in 0 .. n}
Valued ==
  {Lines(Before(<<Tag(n, <<"sp">> \o v)>>)) :
     n \in {"param", "inherit", "inheritParams", "inheritSection", "method", "docType", "order",
            "aliases", "include", "examplesIf", "usage", "eval", "noRd", "md", "noMd", "future"},
     v \in UpTo(3, {"a", "sp", ",", "NULL", "-", "params"})}
  \cup {Lines(Before(<<Tag("param", v)>>)) : v \in UpTo(4, {"a", "sp", ",", "tick"})}
  \cup {Lines(Before(<<Tag(n, <<"sp">> \o v)>>)) :
          n \in {"title"}, v \in UpTo(4, {"a", "@", "sp"})}
  \cup {Lines(Before(<<Tag(n, v)>>)) : n \in {"order", "include"}, v \in {<<"1">>, <<"sp", "f.R">>}}

Continuations == {<<"a">>, <<"sp", "a">>, <<"sp", "sp", "@", "@">>, <<"sp">>, <<>>}
ContinuedLines ==
  {Before(<<Tag(n, v)>> \o c) :
     n \in {"importFrom", "param", "name", "details", "section", "examplesIf", "examples"},
     v \in {<<"sp", "a", "sp", "b">>, <<>>}, c \in (UpTo(2, Continuations) \ {<<>>}) \cup [1 .. 3 -> {<<"a">>, <<"sp", "a">>, <<>>}]}
Continued ==
  {Lines(s) : s \in ContinuedLines}
  \cup {CrLf(s) : s \in {c \in ContinuedLines : Len(c) <= 4}}

IntroKinds ==
  {<<"a">>, <<>>, Tag("title", <<"sp", "b">>), Tag("description", <<>>), Tag("details", <<"sp", "c">>)}
Introduced ==
  {Lines(Before(s)) :
     s \in UpTo(3, IntroKinds \cup {Tag("details", <<"sp", "NULL">>)}) \cup [1 .. 4 -> IntroKinds]}
  \cup {CrLf(Before(<<s[1], <<>>, s[2], <<>>, s[3], <<>>, s[4]>>)) :
          s \in [1 .. 4 -> {<<"a">>, <<"b", "@", "@">>, <<>>, Tag("details", <<"sp", "c">>)}]}

Sections ==
  {Lines(Before(<<Tag("section", <<"sp">> \o v)>>)) :
     v \in UpTo(4, {"[", "]", "\\", "{", "}", ":", "a"})}
  \cup {Lines(Before(<<Tag("section", <<"sp", "[">> \o v)>>)) : v \in [1 .. 5 -> {"[", "]", ":", "a"}]}

MCFiles == {Attached, Valued, Continued, Introduced, Sections}
=============================================================================
