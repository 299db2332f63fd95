----------------------------- MODULE MCNamespace -----------------------------
(* Families of small packages for Namespace. *)
EXTENDS Namespace

UpTo(n, S) == UNION {[1 .. k -> S] : k \in 0 .. n}

\* Names: a generic and two that extend it; a re-exported and a strange one.
p == <<"p">>
pa == <<"p", "a">>
pab == <<"p", "a", "b">>
q == <<"q">>
odd == <<"%o%">>
here == <<"here">>
AllSyntactic == {p, pa, pab, q, here, <<"a">>, <<"b">>, <<"a", "b">>, <<"all">>, <<"equal", "x">>,
                 AllEqual, <<"x">>, <<"other">>, <<"p", "">>, <<"NULL">>}

\* Code, in the order of its files.
F(n, file, v) == [name |-> n, file |-> file, value |-> v, target |-> NoName]
A(n, file, t) == [name |-> n, file |-> file, value |-> "alias", target |-> t]
C(facts, collate, opaque, installed) ==
  [facts |-> facts, collate |-> collate, opaque |-> opaque, installed |-> installed]
Contexts == {<<TRUE, {}>>, <<FALSE, {}>>, <<FALSE, {1}>>}

\* Tags and blocks.
W(n) == Word(n, "plain")
Quoted(n) == Word(n, "quoted")
Broken == Word(q, "broken")
From(n) == [W(n) EXCEPT !.package = "other"]
T(kind, words) == [kind |-> kind, words |-> words]
Bare == T("export", <<>>)
Null == T("exportS3Method", <<W(<<"NULL">>)>>)
Declare(g, c) == [generic |-> g, class |-> c]
NoDeclaration == Declare(NoWord, NoWord)
B(fact, documented, declared, tags) ==
  [fact |-> fact, package |-> NoPackage, member |-> NoName, documented |-> documented,
   method |-> declared, tags |-> tags]
R(package, documented, tags) ==
  [B(None, documented, NoDeclaration, tags) EXCEPT !.package = package, !.member = q]
P(c, signatures, calls, blocks) ==
  [code |-> c, here |-> here, signatures |-> signatures, calls |-> calls, blocks |-> blocks]
Exporting(i) == B(i, TRUE, NoDeclaration, <<Bare>>)
Plain(c, blocks) == P(c, <<>>, <<>>, blocks)

\* Aliases among three names, in every order and spread over two files.
AliasValues(n, file) ==
  {F(n, file, v) : v \in {"function", "generic", "nonfunction"}} \cup {A(n, file, t) : t \in {p, pa, pab}}
AliasPackages(n, f, context) ==
  {Plain(C(<<x, y, z>>, context[1], context[2], {p}), [k \in 1 .. 3 |-> Exporting(4 - k)]) :
     x \in AliasValues(n[1], f[1]), y \in AliasValues(n[2], f[2]), z \in AliasValues(n[3], f[3])}
AliasFamilies ==
  {AliasPackages(n, <<1, 2, 2>>, x) : n \in {<<p, pa, pab>>, <<pab, p, pa>>}, x \in Contexts}
  \cup {AliasPackages(n, <<1, 1, 2>>, <<FALSE, {}>>) :
          n \in {<<pa, pab, p>>, <<p, p, pa>>, <<pa, p, pa>>}}

\* all.equal against all, in the package or installed.
EqualFacts(v, w) ==
  (IF v = "none" THEN <<>> ELSE <<F(<<"all">>, 1, v)>>) \o
  (IF w = "none" THEN <<>> ELSE <<F(AllEqual, 1, w)>>)
EqualPackages ==
  {LET facts == Append(EqualFacts(v, w), F(AllEqual \o <<"x">>, 1, u))
       i == Len(facts)
   IN Plain(C(facts, FALSE, {}, S), <<Exporting(i), Exporting(i)>>) :
     v \in {"none", "function", "generic"}, w \in {"none", "function", "generic"},
     u \in {"function", "environment", "unknown"}, S \in SUBSET {<<"all">>, AllEqual}}

\* S7 classes and what their names are assigned later.
S7Values(file) ==
  {F(n, file, v) : n \in {p, q}, v \in {"s7", "refused", "function"}}
    \cup {A(n, file, t) : n \in {p, q}, t \in {p, q}}
S7Packages(f) ==
  {Plain(C(<<x, y, z>>, FALSE, {}, {}), <<Exporting(3)>>) :
     x \in S7Values(1), y \in S7Values(f), z \in S7Values(f)}

\* Calls of registrars.
V(kind, package, n) == [kind |-> kind, package |-> package, name |-> n]
ArgumentValues ==
  {V("string", "other", p), V("string", "", <<"a">>), V("symbol", "", q), V("null", "", Empty),
   V("undecodable", "", Empty), V("function", "", Empty), V("other", "", Empty)}
Arg(n, v) == [name |-> n, value |-> v]
Signatures == <<[callee |-> "s3_register", roles |-> <<"generic", "class", "method">>],
                [callee |-> "configured", roles |-> <<"class", "generic">>]>>
Given(names, values) == {Arg(n, v) : n \in names, v \in values}
CallOf(callee, arguments) == [callee |-> callee, arguments |-> arguments]
ShortCalls ==
  {CallOf(c, a) : c \in {"s3_register", "configured", "unconfigured"},
     a \in UpTo(2, Given({"", "generic", "class", "unknown", "broken"}, ArgumentValues))}
LongCalls ==
  {CallOf("s3_register", a) :
     a \in [1 .. 3 -> Given({"", "generic", "class", "method"},
                            {V("string", "other", p), V("string", "", <<"a">>), V("symbol", "", q)})]}
CallPackages(calls) ==
  {P(C(<<F(p, 1, "generic")>>, FALSE, {}, {}), Signatures, <<c>>, <<>>) : c \in calls}

\* Registered methods, and how their blocks are tagged.
Register(g, c, m) ==
  CallOf("s3_register", <<Arg("", V("string", "other", g)), Arg("", V("string", "", c))>> \o m)
ToSymbol(n) == <<Arg("", V("symbol", "", n))>>
RegisterPackages ==
  {P(C(<<F(p, 1, "generic"), fact>>, FALSE, {}, {}), Signatures, calls,
     <<B(2, documented, declared, tags)>>) :
     fact \in {F(pa, 1, "function"), F(pa, 1, "unknown"), A(pa, 1, p), F(q, 1, "function")},
     calls \in {<<>>, <<Register(p, <<"a">>, <<>>)>>,
                <<Register(p, <<"a">>, <<>>), Register(q, <<"b">>, ToSymbol(pa))>>,
                <<Register(p, <<"a">>, <<>>), Register(p, <<"a">>, ToSymbol(pa))>>},
     documented \in BOOLEAN,
     declared \in {NoDeclaration, Declare(W(p), Quoted(<<"b">>)), Declare(Broken, W(p))},
     tags \in {<<>>, <<Bare>>, <<Null>>, <<Null, Bare>>, <<T("export", <<W(q)>>)>>}}

\* Tags of every kind.
Lists == UpTo(2, {W(here), W(q), Quoted(q), Broken}) \ {<<>>}
Tags ==
  {T(k, ws) : k \in {"import", "importFrom", "useDynLib", "exportClass", "importClassesFrom"},
              ws \in Lists}
  \cup {T(k, ws) : k \in {"export", "exportPattern", "exportMethod", "rawNamespace"},
                   ws \in {<<W(odd)>>, <<Quoted(Empty)>>, <<Broken>>}}
  \cup {T(k, <<>>) : k \in {"import", "importFrom", "useDynLib", "exportPattern", "exportClass",
                        "rawNamespace", "importMethodsFrom"}}
  \cup {T("importMethodsFrom", <<W(q), W(odd)>>),
        T("import", <<Word(<<"a,b">>, "comma"), W(q)>>), T("useDynLib", <<Word(<<"a,b">>, "comma")>>),
        T("importFrom", <<Quoted(q), W(odd), W(p)>>), Null, Bare,
        T("exportS3Method", <<>>), T("exportS3Method", <<W(p), W(<<"a">>)>>),
        T("exportS3Method", <<W(p), Quoted(<<"a">>)>>)}
  \cup {T("exportS3Method", <<w>>) : w \in {From(p), W(p), From(q), From(pa), From(Empty)}}
TagCode == C(<<F(p, 1, "generic"), F(pa, 1, "function"), A(pab, 1, pa), F(q, 1, "nonfunction"),
               F(<<"p", "">>, 1, "function")>>, FALSE, {}, {})
BlockTagPackages ==
  {Plain(TagCode, <<B(i, TRUE, NoDeclaration, <<t>>)>>) : i \in 0 .. 5, t \in Tags}
ReexportPackages ==
  {Plain(TagCode, <<R(package, documented, <<t>>), R("q", TRUE, <<>>)>>) :
     package \in {"q", "here"}, documented \in BOOLEAN, t \in Tags}
PairedTags == {t \in Tags : t.words \in {<<>>, <<W(q)>>, <<Quoted(q), W(odd), W(p)>>, <<W(q), Quoted(q)>>}}
TagPackages ==
  {Plain(TagCode, <<B(2, FALSE, NoDeclaration, <<t>>), B(None, TRUE, NoDeclaration, <<u>>)>>) :
     t \in PairedTags, u \in PairedTags}

EqualFamilies == {EqualPackages}
AllPackages ==
  AliasFamilies \cup
  {EqualPackages, S7Packages(1), S7Packages(2), CallPackages(ShortCalls), CallPackages(LongCalls),
   RegisterPackages, BlockTagPackages, ReexportPackages, TagPackages}
=============================================================================
