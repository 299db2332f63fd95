------------------------------ MODULE MCIntake ------------------------------
(***************************************************************************)
(* The scenes for Intake.  Each family varies one input and leaves the     *)
(* others at their defaults.                                               *)
(***************************************************************************)
EXTENDS Intake, TLC

CONSTANTS L1, L2, S1

MCLibraries == {L1, L2}
MCStores == {S1}
MCBase == <<"a", "a", "a", "a">>
Dep == <<"a", ".", "1">>
Other == <<"a", "a">>
Odd == <<"a", "-">>
MCPackages == {MCBase, Dep, Other, Odd}
MCUnsafe == {<<"-">>}
MCBaseGenerics == {"print"}

\* Two versions of one package: the second has lost an alias and a topic;
\* the third has no index that can be read.
Link(form, alias) == [form |-> form, alias |-> alias]
MCVersions == {1, 2, 3}
MCNoIndex == {3}
MCAliases == <<[a |-> "t", b |-> "u"] @@ [x \in {"C-class"} |-> "u"], [a |-> "t"], [a |-> "t"]>>
Rd(params, fields, sections) ==
  [lowers |-> TRUE, params |-> params, fields |-> fields, sections |-> sections]
MCDocuments ==
  <<[t |-> Rd(<<Link("display", "b")>>, <<Link("s4", "C")>>, <<Link("package", "b")>>),
     u |-> Rd(<<>>, <<>>, <<>>),
     w |-> [Rd(<<>>, <<>>, <<>>) EXCEPT !.lowers = FALSE]],
    [t |-> Rd(<<>>, <<Link("explicit", "b"), Link("display", "a")>>, <<>>)],
    [t |-> Rd(<<>>, <<>>, <<>>)]>>

-----------------------------------------------------------------------------
(* Trees *)

Gone == [dir |-> FALSE, marker |-> FALSE, decodes |-> FALSE, priority |-> FALSE, minor |-> "none",
         ns |-> "missing", generics |-> {}, help |-> 0, link |-> NoLibrary]
Incomplete == [Gone EXCEPT !.dir = TRUE]
Plain == [Incomplete EXCEPT !.marker = TRUE, !.decodes = TRUE, !.ns = "ok", !.generics = {"tidy"},
                            !.help = 1]
OfR == [Plain EXCEPT !.priority = TRUE, !.minor = "4.5"]
Broken == [Plain EXCEPT !.decodes = FALSE, !.ns = "bad", !.help = 0]
AtVersion(v) == [Plain EXCEPT !.help = v]
Linked == [Gone EXCEPT !.link = S1]
MCTrees == {Gone, Broken, Plain, AtVersion(2), Linked}

-----------------------------------------------------------------------------
(* The default scene *)

F(name, text, entries) == [name |-> name, exact |-> TRUE, text |-> text, entries |-> entries]
DefaultFields == <<F("Package", <<"a", "a">>, <<>>), F("Imports", <<>>, <<Dep, <<"R">>, Odd>>)>>
Unnamed(kind, text) == [name |-> "", kind |-> kind, text |-> text, items |-> <<>>]
NoAuthors == [kind |-> "empty", entries |-> <<>>]
Described(fields, theAuthors) == [state |-> "read", fields |-> fields, authors |-> theAuthors]
RFile(n) == [file |-> n, regular |-> TRUE, extension |-> "R", readable |-> TRUE]
NoTable == [kind |-> "none", keys |-> {}, value |-> "none", entries |-> <<>>]
NoConfig == [state |-> "missing", keys |-> {}, inline |-> NoTable, s3 |-> NoTable]
Default ==
  [description |-> Described(DefaultFields, NoAuthors), listing |-> <<>>, config |-> NoConfig,
   paths |-> <<>>, closed |-> {}, disk |-> [place \in Places |-> Gone],
   asks |-> 0, changes |-> 0]

-----------------------------------------------------------------------------
(* Families *)

\* Authors@R: one person of up to three arguments; two or three persons with
\* roles.  Texts differ by position, so that it shows where each one goes.
Texts == <<"ann", "bea", "cat">>
Value(kind, text) ==
  [kind |-> kind, text |-> text,
   items |-> IF kind = "vector"
             THEN <<[name |-> "", kind |-> "string", text |-> "cre"],
                    [name |-> "", kind |-> "string", text |-> "aut"]>>
             ELSE <<>>]
Argument(name, value) ==
  [name |-> name, kind |-> value.kind, text |-> value.text, items |-> value.items]
ArgumentsAt(k) ==
  {Argument(name, Value(kind, Texts[k])) :
     name \in {"", "given", "family", "email", "role", "comment", "nick"},
     kind \in {"none", "string", "vector"}}
  \cup {Argument(name, Value("string", "bad")) : name \in {"", "role"}}
Calls ==
  {<<>>} \cup {<<x>> : x \in ArgumentsAt(1)}
  \cup {<<x, y>> : x \in ArgumentsAt(1), y \in ArgumentsAt(2)}
  \cup {<<x, y, z>> : x \in {a \in ArgumentsAt(1) : a.kind # "vector"},
                     y \in {a \in ArgumentsAt(2) : a.kind # "vector"},
                     z \in {a \in ArgumentsAt(3) : a.name \in {"", "given", "family"}}}
Entry(args) == [name |-> "", kind |-> "person", args |-> args]
Strings(texts) == [k \in DOMAIN texts |-> [name |-> "", kind |-> "string", text |-> texts[k]]]
WithRoles(roles) ==
  <<Argument("", Value("string", "ann")),
    [name |-> "role", kind |-> "vector", text |-> "none", items |-> Strings(roles)],
    [name |-> "comment", kind |-> "vector", text |-> "none",
     items |-> <<[name |-> "ORCID", kind |-> "string", text |-> "0000"]>>]>>
RoleLists == {<<"cre", "aut">>, <<"aut">>, <<"cre">>, <<"ctb", "zzz">>}
Fields_ ==
  {[kind |-> "person", entries |-> <<Entry(args)>>] : args \in Calls}
  \cup {[kind |-> "c", entries |-> <<Entry(WithRoles(a)), Entry(WithRoles(b)), Entry(WithRoles(c))>>] :
          a \in RoleLists, b \in RoleLists, c \in RoleLists}
  \cup {[kind |-> "c", entries |-> <<>>],
        [kind |-> "c", entries |-> <<[Entry(<<>>) EXCEPT !.name = "x"]>>],
        [kind |-> "c", entries |-> <<[Entry(<<>>) EXCEPT !.kind = "other"]>>],
        [kind |-> "other", entries |-> <<>>]}
AuthorScenes == {[Default EXCEPT !.description.authors = field] : field \in Fields_}

\* DESCRIPTION and R/.
PackageNames == {<<>>, <<"a">>, <<"a", "1">>, <<"1", "a">>, <<"a", ".">>, <<"a", "-", "a">>}
Spaced(f) == [f EXCEPT !.exact = FALSE]
Descriptions ==
  {Described(fields, NoAuthors) :
     fields \in {<<F("Package", n, <<>>), F("Package", m, <<>>)>> : n, m \in PackageNames}
               \cup {<<Spaced(F("Package", n, <<>>))>> : n \in PackageNames}
               \cup {Append(DefaultFields, F("Encoding", <<e>>, <<>>)) : e \in {"UTF-8", "latin1"}}}
  \cup {[Described(<<>>, NoAuthors) EXCEPT !.state = s] :
          s \in {"missing", "unreadable", "notUtf8", "malformed"}}
Files(n) ==
  {RFile(n), [RFile(n) EXCEPT !.extension = "r"], [RFile(n) EXCEPT !.extension = "Rmd"],
   [RFile(n) EXCEPT !.regular = FALSE], [RFile(n) EXCEPT !.readable = FALSE]}
Orders == {<<1, 2, 3>>, <<3, 1, 2>>, <<2, 3, 1>>, <<3, 2, 1>>}
Listings == {<<f1, f2, f3>> : f1 \in Files(1), f2 \in Files(2), f3 \in Files(3)}
PackageScenes ==
  {[Default EXCEPT !.description = d] : d \in Descriptions}
  \cup {[Default EXCEPT !.listing = [k \in DOMAIN o |-> l[o[k]]], !.config.state = s] :
          l \in Listings, o \in Orders, s \in {"missing", "read"}}

\* mini-roxygen.toml: keys known and unknown in every place.
Inlines ==
  {[kind |-> kind, keys |-> keys, value |-> value, entries |-> entries] :
     kind \in {"table", "string"}, keys \in SUBSET {"substitutions", "extra"},
     value \in {"table", "string"}, entries \in {<<>>, <<[kind |-> "string"]>>, <<[kind |-> "other"]>>}}
RegistrarEntries ==
  {[kind |-> "table", keys |-> keys, callee |-> callee, roles |-> roles] :
     keys \in {{"function", "arguments"}, {"function"}, {"function", "arguments", "extra"}},
     callee \in {"reg", "s3_register"},
     roles \in {<<"generic", "class">>, <<"class", "generic", "method">>, <<"generic">>, <<"what">>}}
S3s ==
  {[kind |-> "table", keys |-> keys, value |-> value, entries |-> entries] :
     keys \in SUBSET {"registrars", "extra"}, value \in {"array", "table"},
     entries \in {<<>>} \cup {<<e>> : e \in RegistrarEntries}}
Config(keys, inline, s3) == [state |-> "read", keys |-> keys, inline |-> inline, s3 |-> s3]
ConfigScenes ==
  {[Default EXCEPT !.config = c, !.listing = <<RFile(1)>>] :
     c \in {Config(keys, inline, NoTable) : keys \in {{"inline-r"}, {"inline-r", "extra"}}, inline \in Inlines}
           \cup {Config(keys, NoTable, s3) : keys \in {{"s3"}, {"s3", "extra"}}, s3 \in S3s}
           \cup {[Config({}, NoTable, NoTable) EXCEPT !.state = s] : s \in {"missing", "notUtf8", "malformed"}}}

\* Two libraries and a store as they are found, listed once.
Disk(base1, dep1, dep2, other1, other2, stored) ==
  [place \in Places |->
     CASE place = <<L1, MCBase>> -> base1
       [] place = <<L1, Dep>> -> dep1 [] place = <<L2, Dep>> -> dep2
       [] place = <<L1, Other>> -> other1 [] place = <<L2, Other>> -> other2
       [] place = <<L1, Odd>> -> Plain
       [] place[1] = S1 -> stored
       [] OTHER -> Gone]
Kinds == {Gone, Incomplete, Plain, OfR, Broken, Linked}
Bases == {Gone, Incomplete, OfR, [OfR EXCEPT !.minor = "4.7"], Linked}
ScanScenes ==
  {[Default EXCEPT !.paths = <<L1, L2>>, !.disk = Disk(OfR, d1, d2, o1, o2, OfR)] :
     d1, d2, o1, o2 \in Kinds}
  \cup {[Default EXCEPT !.paths = <<L2, L1>>, !.closed = shut, !.disk = Disk(b, d1, d2, Plain, OfR, stored)] :
          shut \in {{}, {L1}, {L2}}, b \in Bases, d1, d2 \in Kinds, stored \in {Gone, Incomplete, Plain}}

\* Two libraries and a store that change while topics are asked for.
ServeScenes ==
  {[Default EXCEPT !.paths = <<L1, L2>>, !.disk = Disk(Gone, d1, d2, Gone, Gone, AtVersion(2)),
                   !.asks = 2, !.changes = 1] :
     d1 \in {Gone, Plain, Broken, AtVersion(3), Linked}, d2 \in {Gone, Plain, AtVersion(2), Linked}}
MCFamilies == {AuthorScenes, PackageScenes, ConfigScenes, ScanScenes, ServeScenes}

=============================================================================
