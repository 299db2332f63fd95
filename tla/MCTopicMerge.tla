----------------------------- MODULE MCTopicMerge -----------------------------
(* Families of small packages for TopicMerge. *)
EXTENDS TopicMerge

UpTo(n, S) == UNION {[1 .. k -> S] : k \in 0 .. n}

\* Names: a function, the package, <package>-package, "reexports".
f == 1
p == 2
pp == 3
re == 4

Value(t, v) == [tag |-> t, value |-> v]
Values(T, V) == {Value(t, v) : t \in T, v \in V}
Aliases(N, s) == [tag |-> "aliases", names |-> N, suppress |-> s]
Param(ns) == [tag |-> "param", names |-> ns]
Bare(t) == [tag |-> t, value |-> "emit"]
B(target, n, tags) == [target |-> target, name |-> n, tags |-> tags]

\* Slots: a package block, its companions and their order.
SlotTags == Values({"title", "seealso"}, {"emit", "null"})
SlotPackages ==
  {<<B("package", Nobody, t),
     B("function", f, <<Value("rdname", pp)>> \o u \o o),
     B("null", Nobody, <<Value("name", pp)>> \o v \o q)>> :
     t \in UpTo(1, SlotTags), u \in UpTo(2, SlotTags), v \in UpTo(1, SlotTags),
     o \in {<<>>, <<Value("order", 2)>>}, q \in {<<>>, <<Value("order", 1)>>}}

\* Aliases: names claimed by functions and by package topics.
AliasTags == {Aliases({p}, FALSE), Aliases({pp}, FALSE), Aliases({}, TRUE)}
NamedBlocks ==
  {B("function", n, <<Bare("title")>> \o r \o t) :
     n \in {f, p, pp}, r \in {<<>>, <<Value("rdname", pp)>>, <<Value("name", p)>>},
     t \in UpTo(1, AliasTags)}
  \cup {B("package", Nobody, r \o t) :
          r \in {<<>>, <<Value("rdname", f)>>, <<Value("name", f)>>}, t \in UpTo(1, AliasTags)}
BareBlocks == {b \in NamedBlocks : \A i \in DOMAIN b.tags : b.tags[i].tag # "aliases"}
NamedPackages == [1 .. 2 -> NamedBlocks] \cup
  {<<a, b, B("package", Nobody, <<>>)>> : a \in BareBlocks, b \in BareBlocks}

\* Kinds: data, package and function blocks of one topic, and their types.
KindBlocks(targets, D) ==
  {B(t, f, <<Value("rdname", pp), Bare("title")>> \o d) :
     t \in targets, d \in D \cup {<<Bare("format"), Value("keywords", "null")>>}}
DocTypes(T) == Values({"docType"}, T)
KindPackages ==
  [1 .. 2 -> KindBlocks({"data", "package"}, UpTo(2, DocTypes({"class", "data", "null"})))] \cup
  [1 .. 3 -> KindBlocks({"data", "package", "function"}, UpTo(1, DocTypes({"class", "null"})))]

\* Refusals, re-exports, parameters, methods.
Fates ==
  {<<>>, <<Value("rdname", re)>>, <<Value("title", "intro")>>, <<Bare("noRd")>>,
   <<Value("name", p)>>, <<Bare("namespace")>>, <<Bare("namespace"), Bare("title")>>}
MixedBlocks ==
  {B(t, f, g) : t \in {"function", "reexport", "private", "badData", "null", "package"},
                g \in Fates}
  \cup {B(t, re, g) : t \in {"function", "reexport"}, g \in Fates}
MixedPackages == UpTo(2, MixedBlocks)
ListTags ==
  {Param(<<f>>), Param(<<f, p>>), Param(<<p, p>>), Bare("section"), Bare("inherit")}
    \cup Values({"method"}, {f, p})
ListPackages ==
  {<<B("function", f, <<Value("rdname", pp)>> \o t \o o),
     B("function", p, <<Value("rdname", pp)>> \o u)>> :
     t \in UpTo(2, ListTags), u \in UpTo(1, ListTags), o \in {<<>>, <<Value("order", 1)>>}}

Under(D, S) == {[blocks |-> bs, described |-> d] : bs \in S, d \in D}
AllPackages ==
  Under({{"title"}, {"seealso"}}, SlotPackages)
    \cup Under({{"title"}}, NamedPackages \cup KindPackages \cup MixedPackages \cup ListPackages)
=============================================================================
