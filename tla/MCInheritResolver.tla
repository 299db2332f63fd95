-------------------------- MODULE MCInheritResolver --------------------------
(* Families of small packages for InheritResolver. *)
EXTENDS InheritResolver

UpTo(n, S) == UNION {[1 .. k -> S] : k \in 0 .. n}
Request(kind, to, name, fields) ==
  [kind |-> kind, to |-> to, name |-> name, fields |-> fields,
   title |-> 0, filtered |-> FALSE, selectors |-> <<>>]
Inherit(to, names, fields) == {Request("inherit", to, n, fields) : n \in names}
Titles(to, names, titles) ==
  {[Request("section", to, n, {"sections"}) EXCEPT !.title = k] : n \in names, k \in titles}
Suppress(fields) == {Request("inherit", "suppress", 0, fields)}
Blank == [aliases |-> {}, own |-> {}, sections |-> <<>>, formals |-> <<>>,
          params |-> <<>>, requests |-> <<>>]

\* Three names of other packages, two of them aliases of one help topic; that
\* topic has two sections of one title.
x == <<"x", 0>>
dotx == <<"x", 1>>
dotsx == <<"x", 2>>
y == <<"y", 0>>
MCCanonical == <<1, 1, 2>>
MCDocs ==
  [c \in 1 .. 2 |->
     LET here == NumTopics + c IN
     [prose    |-> [f \in Fields |-> IF c = 1 \/ f = "title" THEN here ELSE Nobody],
      sections |-> IF c = 1 THEN <<[key |-> 1, writer |-> here], [key |-> 2, writer |-> here],
                                   [key |-> 2, writer |-> here]>>
                            ELSE <<[key |-> 2, writer |-> here]>>,
      params   |-> IF c = 1 THEN <<[names |-> {x, y}, writer |-> here]>>
                            ELSE <<[names |-> {Dots}, writer |-> here],
                                   [names |-> {y}, writer |-> here]>>]]

\* Prose: chains, cycles, suppression, an alias of one topic or of two, and
\* the alias that is another topic's key.
ProseRequests ==
  Inherit("local", 1 .. 4, {"title", "details"}) \cup Inherit("local", 2 .. 3, {"title"})
    \cup Suppress({"title"})
ProsePackages ==
  {[Blank EXCEPT !.requests = r, !.aliases = {4}] : r \in UpTo(2, ProseRequests)} \X
  ({[Blank EXCEPT !.requests = r, !.aliases = {1}] : r \in UpTo(1, ProseRequests)}
    \cup {[Blank EXCEPT !.requests = r, !.aliases = {4}] :
             r \in UpTo(2, ProseRequests \ Inherit("local", {4}, {"title", "details"}))}) \X
  {[Blank EXCEPT !.requests = r, !.own = {"title", "details"}] :
     r \in UpTo(1, Inherit("local", 1 .. 3, {"title", "details"}))}

\* Other packages: names asked again by one topic or by another.
ExternalRequests ==
  Inherit("external", 1 .. 3, {"title"}) \cup Inherit("local", 1 .. 2, {"title"})
    \cup Inherit("malformed", {1}, {"title", "details"}) \cup Suppress({"title"})
ExternalPackages ==
  {[Blank EXCEPT !.requests = r] : r \in UpTo(2, ExternalRequests)} \X
  {[Blank EXCEPT !.requests = r] : r \in UpTo(2, ExternalRequests)} \X {Blank}

\* Sections: all of them or one by title, from a topic that inherits too.
SectionRequests ==
  Inherit("local", {2, 3}, {"sections"}) \cup Inherit("external", {1}, {"sections"})
    \cup Titles("local", {2, 3}, {1, 2}) \cup Titles("external", {1}, {1, 2})
    \cup Suppress({"sections"})
SectionPackages ==
  {[Blank EXCEPT !.requests = r, !.sections = s] :
     r \in UpTo(2, SectionRequests), s \in {<<>>, <<2, 1>>, <<1, 1>>}} \X
  {[Blank EXCEPT !.requests = r, !.sections = s] :
     r \in UpTo(1, Inherit("local", {3}, {"sections"}) \cup Titles("local", {1, 3}, {2})),
     s \in {<<>>, <<1, 2, 1>>}} \X
  {[Blank EXCEPT !.sections = <<2, 1>>]}

\* Parameters: selectors, groups of two names, names with leading dots.
Filters(to, names, selections) ==
  {[Request("params", to, n, {"params"}) EXCEPT !.filtered = TRUE, !.selectors = s] :
     n \in names, s \in selections}
Keep(n) == [excluded |-> FALSE, name |-> n]
Drop(n) == [excluded |-> TRUE, name |-> n]
Selections == {<<Keep(x)>>, <<Keep(y)>>, <<Drop(x)>>, <<Drop(x), Keep(x)>>}
All(to, names) == {Request("params", to, n, {"params"}) : n \in names}
ParamRequests ==
  All("local", {2, 3}) \cup Filters("local", {2, 3}, Selections)
    \cup All("external", {1, 3}) \cup Filters("external", {2}, {<<Keep(x)>>, <<Keep(y)>>})
    \cup {Request("params", "suppress", 0, {"params"})}
ParamPackages ==
  ({[Blank EXCEPT !.requests = r, !.formals = f] :
      r \in UpTo(2, ParamRequests), f \in {<<x, y>>, <<dotsx, y>>, <<y, x, dotx>>}}
    \cup {[Blank EXCEPT !.requests = r, !.formals = <<x, y>>, !.params = <<{x}>>] :
             r \in UpTo(2, ParamRequests)}) \X
  ({[Blank EXCEPT !.requests = <<r>>, !.formals = <<dotx>>] :
      r \in All("local", {3}) \cup Filters("local", {3}, {<<Drop(y)>>})}
    \cup {[Blank EXCEPT !.requests = r, !.formals = <<x, dotx>>, !.params = <<{y}>>] :
             r \in UpTo(1, All("local", {3}))}) \X
  {[Blank EXCEPT !.formals = <<x, y>>, !.params = p] : p \in {<<{x}, {y}>>, <<{x, y}>>}}

\* The policy makes a difference only where other packages are asked.
OffPackages == {[Blank EXCEPT !.requests = r] : r \in UpTo(2, ExternalRequests)} \X {Blank} \X {Blank}
AllScenes ==
  (ProsePackages \cup ExternalPackages \cup SectionPackages \cup ParamPackages) \X {"BestEffort"}
    \cup OffPackages \X {"Off"}
=============================================================================
