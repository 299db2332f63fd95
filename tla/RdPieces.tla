------------------------------ MODULE RdPieces ------------------------------
(***************************************************************************)
(* The pieces an Rd document is assembled from: leaves of text, R code and *)
(* verbatim text, and nodes that hold a list of children.  What is kept of *)
(* a leaf is what the assembly looks at and the writer minds: its kind,    *)
(* whether anything but white space is in it, whether it ends a line.      *)
(*                                                                         *)
(* The writer (crate rd-writer) joins neighbours of one kind and therefore *)
(* refuses a leaf that follows one of its kind which does not end a line.  *)
(* Every list of siblings is judged where it is built: a node is ok when   *)
(* its children, and theirs, are.                                          *)
(***************************************************************************)
EXTENDS Naturals, Sequences, SequencesExt

LeafKinds == {"Text", "RCode", "Verb"}
NodeKinds == LeafKinds \cup {"Tagged"}
Node == [kind : NodeKinds, body : BOOLEAN, ends : BOOLEAN, ok : BOOLEAN]

Leaf(kind, body, ends) == [kind |-> kind, body |-> body, ends |-> ends, ok |-> TRUE]
\* extend_leaf by a newline; what trimming a leaf at its edges leaves empty.
Ended(node) == [node EXCEPT !.ends = TRUE]
Vanishes(node, kind) == node.kind = kind /\ ~ node.body
NewlineLeaf(kind) == Leaf(kind, FALSE, TRUE)
Word(kind) == Leaf(kind, TRUE, FALSE)
Blank == Leaf("Text", FALSE, FALSE)
Line(kind) == Leaf(kind, TRUE, TRUE)

\* What the writer accepts.
Representable(nodes) ==
  /\ \A i \in DOMAIN nodes : nodes[i].ok
  /\ \A i \in 1 .. Len(nodes) - 1 :
       nodes[i].kind \in LeafKinds /\ nodes[i].kind = nodes[i + 1].kind => nodes[i].ends

\* tagged_child and group_child: a node over children that are done.
Holding(children) ==
  [kind |-> "Tagged", body |-> TRUE, ends |-> FALSE, ok |-> Representable(children)]

\* R code or verbatim text, one leaf a line.  A text is the number of its
\* lines and whether the last of them is ended.
Lines(kind, text) ==
  [i \in 1 .. text.lines |-> IF i < text.lines \/ text.ends THEN Line(kind) ELSE Word(kind)]

-----------------------------------------------------------------------------
(* sections.rs *)

OpenLeaf(nodes, kind) ==
  nodes # <<>> /\ Last(nodes).kind = kind /\ ~ Last(nodes).ends

\* Mutant: every newline is a leaf of its own.
AppendNewlines_Apart(nodes, kind, count) ==
  nodes \o [i \in 1 .. count |-> NewlineLeaf(kind)]
\* append_newlines: an open last leaf of the kind takes the first newline,
\* the others are leaves of their own.
AppendNewlines(nodes, kind, count) ==
  LET extended == count > 0 /\ OpenLeaf(nodes, kind)
      closed == IF extended THEN Front(nodes) \o <<Ended(Last(nodes))>> ELSE nodes
  IN closed \o [i \in 1 .. (IF extended THEN count - 1 ELSE count) |-> NewlineLeaf(kind)]

\* trim_top_level: leaves of the kind that are only white space go at both
\* ends; the last one that stays loses its newline.
TrimTopLevel(nodes, kind) ==
  LET kept == {i \in DOMAIN nodes : ~ Vanishes(nodes[i], kind)}
      from == CHOOSE i \in kept : \A j \in kept : i <= j
      to == CHOOSE i \in kept : \A j \in kept : i >= j
      rest == SubSeq(nodes, from, to)
  IN IF kept = {} THEN <<>>
     ELSE IF Last(rest).kind # kind THEN rest
     ELSE Front(rest) \o <<[Last(rest) EXCEPT !.ends = FALSE]>>

Plain(content, kind) == Holding(TrimTopLevel(content, kind))

Spaced(content, kind) ==
  Holding(AppendNewlines(<<NewlineLeaf(kind)>> \o content, kind, 1))

\* named_section: a body that starts with text takes the space after the
\* title into that leaf, any other body gets it before.
NamedSection(title, body) ==
  LET space == IF body # <<>> /\ Head(body).kind # "Text" THEN <<Blank>> ELSE <<>>
      argument == Holding(AppendNewlines(<<NewlineLeaf("Text")>> \o space \o body, "Text", 1))
  IN Holding(<<Holding(title), argument>>)

-----------------------------------------------------------------------------
(* usage.rs and arguments.rs *)

RCodeText == [lines : Nat, ends : BOOLEAN]
UsageContribution ==
  [form : {"Absent", "Suppressed", "Generated", "Explicit"}, method : BOOLEAN, text : RCodeText]

\* The nodes of one usage.  A generated method is \method{generic}{class}
\* and the rest of the call.
UsageNodes(usage) ==
  IF usage.form = "Generated" /\ usage.method
  THEN <<Holding(<<Holding(<<Word("Text")>>), Holding(<<Word("Text")>>)>>)>>
         \o Lines("RCode", usage.text)
  ELSE Lines("RCode", usage.text)

\* lower: what is absent or suppressed adds nothing; a blank line stands
\* between two usages.  No usage, no section.
UsageSection(usages) ==
  LET told == {i \in DOMAIN usages : usages[i].form \in {"Generated", "Explicit"}}
      Add(children, i) ==
        IF i \notin told THEN children
        ELSE (IF \E j \in told : j < i THEN AppendNewlines(children, "RCode", 2) ELSE <<>>)
               \o UsageNodes(usages[i])
      after[n \in 0 .. Len(usages)] == IF n = 0 THEN <<>> ELSE Add(after[n - 1], n)
  IN IF told = {} THEN <<>> ELSE <<Spaced(after[Len(usages)], "RCode")>>

\* lower: one \item{names}{description} a group, blank lines between them.
ArgumentsSection(groups) ==
  LET Item(g) == Holding(<<Holding(g.names), Holding(g.description)>>)
      Add(children, i) ==
        Append(IF i = 1 THEN children ELSE AppendNewlines(children, "Text", 2), Item(groups[i]))
      after[n \in 0 .. Len(groups)] == IF n = 0 THEN <<>> ELSE Add(after[n - 1], n)
  IN Spaced(after[Len(groups)], "Text")

-----------------------------------------------------------------------------
(* topic.rs: what the package topic gets from DESCRIPTION *)

\* A text of a field: breaks when a line break is in it, ends when it is the
\* last character.
Scalar == [body : BOOLEAN, breaks : BOOLEAN, ends : BOOLEAN]
PackageComment == [label : Seq(Scalar), value : Scalar]
PackagePerson == [name : Scalar, email : BOOLEAN, identities : Nat,
                  comments : Seq(PackageComment), roles : BOOLEAN]
PackageAuthor ==
  [maintainers : Seq(PackagePerson), authors : Seq(PackagePerson), others : Seq(PackagePerson)]

\* append_text: an open last leaf takes a text without a line break.
AppendLeaf(nodes, kind, value) ==
  IF OpenLeaf(nodes, kind) /\ ~ value.breaks
  THEN Front(nodes) \o <<[Last(nodes) EXCEPT !.body = @ \/ value.body]>>
  ELSE Append(nodes, Leaf(kind, value.body, value.ends))
AppendText(nodes, value) == AppendLeaf(nodes, "Text", value)

Text == [body |-> TRUE, breaks |-> FALSE, ends |-> FALSE]
TextLine == [body |-> TRUE, breaks |-> TRUE, ends |-> TRUE]
Broken == [body |-> TRUE, breaks |-> TRUE, ends |-> FALSE]
Space == [body |-> FALSE, breaks |-> FALSE, ends |-> FALSE]

\* append_person: name, \email, one (\href) an identity, the comments in
\* one pair of parentheses, the roles in one pair of brackets.
AppendPerson(nodes, person) ==
  LET named == AppendText(nodes, person.name)
      mailed == IF person.email
                THEN Append(AppendText(named, Space), Holding(<<Word("Text")>>))
                ELSE named
      Identity(out) ==
        AppendText(Append(AppendText(out, Text),
                          Holding(<<Holding(<<Word("Verb")>>), Holding(<<Word("Text")>>)>>)),
                   Text)
      identified[n \in 0 .. person.identities] ==
        IF n = 0 THEN mailed ELSE Identity(identified[n - 1])
      AddComment(out, i) ==
        LET comment == person.comments[i]
            separated == IF i > 1 THEN AppendText(out, Text) ELSE out
            labelled == IF comment.label # <<>>
                        THEN AppendText(AppendText(separated, comment.label[1]), Text)
                        ELSE separated
        IN AppendText(labelled, comment.value)
      known == identified[person.identities]
      commented[n \in 0 .. Len(person.comments)] ==
        IF n = 0 THEN AppendText(known, Text) ELSE AddComment(commented[n - 1], n)
      described == IF person.comments = <<>> THEN known
                   ELSE AppendText(commented[Len(person.comments)], Text)
  IN IF person.roles
     THEN AppendText(AppendText(AppendText(described, Text), Text), Text)
     ELSE described

\* build_people_itemize
PeopleItemize(people) ==
  LET Add(out, person) ==
        AppendNewlines(AppendPerson(AppendText(Append(out, Holding(<<>>)), Space), person),
                       "Text", 1)
      after[n \in 0 .. Len(people)] == IF n = 0 THEN <<>> ELSE Add(after[n - 1], people[n])
  IN Holding(after[Len(people)])

\* append_people_section
PeopleSection(out, people) ==
  IF people = <<>> THEN out
  ELSE Append(AppendText(AppendNewlines(out, "Text", 2), TextLine), PeopleItemize(people))

\* add_package_author
AuthorSection(author) ==
  LET Add(out, i) ==
        AppendPerson(IF i > 1 THEN AppendText(out, Text) ELSE out, author.maintainers[i])
      after[n \in 0 .. Len(author.maintainers)] ==
        IF n = 0 THEN AppendText(<<Holding(<<Word("Text")>>)>>, Text) ELSE Add(after[n - 1], n)
      maintained ==
        IF author.maintainers = <<>> THEN <<>>
        ELSE AppendNewlines(after[Len(author.maintainers)], "Text", 2)
  IN Spaced(PeopleSection(PeopleSection(maintained, author.authors), author.others), "Text")

\* add_package_seealso: an \item and a link for each URL, one for BugReports.
SeeAlsoSection(seeAlso) ==
  LET Url == <<Holding(<<>>), Holding(<<Word("Verb")>>), NewlineLeaf("Text")>>
      Bugs == <<Holding(<<>>), Word("Text"), Holding(<<Word("Verb")>>), NewlineLeaf("Text")>>
      items == FlattenSeq([i \in 1 .. seeAlso.urls |-> Url])
                 \o (IF seeAlso.bugs THEN Bugs ELSE <<>>)
  IN Spaced(<<Line("Text"), Holding(items)>>, "Text")

\* add_reexport_description: a \describe with an \item for each package and
\* one link for each name; links counts the names of each package.
ReexportSection(links) ==
  LET Link == Holding(<<Holding(<<Word("Text")>>)>>)
      Links(n) == Holding(<<Link>> \o FlattenSeq([i \in 1 .. n - 1 |-> <<Word("Text"), Link>>]))
      Item(n) == Holding(<<Holding(<<Word("Text")>>), Links(n)>>)
      Entry(i) == (IF i > 1 THEN <<NewlineLeaf("Text")>> ELSE <<>>) \o <<Blank, Item(links[i])>>
      describe == Holding(<<NewlineLeaf("Text")>>
                            \o FlattenSeq([i \in DOMAIN links |-> Entry(i)])
                            \o <<NewlineLeaf("Text")>>)
  IN Spaced(<<Line("Text"), Line("Text"), NewlineLeaf("Text"), describe>>, "Text")

-----------------------------------------------------------------------------
(* topic.rs: examples *)

\* examples_nodes: @examplesIf wraps the body in two \dontshow, each on
\* lines of its own.
ExamplesNodes(examples) ==
  IF ~ examples.conditional THEN examples.body
  ELSE LET guard == Holding(<<Line("RCode"), Line("RCode"), Word("RCode")>>)
           close == Holding(<<Word("RCode")>>)
           body == <<guard, NewlineLeaf("RCode")>> \o examples.body
           ended == IF OpenLeaf(body, "RCode")
                    THEN Front(body) \o <<Ended(Last(body))>>
                    ELSE Append(body, NewlineLeaf("RCode"))
       IN Append(ended, close)

\* add_section: the node and the newlines after it.
Placed(node, named) ==
  <<node>> \o [i \in 1 .. (IF named THEN 2 ELSE 1) |-> NewlineLeaf("Text")]

=============================================================================
