------------------------------ MODULE Authors -------------------------------
(***************************************************************************)
(* Authors@R, read without R (arity_adapter/authors.rs), and the authors   *)
(* of the package topic made from it (model/merge/package.rs).             *)
(*                                                                         *)
(* An argument is its name ("" without one) and its value: nothing, a      *)
(* string literal, a call c(...) of such entries, or any other expression. *)
(* A string is a token; "bad" is a literal that cannot be decoded.         *)
(***************************************************************************)
EXTENDS Naturals, Sequences, SequencesExt, FiniteSets

Item == [name : STRING, kind : STRING, text : STRING]
PersonArgument == [name : STRING, kind : STRING, text : STRING, items : Seq(Item)]
Person == [name : STRING, kind : STRING, args : Seq(PersonArgument)]
AuthorsField == [kind : STRING, entries : Seq(Person)]

\* The formals of person() that are supported, in the order of the slots.
Formals == <<"given", "family", "middle", "email", "role", "comment">>
Supported == ToSet(Formals)
SlotOf(name) == CHOOSE k \in DOMAIN Formals : Formals[k] = name
\* Only these take an argument without a name.
Positional == 4

\* The codes the table of roles knows, beside aut and cre.
RoleTerms == {"ctb", "fnd"}

NoText == "none"
Decodes(value) == value.kind = "string" /\ value.text # "bad"

-----------------------------------------------------------------------------
(* Values *)

\* parse_single_string
SingleFails(value) == ~ Decodes(value)

\* parse_string_vector, for roles: entries have no names.
RolesFail(value) ==
  /\ SingleFails(value)
  /\ ~ /\ value.kind = "vector"
       /\ value.items # <<>>
       /\ \A k \in DOMAIN value.items : value.items[k].name = "" /\ Decodes(value.items[k])
RolesOf(value) ==
  IF value.kind = "string" THEN <<value.text>>
  ELSE [k \in DOMAIN value.items |-> value.items[k].text]

\* parse_comment_vector: entries may have names.
CommentsFail(value) ==
  /\ SingleFails(value)
  /\ ~ /\ value.kind = "vector"
       /\ value.items # <<>>
       /\ \A k \in DOMAIN value.items : Decodes(value.items[k])
CommentsOf(value) ==
  IF value.kind = "string" THEN <<[name |-> "", value |-> value.text]>>
  ELSE [k \in DOMAIN value.items |-> [name |-> value.items[k].name, value |-> value.items[k].text]]

-----------------------------------------------------------------------------
(* One call of person() *)

\* The arguments that repeat a supported name, found before anything else.
Repeats(args) ==
  {k \in DOMAIN args : args[k].name \in Supported /\ \E j \in 1 .. k - 1 : args[j].name = args[k].name}

\* The slot an argument claims; 0: none is left, or the name is unknown.
Claimed(args, k) ==
  LET before == Cardinality({j \in 1 .. k - 1 : args[j].name = ""})
  IN IF args[k].name \in Supported THEN SlotOf(args[k].name)
     ELSE IF args[k].name = "" /\ before < Positional THEN before + 1
     ELSE 0

\* Mutant: only a name can be claimed twice, as in R.
Mixed_Named(args, k) ==
  \E j \in 1 .. k - 1 : Claimed(args, j) = Claimed(args, k) /\ args[k].name # ""
\* An argument that claims a slot claimed before it.
Mixed(args, k) == \E j \in 1 .. k - 1 : Claimed(args, j) = Claimed(args, k)

ArgumentFails(args, k) ==
  LET slot == Claimed(args, k)
      arg == args[k]
  IN \/ slot = 0 \/ Mixed(args, k)
     \/ slot \in 1 .. 4 /\ arg.kind = "none" /\ arg.name # ""
     \/ slot \in 1 .. 4 /\ arg.kind # "none" /\ SingleFails(arg)
     \/ slot = 5 /\ RolesFail(arg)
     \/ slot = 6 /\ CommentsFail(arg)

PersonFails(args) == Repeats(args) # {} \/ \E k \in DOMAIN args : ArgumentFails(args, k)

\* parse_person_call, of a call that does not fail.
PersonSpec(args) ==
  LET given(slot) == {k \in DOMAIN args : Claimed(args, k) = slot /\ args[k].kind # "none"}
      value(slot) == args[CHOOSE k \in given(slot) : TRUE]
      text(slot) == IF given(slot) = {} THEN NoText ELSE value(slot).text
  IN [given |-> text(1), family |-> text(2), middle |-> text(3), email |-> text(4),
      role |-> IF given(5) = {} THEN <<>> ELSE RolesOf(value(5)),
      comment |-> IF given(6) = {} THEN <<>> ELSE CommentsOf(value(6))]

-----------------------------------------------------------------------------
(* The field *)

\* parse_people_vector: entries are calls of person() without names.
EntryFails(entry) == entry.name # "" \/ entry.kind # "person" \/ PersonFails(entry.args)

\* parse_authors: one expression, person(...) or c(person(...), ...).
AuthorsFail(field) ==
  \/ field.kind \notin {"person", "c"}
  \/ field.entries = <<>>
  \/ \E k \in DOMAIN field.entries : EntryFails(field.entries[k])
People(field) == [k \in DOMAIN field.entries |-> PersonSpec(field.entries[k].args)]

\* PersonSpec::render: the section of a person.
Has(person, role) == \E k \in DOMAIN person.role : person.role[k] = role
SectionOf(person) ==
  IF Has(person, "cre") THEN "maintainers"
  ELSE IF Has(person, "aut") THEN "authors"
  ELSE "otherContributors"

-----------------------------------------------------------------------------
(* package_authors *)

Identity(comment) == comment.name \in {"ORCID", "ROR"}
PackagePerson(person) ==
  [name |-> SelectSeq(<<person.given, person.family>>, LAMBDA part : part # NoText),
   email |-> person.email,
   identities |-> SelectSeq(person.comment, Identity),
   comments |-> SelectSeq(person.comment, LAMBDA comment : ~ Identity(comment)),
   roles |-> SelectSeq(person.role, LAMBDA role : role \in RoleTerms)]

Nobody == [maintainers |-> <<>>, authors |-> <<>>, otherContributors |-> <<>>]
\* Mutant: a maintainer is no author.
Listed_Once(result, person) ==
  [result EXCEPT ![SectionOf(person)] = Append(@, PackagePerson(person))]
\* A maintainer who is an author too comes first among the authors.
Listed(result, person) ==
  LET value == PackagePerson(person)
      placed == [result EXCEPT ![SectionOf(person)] = Append(@, value)]
  IN IF Has(person, "cre") /\ Has(person, "aut")
     THEN [placed EXCEPT !.authors = <<value>> \o @]
     ELSE placed
PackageAuthors(field) ==
  LET N == Len(field.entries)
      listed[n \in 0 .. N] == IF n = 0 THEN Nobody ELSE Listed(listed[n - 1], People(field)[n])
  IN listed[N]

-----------------------------------------------------------------------------
(* R *)

\* How R itself matches the arguments of a call: names first, then the
\* others fill the formals that are open, an empty argument as well.  As many
\* open formals come before its own as other arguments come before it.
Open(args) == {i \in DOMAIN Formals : Formals[i] \notin {args[j].name : j \in DOMAIN args}}
FilledBy(args, k) ==
  {i \in Open(args) : Cardinality(Open(args) \cap (1 .. i - 1)) =
                      Cardinality({j \in 1 .. k - 1 : args[j].name = ""})}
MatchedByR(args, k) ==
  IF args[k].name # "" THEN args[k].name
  ELSE IF FilledBy(args, k) = {} THEN "unused"
  ELSE Formals[CHOOSE i \in FilledBy(args, k) : TRUE]

=============================================================================
