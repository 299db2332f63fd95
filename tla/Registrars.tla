----------------------------- MODULE Registrars -----------------------------
(***************************************************************************)
(* s3_register.rs: calls of configured registrar functions, such as        *)
(* s3_register("pkg::generic", "class", method), read as registrations of  *)
(* S3 methods, and beside it how R itself would match their arguments.     *)
(*                                                                         *)
(* A string is a package, a name and nothing else; what cannot be read as  *)
(* package::generic has no package.                                        *)
(***************************************************************************)
EXTENDS Naturals, Sequences, FiniteSets, SequencesExt

Roles == {"generic", "class", "method"}
Kinds == {"string", "symbol", "undecodable", "function", "null", "literal", "other"}
ArgumentValue == [kind : Kinds, package : STRING, name : Seq(STRING)]
\* "": no name; "broken": one that cannot be decoded; others are unknown.
Argument == [name : STRING, value : ArgumentValue]
Call == [callee : STRING, arguments : Seq(Argument)]
Signature == [callee : STRING, roles : Seq(Roles)]

\* S3RegistrarSignature::new, S3RegistrarSet::with_additions.
IsSignature(s) ==
  /\ IsInjective(s.roles)
  /\ {"generic", "class"} \subseteq Range(s.roles)
AreSignatures(S) ==
  /\ \A k \in DOMAIN S : IsSignature(S[k])
  /\ \A j, k \in DOMAIN S : S[j].callee = S[k].callee => j = k

-----------------------------------------------------------------------------
(* Matching arguments to roles, from left to right *)

Unassigned == 0
Matching == [slots : Seq(Nat), next : Nat \ {0}, failed : BOOLEAN]

\* The first slot from k on that has no argument.
FreeFrom(slots, k) ==
  IF \E j \in DOMAIN slots : j >= k /\ slots[j] = Unassigned
  THEN CHOOSE j \in DOMAIN slots :
         /\ j >= k /\ slots[j] = Unassigned
         /\ \A i \in DOMAIN slots : i >= k /\ slots[i] = Unassigned => j <= i
  ELSE Len(slots) + 1

\* The slot of a named argument, or none.
SlotOf(roles, name) ==
  IF \E j \in DOMAIN roles : roles[j] = name
  THEN CHOOSE j \in DOMAIN roles : roles[j] = name
  ELSE Len(roles) + 1

\* Mutant: a role given twice takes the later argument.
MatchOne_Later(m, roles, k, argument) ==
  LET named == argument.name # ""
      free == FreeFrom(m.slots, m.next)
      j == IF named THEN SlotOf(roles, argument.name) ELSE free IN
  IF m.failed THEN m
  ELSE IF j > Len(roles) THEN [m EXCEPT !.failed = TRUE]
  ELSE [slots |-> [m.slots EXCEPT ![j] = k], next |-> IF named THEN m.next ELSE j + 1,
        failed |-> FALSE]

\* One argument: an unknown name, too many arguments and a role assigned
\* twice end the matching.
MatchOne(m, roles, k, argument) ==
  LET named == argument.name # ""
      free == FreeFrom(m.slots, m.next)
      j == IF named THEN SlotOf(roles, argument.name) ELSE free IN
  IF m.failed THEN m
  ELSE IF j > Len(roles) \/ (j <= Len(roles) /\ m.slots[j] # Unassigned)
  THEN [m EXCEPT !.failed = TRUE]
  ELSE [slots |-> [m.slots EXCEPT ![j] = k], next |-> IF named THEN m.next ELSE j + 1,
        failed |-> FALSE]

MatchArguments(call, roles) ==
  LET step[k \in 0 .. Len(call.arguments)] ==
        IF k = 0 THEN [slots |-> [j \in DOMAIN roles |-> Unassigned], next |-> 1, failed |-> FALSE]
        ELSE MatchOne(step[k - 1], roles, k, call.arguments[k])
  IN step[Len(call.arguments)]

-----------------------------------------------------------------------------
(* Reading a matched call *)

IsGeneric(v) == v.kind = "string" /\ v.package # "" /\ v.name # <<"">>
IsClass(v) == v.kind = "string" /\ v.name # <<"">>
\* is_dynamic_value: runs at load time, so nothing is claimed and nothing wrong.
IsDynamic(v) == v.kind \in {"symbol", "other"}
NoValue == [kind |-> "null", package |-> "", name |-> <<"">>]

\* The method a registration names: kind and, when there is one, its name.
Target(generic, class, method) ==
  CASE method.kind = "null" -> [kind |-> "implicit", name |-> generic.name \o class.name]
    [] method.kind = "symbol" -> [kind |-> "explicit", name |-> method.name]
    [] method.kind = "function" -> [kind |-> "literal", name |-> <<>>]
    [] method.kind = "string" -> [kind |-> "invalid", name |-> <<>>]
    [] OTHER -> [kind |-> "unresolved", name |-> <<>>]
HasName(registration) == registration.target.kind \in {"implicit", "explicit"}

\* extract_call: the registration, if any, and what is reported.
Reading(registrations, reports) == [registrations |-> registrations, reports |-> reports]

Extract(call, roles) ==
  LET m == MatchArguments(call, roles)
      slot(role) == IF SlotOf(roles, role) > Len(roles) THEN Unassigned
                    ELSE m.slots[SlotOf(roles, role)]
      value(role) == IF slot(role) = Unassigned THEN NoValue ELSE call.arguments[slot(role)].value
      generic == value("generic")
      class == value("class")
      wrong == \/ ~IsGeneric(generic) /\ ~IsDynamic(generic)
               \/ ~IsClass(class) /\ ~IsDynamic(class) IN
  IF m.failed \/ slot("generic") = Unassigned \/ slot("class") = Unassigned \/ wrong
  THEN Reading(<<>>, {"invalid-s3-registration"})
  ELSE IF IsDynamic(generic) \/ IsDynamic(class)
  THEN Reading(<<>>, {"dynamic-s3-registration"})
  ELSE Reading(<<[generic |-> generic.name, class |-> class.name,
                  target |-> Target(generic, class, value("method"))]>>,
               IF value("method").kind = "string" THEN {"invalid-s3-registration"} ELSE {})

-----------------------------------------------------------------------------
(* How R matches the same call: all names first, then the rest in order *)

NamedSlots(call, roles) ==
  {SlotOf(roles, call.arguments[k].name) :
     k \in {k \in DOMAIN call.arguments : call.arguments[k].name # ""}}
\* An argument without a name, and a role that no name takes.
IsUnnamed(call, k) == call.arguments[k].name = ""
IsOpen(call, roles, j) == j \notin NamedSlots(call, roles)

\* Argument k is what R gives role j: by name, or because as many arguments
\* without a name come before k as roles that are open come before j.
RGives(call, roles, j, k) ==
  \/ call.arguments[k].name = roles[j]
  \/ /\ IsUnnamed(call, k) /\ IsOpen(call, roles, j)
     /\ Cardinality({l \in 1 .. k - 1 : IsUnnamed(call, l)}) =
          Cardinality({i \in 1 .. j - 1 : IsOpen(call, roles, i)})

\* R takes the call: no argument is without a role, no role has two.
RAccepts(call, roles) ==
  /\ \A k \in DOMAIN call.arguments : \E j \in DOMAIN roles : RGives(call, roles, j, k)
  /\ \A j \in DOMAIN roles : \A k, l \in DOMAIN call.arguments :
       RGives(call, roles, j, k) /\ RGives(call, roles, j, l) => k = l
=============================================================================
