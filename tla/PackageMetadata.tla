-------------------------- MODULE PackageMetadata ---------------------------
(***************************************************************************)
(* What one run reads of the package itself: DESCRIPTION (package.rs), the *)
(* files under R/ (source.rs) and mini-roxygen.toml (config.rs).           *)
(*                                                                         *)
(* A name is a sequence of characters: "a" stands for an ASCII letter, "1" *)
(* for a digit, "." for a dot, and "-" for anything else.                  *)
(***************************************************************************)
EXTENDS Authors

Signatures == INSTANCE Registrars

-----------------------------------------------------------------------------
(* package.rs *)

\* validate_package_name: a letter, any letters, digits and dots, and a
\* letter or digit.
ValidPackageName(name) ==
  /\ Len(name) > 1
  /\ Head(name) = "a"
  /\ Last(name) \in {"a", "1"}
  /\ \A k \in DOMAIN name : name[k] \in {"a", "1", "."}

\* description_field_node: the last field of that very name; Package : x is
\* a field of another name.
Named(fields, name) == SelectSeq(fields, LAMBDA f : f.name = name /\ f.exact)
Absent == [name |-> "", exact |-> TRUE, text |-> <<>>, entries |-> <<>>]
Field(fields, name) ==
  IF Named(fields, name) = <<>> THEN Absent ELSE Last(Named(fields, name))
Present(fields, name) == Named(fields, name) # <<>>

\* description_dependencies
Dependencies(fields) ==
  LET entries == UNION {ToSet(Field(fields, name).entries) : name \in {"Depends", "Imports"}}
  IN {entry \in entries : entry # <<"R">> /\ ValidPackageName(entry)}

\* has_collate_directive
Collate(fields) == \E name \in {"Collate", "Collate.unix", "Collate.windows"} : Present(fields, name)

\* from_package_root, up to the sources: why it is refused.
DescriptionFails(description) ==
  LET fields == description.fields
      package == Field(fields, "Package").text
      encoding == Field(fields, "Encoding").text
  IN IF description.state # "read" THEN description.state
     ELSE IF ~ Present(fields, "Package") THEN "PackageMissing"
     ELSE IF package = <<>> THEN "PackageEmpty"
     ELSE IF ~ ValidPackageName(package) THEN "PackageInvalid"
     ELSE IF Present(fields, "Encoding") /\ encoding # <<"UTF-8">> THEN "UnsupportedEncoding"
     ELSE "no"

Metadata(fields) ==
  [package |-> Field(fields, "Package").text,
   dependencies |-> Dependencies(fields),
   collate |-> Collate(fields),
   lazyData |-> Field(fields, "LazyData").text \in {<<"true">>, <<"yes">>}]

-----------------------------------------------------------------------------
(* source.rs *)

\* The files are numbers in the byte order of their names; a directory lists
\* them in any order, each of them once.
ListedFile == [file : Nat \ {0}, regular : BOOLEAN, extension : STRING, readable : BOOLEAN]
IsListing(listing) ==
  /\ listing \in Seq(ListedFile)
  /\ \A j, k \in DOMAIN listing : listing[j].file = listing[k].file => j = k

\* The places of a listing that are taken.
Chosen(listing) ==
  {k \in DOMAIN listing : listing[k].regular /\ listing[k].extension \in {"R", "r"}}
\* Mutant: as the directory lists them.
Enumerated_AsListed(listing) ==
  SelectSeq(listing, LAMBDA entry : entry.regular /\ entry.extension \in {"R", "r"})
\* enumerate_r_files: sorted, the file at n is the one with n - 1 before it.
Enumerated(listing) ==
  LET files == {listing[k].file : k \in Chosen(listing)}
      before(k) == Cardinality({file \in files : file < listing[k].file})
  IN [n \in 1 .. Cardinality(files) |-> listing[CHOOSE k \in Chosen(listing) : before(k) = n - 1]]

\* SourceMap: the files by identifier, and which of them are R.
NoSources == [files |-> <<>>, r |-> <<>>]
AddRegistered(map, file) == [map EXCEPT !.files = Append(@, file)]
AddFile(map, file) ==
  [AddRegistered(map, file) EXCEPT !.r = Append(@, Len(map.files) + 1)]
\* Mutant: as if it were a source of the package.
AddAuxiliary_AsSource(map, file) == AddFile(map, file)
AddAuxiliary(map, file) == AddRegistered(map, file)

\* SourceMap::from_package_root: the first file that cannot be read ends it.
SourcesFail(listing) == \E k \in DOMAIN Enumerated(listing) : ~ Enumerated(listing)[k].readable
Sources(listing) ==
  LET files == Enumerated(listing)
      added[n \in 0 .. Len(files)] ==
        IF n = 0 THEN NoSources ELSE AddFile(added[n - 1], files[n].file)
  IN added[Len(files)]

-----------------------------------------------------------------------------
(* config.rs: every part of the document by its keys.  A value is "table", *)
(* "string" or "other".                                                    *)

InlineFails(inline) ==
  \/ inline.kind # "table" \/ "substitutions" \notin inline.keys
  \/ inline.keys # {"substitutions"}
  \/ inline.value # "table"
  \/ \E k \in DOMAIN inline.entries : inline.entries[k].kind # "string"

\* One entry of s3.registrars, as far as config.rs checks it.
RegistrarFails(registrar) ==
  \/ registrar.kind # "table"
  \/ ~ {"function", "arguments"} \subseteq registrar.keys
  \/ \E k \in DOMAIN registrar.roles : registrar.roles[k] \notin {"generic", "class", "method"}
  \/ registrar.keys # {"function", "arguments"}
\* The signatures beside the one that is built in.
AllSignatures(entries) ==
  <<[callee |-> "s3_register", roles |-> <<"generic", "class", "method">>]>>
  \o [k \in DOMAIN entries |-> [callee |-> entries[k].callee, roles |-> entries[k].roles]]
S3Fails(s3) ==
  \/ s3.kind # "table" \/ "registrars" \notin s3.keys
  \/ s3.value # "array"
  \/ \E k \in DOMAIN s3.entries : RegistrarFails(s3.entries[k])
  \/ s3.keys # {"registrars"}
  \/ ~ Signatures!AreSignatures(AllSignatures(s3.entries))

\* Mutant: what is not known at the top is passed over.
ConfigFails_TopOpen(config) ==
  \/ "inline-r" \in config.keys /\ InlineFails(config.inline)
  \/ "s3" \in config.keys /\ S3Fails(config.s3)
\* parse_config
ConfigFails(config) ==
  \/ config.keys \ {"inline-r", "s3"} # {}
  \/ "inline-r" \in config.keys /\ InlineFails(config.inline)
  \/ "s3" \in config.keys /\ S3Fails(config.s3)

\* All keys of a document, each with the place it stands at.
ConfigKeys(config) ==
  {<<"top", key>> : key \in config.keys}
  \cup (IF "inline-r" \in config.keys THEN {<<"inline-r", key>> : key \in config.inline.keys} ELSE {})
  \cup (IF "s3" \in config.keys
        THEN {<<"s3", key>> : key \in config.s3.keys}
             \cup UNION {{<<"registrar", key>> : key \in config.s3.entries[k].keys} :
                         k \in DOMAIN config.s3.entries}
        ELSE {})

=============================================================================
