CONSTANTS
  TagNames <- MCTagNames
  Files <- MCFiles
SPECIFICATION Spec
INVARIANTS
  NothingIsSilent
  ProvenanceIsExact
  SectionsKeepLinksWhole
