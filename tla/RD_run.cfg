CONSTANTS
  Words <- MCWords
  Spelling <- MCSpelling
  Builtins <- MCBuiltins
  Families <- MCFamilies
SPECIFICATION Spec
INVARIANTS
  ErrorsShutTheGate
  NoTopicVanishes
  UnusedIsUnused
  DocumentsAreWritable
