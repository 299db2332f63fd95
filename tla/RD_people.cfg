CONSTANTS
  Words <- MCWords
  Spelling <- MCSpelling
  Builtins <- MCBuiltins
  Families <- BrokenPeople
SPECIFICATION Spec
INVARIANT DocumentsAreWritable
