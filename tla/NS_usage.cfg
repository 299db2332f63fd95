SPECIFICATION Spec
CONSTANTS
  NumFiles = 2
  Syntactic <- AllSyntactic
  Families <- EqualFamilies
INVARIANT UsageAgreesWithNamespace
