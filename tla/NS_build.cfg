SPECIFICATION Spec
CONSTANTS
  NumFiles = 2
  Syntactic <- AllSyntactic
  Families <- AllPackages
INVARIANTS
  WalksAgree
  RegistrationsFollowR
  ExportsAreProven
  RequestsReachNamespace
