CONSTANT Families <- MCFamilies
SPECIFICATION Spec
INVARIANTS
  FragmentsAreWritable
  NothingIsSwallowed
  MacrosAreJudgedAlone
