SPECIFICATION CarefulSpec
CONSTANTS
  Atoi <- MCAtoi
  Documents <- MCDocuments
  Mutations <- MCMutations
  Null = Null
  Absent = Absent
  MaxNodes = 4
INVARIANTS
  CountsMatch
  InlineHasEntries
PROPERTY
  ImplementsJsonColumn
