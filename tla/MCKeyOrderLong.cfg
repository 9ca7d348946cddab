SPECIFICATION Spec
CONSTANTS
    ActorHashLen = 2
    Entries <- LongEntries
INVARIANT
    RowPrefixIsRow
