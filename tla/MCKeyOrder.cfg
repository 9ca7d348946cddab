SPECIFICATION Spec
CONSTANTS
    ActorHashLen = 2
    Entries <- ShortEntries
INVARIANTS
    KeysSortLikeTree
    SubtreeIsSpan
    KeysDecode
    RowPrefixIsRow
    RowDeleteTakesSubs
