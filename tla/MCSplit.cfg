SPECIFICATION Spec
CONSTANTS
    ActorHashLen = 2
    Entries <- MixedEntries
    RequestKeys <- Boundaries
    SampledKeys <- Sampled
    Splitters = {w1, w2}
    None = None
SYMMETRY Symmetric
INVARIANTS
    RowsStayWhole
    RangesTile
    SplitsDivide
    LargeRangesSplit
