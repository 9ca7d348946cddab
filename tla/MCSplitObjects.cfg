SPECIFICATION Spec
CONSTANTS
    ActorHashLen = 2
    Entries <- DOEntries
    RequestKeys <- NoKeys
    SampledKeys <- NoKeys
    Splitters = {w1}
    None = None
INVARIANTS
    EveryLargeRangeSplits
