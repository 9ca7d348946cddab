SPECIFICATION Spec
CONSTANTS
    ActorHashLen = 2
    Entries <- ActorEntries
    RequestKeys <- NoKeys
    SampledKeys <- NoKeys
    Splitters = {w1}
    None = None
INVARIANTS
    ActorsStayWhole
