SPECIFICATION FlappingSpec
CONSTANTS
    w1 = w1
    w2 = w2
    r1 = r1
    r2 = r2
    N = 2
    Workers <- OneWorker
    Requests <- TwoRequests
    WorkerOf <- BothForW1
    Hash <- Hashes
    DOWorkers <- AllDOs
    MaxVersion = 1
    Limit = 1
    Mortal = {}
INVARIANT SingleWriter
