-------------------------- MODULE MCWorkerRouting --------------------------
(* Instances of WorkerRouting for TLC. *)
EXTENDS WorkerRouting, TLC

CONSTANTS w1, w2, r1, r2

OneWorker == {w1}
TwoWorkers == {w1, w2}
OneRequest == {r1}
TwoRequests == {r1, r2}

\* For runs in which both requests are for one worker.
Symmetric == Permutations({r1, r2})

BothForW1 == [r \in Requests |-> w1]

AllDOs == [v \in 1..MaxVersion |-> Workers]

\* Node 2 owns w1; the nodes tie for w2.
Hashes == [w \in Workers |-> [n \in Nodes |-> IF w = w1 THEN n ELSE 1]]
=============================================================================
