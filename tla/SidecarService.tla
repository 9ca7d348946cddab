--------------------------- MODULE SidecarService ---------------------------
(***************************************************************************)
(* What the rest of a node may assume of its workerd sidecar               *)
(* (pkg/server/workerd_sidecar.go), whatever starts, reloads, restarts and *)
(* stops overlap: every process runs definitions that were deployed when   *)
(* it started, mu is held from the start of a process until it is the      *)
(* current one or given up, and WorkerHasDOs, which takes mu, answers from *)
(* the definitions of a process that was started, or from none.            *)
(***************************************************************************)
EXTENDS Naturals

CONSTANT MaxVersion  \* bound on the number of deploys

VARIABLES
    catalog,  \* deploys committed: the newest version of the definitions
    defs,     \* version WorkerHasDOs answers from, 0 for none
    starting, \* version of the process that is being started, 0 when mu is free
    serving   \* versions that workerd processes still alive were started with

vars == <<catalog, defs, starting, serving>>

Init ==
    /\ catalog \in 0..MaxVersion
    /\ defs = 0
    /\ starting = 0
    /\ serving = {}

Deploy ==
    /\ catalog < MaxVersion
    /\ catalog' = catalog + 1
    /\ UNCHANGED <<defs, starting, serving>>

\* A process is started.
Launch(v) ==
    /\ starting = 0
    /\ v \in 1..catalog
    /\ starting' = v
    /\ serving' = serving \cup {v}
    /\ UNCHANGED <<catalog, defs>>

\* The process that was started becomes the current one.
Publish ==
    /\ starting # 0
    /\ defs' = starting
    /\ starting' = 0
    /\ UNCHANGED <<catalog, serving>>

\* The start is given up.
Abandon ==
    /\ starting # 0
    /\ starting' = 0
    /\ UNCHANGED <<catalog, defs, serving>>

\* The current process is taken down.
Withdraw ==
    /\ starting = 0
    /\ defs # 0
    /\ defs' = 0
    /\ UNCHANGED <<catalog, starting, serving>>

\* The last process of a version ends.
End(v) ==
    /\ v \in serving
    /\ serving' = serving \ {v}
    /\ UNCHANGED <<catalog, defs, starting>>

LocalStep ==
    \/ Publish \/ Abandon \/ Withdraw
    \/ \E v \in 1..MaxVersion : Launch(v) \/ End(v)

Next == Deploy \/ LocalStep

Spec == Init /\ [][Next]_vars
=============================================================================
