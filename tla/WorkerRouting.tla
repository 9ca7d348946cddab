--------------------------- MODULE WorkerRouting ---------------------------
(***************************************************************************)
(* Requests to workers in a cluster (pkg/server/workerd_proxy.go and       *)
(* workerd_router.go): each node routes with its own view of which nodes   *)
(* are live and its own sidecar's definitions, forwards a request at most  *)
(* once, and limits the invocations of its local workerd.                  *)
(*                                                                         *)
(* A node's sidecar is what SidecarService promises of it, which           *)
(* WorkerdSidecar implements.                                              *)
(*                                                                         *)
(* Abstractions:                                                           *)
(*  - rendezvousHash is an arbitrary table;                                *)
(*  - a request has a handler on the node the client reached and, once     *)
(*    forwarded, another on the target: <<r, 1>> and <<r, 2>>;             *)
(*  - of a request's headers only X-Ratel-Forwarded is kept: routeRequest  *)
(*    sets it, and a client may have;                                      *)
(*  - an invocation ends when workerd answers, when the timeout of the     *)
(*    handler's context fires, or when the process serving it ends.        *)
(***************************************************************************)
EXTENDS Naturals, FiniteSets

CONSTANTS
    N,           \* node ids are 1..N
    Workers,
    Requests,
    WorkerOf,    \* the worker each request is for
    Hash,        \* rendezvousHash, by worker and node
    DOWorkers,   \* workers with Durable Object classes, by version
    MaxVersion,  \* bound on the deploys
    Limit,       \* maxConcurrentWorkerRequests
    Mortal       \* the nodes that may crash

Nodes == 1..N
Handlers == Requests \X {1, 2}

ASSUME RoutingConstants ==
    /\ N \in Nat \ {0}
    /\ IsFiniteSet(Requests)
    /\ WorkerOf \in [Requests -> Workers]
    /\ Hash \in [Workers -> [Nodes -> Nat]]
    /\ DOWorkers \in [1..MaxVersion -> SUBSET Workers]
    /\ MaxVersion \in Nat
    /\ Limit \in Nat \ {0}
    /\ Mortal \subseteq Nodes

VARIABLES
    catalog,  \* deploys committed
    defs,     \* definitions each node's sidecar answers from, 0 for none
    starting, \* definitions each node's sidecar is starting a process with
    serving,  \* definitions of each node's live workerd processes
    up,       \* nodes that are up
    live,     \* the nodes each node's liveness map has as live
    at,       \* the node each handler runs on
    st,       \* where each handler is
    ver,      \* definitions of the process that runs a handler's invocation
    hdr,      \* handlers whose request has the header X-Ratel-Forwarded
    sem       \* slots of each node's semaphore that are taken

sidecarVars == <<catalog, defs, starting, serving>>
nodeVars == <<up, live>>
handlerVars == <<at, st, ver, hdr, sem>>
vars == <<sidecarVars, nodeVars, handlerVars>>

Worker(h) == WorkerOf[h[1]]

TypeOK ==
    /\ catalog \in 0..MaxVersion
    /\ defs \in [Nodes -> 0..MaxVersion]
    /\ starting \in [Nodes -> 0..MaxVersion]
    /\ serving \in [Nodes -> SUBSET (1..MaxVersion)]
    /\ up \subseteq Nodes
    /\ live \in [Nodes -> SUBSET Nodes]
    /\ at \in [Handlers -> Nodes]
    /\ st \in [Handlers -> {"idle", "check", "pick", "wait", "run", "error", "forward"}]
    /\ ver \in [Handlers -> 0..MaxVersion]
    /\ hdr \subseteq Handlers
    /\ sem \in [Nodes -> 0..Limit]

\* A handler that is idle is on no node; 1 stands for that.
Init ==
    /\ catalog \in 0..MaxVersion
    /\ defs = [n \in Nodes |-> 0]
    /\ starting = [n \in Nodes |-> 0]
    /\ serving = [n \in Nodes |-> {}]
    /\ up = Nodes
    /\ live = [n \in Nodes |-> Nodes]
    /\ at = [h \in Handlers |-> 1]
    /\ st = [h \in Handlers |-> "idle"]
    /\ ver = [h \in Handlers |-> 0]
    /\ hdr = {}
    /\ sem = [n \in Nodes |-> 0]

-----------------------------------------------------------------------------
\* The last of the nodes with the highest hash is taken.
pickNodeTieBroken(w, nodes, local) ==
    LET best[i \in 0..N] ==
            IF i = 0 THEN 0
            ELSE IF i \in nodes
                    /\ (best[i-1] = 0 \/ Hash[w][i] >= Hash[w][best[i-1]])
                 THEN i ELSE best[i-1]
    IN IF nodes = {} THEN local ELSE best[N]

\* pickNode: the loop over the live nodes in the order of their ids. best = 0
\* before the first.
pickNode(w, nodes, local) ==
    LET best[i \in 0..N] ==
            IF i = 0 THEN 0
            ELSE IF i \in nodes
                    /\ (best[i-1] = 0 \/ Hash[w][i] > Hash[w][best[i-1]])
                 THEN i ELSE best[i-1]
    IN IF nodes = {} THEN local ELSE best[N]

\* workerHasDOs, from the definitions of the node's sidecar.
workerHasDOs(n, w) == defs[n] # 0 /\ w \in DOWorkers[defs[n]]

Target(h) == pickNode(Worker(h), live[at[h]], at[h])

-----------------------------------------------------------------------------
\* A client sends request r to node n, with or without the header. (A request
\* is made again once both handlers have ended.)
Arrive(r, n) ==
    /\ n \in up
    /\ st[<<r, 1>>] = "idle" /\ st[<<r, 2>>] = "idle"
    /\ st' = [st EXCEPT ![<<r, 1>>] = "check"]
    /\ at' = [at EXCEPT ![<<r, 1>>] = n]
    /\ hdr' \in {hdr, hdr \cup {<<r, 1>>}}
    /\ UNCHANGED <<sidecarVars, nodeVars, ver, sem>>

\* A forwarded request is routed like any other.
CheckDOsBroken(h) ==
    /\ st[h] = "check"
    /\ starting[at[h]] = 0
    /\ st' = [st EXCEPT ![h] = IF workerHasDOs(at[h], Worker(h)) THEN "pick" ELSE "wait"]
    /\ UNCHANGED <<sidecarVars, nodeVars, at, ver, hdr, sem>>

\* handleWorkers asks the sidecar, under mu; routeRequest serves locally a request with
\* the header and a worker without Durable Objects.
CheckDOs(h) ==
    /\ st[h] = "check"
    /\ starting[at[h]] = 0
    /\ st' = [st EXCEPT ![h] = IF h \notin hdr /\ workerHasDOs(at[h], Worker(h))
                               THEN "pick" ELSE "wait"]
    /\ UNCHANGED <<sidecarVars, nodeVars, at, ver, hdr, sem>>

\* routeRequest: this node is the target.
PickLocal(h) ==
    /\ st[h] = "pick"
    /\ Target(h) = at[h]
    /\ st' = [st EXCEPT ![h] = "wait"]
    /\ UNCHANGED <<sidecarVars, nodeVars, at, ver, hdr, sem>>

\* The target has no address in gossip: the request is served locally.
PickUnresolved(h) ==
    /\ st[h] = "pick"
    /\ Target(h) # at[h]
    /\ st' = [st EXCEPT ![h] = "wait"]
    /\ UNCHANGED <<sidecarVars, nodeVars, at, ver, hdr, sem>>

\* The request is sent to the node itself.
ForwardBroken(h) ==
    /\ st[h] = "pick"
    /\ Target(h) # at[h]
    /\ Target(h) \in up
    /\ st' = [st EXCEPT ![h] = "forward", ![<<h[1], 2>>] = "check"]
    /\ at' = [at EXCEPT ![<<h[1], 2>>] = at[h]]
    /\ hdr' = hdr \cup {<<h[1], 2>>}
    /\ UNCHANGED <<sidecarVars, nodeVars, ver, sem>>

\* The request is proxied to the target with the header set, and the target starts
\* a handler.
Forward(h) ==
    /\ st[h] = "pick"
    /\ Target(h) # at[h]
    /\ Target(h) \in up
    /\ st' = [st EXCEPT ![h] = "forward", ![<<h[1], 2>>] = "check"]
    /\ at' = [at EXCEPT ![<<h[1], 2>>] = Target(h)]
    /\ hdr' = hdr \cup {<<h[1], 2>>}
    /\ UNCHANGED <<sidecarVars, nodeVars, ver, sem>>

\* The target cannot be reached: the proxy answers 502.
ForwardFail(h) ==
    /\ st[h] = "pick"
    /\ Target(h) # at[h]
    /\ st' = [st EXCEPT ![h] = "idle"]
    /\ at' = [at EXCEPT ![h] = 1]
    /\ hdr' = hdr \ {h}
    /\ UNCHANGED <<sidecarVars, nodeVars, ver, sem>>

\* The handler gets a slot and reaches a local workerd, if one is listening.
Acquire(h) ==
    LET n == at[h] IN
    /\ st[h] = "wait"
    /\ sem[n] < Limit
    /\ sem' = [sem EXCEPT ![n] = @ + 1]
    /\ \/ /\ serving[n] = {}
          /\ st' = [st EXCEPT ![h] = "error"]
          /\ UNCHANGED ver
       \/ \E v \in serving[n] :
          /\ st' = [st EXCEPT ![h] = "run"]
          /\ ver' = [ver EXCEPT ![h] = v]
    /\ UNCHANGED <<sidecarVars, nodeVars, at, hdr>>

\* A handler returns, and gives back its slot if it has one.
Leave(h) ==
    /\ st' = [st EXCEPT ![h] = "idle"]
    /\ ver' = [ver EXCEPT ![h] = 0]
    /\ at' = [at EXCEPT ![h] = 1]
    /\ hdr' = hdr \ {h}
    /\ sem' = [sem EXCEPT ![at[h]] = IF st[h] \in {"run", "error"} THEN @ - 1 ELSE @]
    /\ UNCHANGED <<sidecarVars, nodeVars>>

\* The invocation is over: the local proxy returns.
Finish(h) ==
    /\ st[h] \in {"run", "error"}
    /\ Leave(h)

\* The target has answered, or the connection to it broke.
Relay(h) ==
    /\ st[h] = "forward"
    /\ st[<<h[1], 2>>] = "idle"
    /\ Leave(h)

\* The slot is lost when the timeout fires.
TimeoutBroken(h) ==
    /\ st[h] \in {"wait", "run", "forward"}
    /\ st' = [st EXCEPT ![h] = "idle"]
    /\ ver' = [ver EXCEPT ![h] = 0]
    /\ at' = [at EXCEPT ![h] = 1]
    /\ hdr' = hdr \ {h}
    /\ UNCHANGED <<sidecarVars, nodeVars, sem>>

\* The handler's context is done, after workerRequestTimeout or because the
\* client, or the node that forwarded the request, has gone away.
Timeout(h) ==
    /\ st[h] \in {"wait", "run", "forward"}
    /\ Leave(h)

-----------------------------------------------------------------------------
\* The sidecar of node n, as SidecarService has it.
Sidecar(n) == INSTANCE SidecarService WITH
    defs <- defs[n], starting <- starting[n], serving <- serving[n]

\* A step of a node's sidecar. An invocation breaks when the process that runs
\* it ends.
SidecarStep(n) ==
    /\ n \in up
    /\ \E v, u \in 0..MaxVersion, S \in SUBSET (1..MaxVersion) :
        /\ defs' = [defs EXCEPT ![n] = v]
        /\ starting' = [starting EXCEPT ![n] = u]
        /\ serving' = [serving EXCEPT ![n] = S]
        /\ Sidecar(n)!LocalStep
    /\ LET broken == {h \in Handlers : st[h] = "run" /\ at[h] = n /\ ver[h] \notin serving'[n]}
       IN  /\ st' = [h \in Handlers |-> IF h \in broken THEN "error" ELSE st[h]]
           /\ ver' = [h \in Handlers |-> IF h \in broken THEN 0 ELSE ver[h]]
    /\ UNCHANGED <<catalog, nodeVars, at, hdr, sem>>

\* A deploy, through any node.
Deploy ==
    /\ catalog < MaxVersion
    /\ catalog' = catalog + 1
    /\ UNCHANGED <<defs, starting, serving, nodeVars, handlerVars>>

\* Node n learns that nodes have, or have not, renewed their liveness.
ViewChange(n, V) ==
    /\ n \in up
    /\ live[n] # V
    /\ live' = [live EXCEPT ![n] = V]
    /\ UNCHANGED <<sidecarVars, up, handlerVars>>

\* A node dies with its handlers and its sidecar.
Crash(n) ==
    /\ n \in up \cap Mortal
    /\ up' = up \ {n}
    /\ live' = [live EXCEPT ![n] = {}]
    /\ defs' = [defs EXCEPT ![n] = 0]
    /\ starting' = [starting EXCEPT ![n] = 0]
    /\ serving' = [serving EXCEPT ![n] = {}]
    /\ st' = [h \in Handlers |-> IF at[h] = n THEN "idle" ELSE st[h]]
    /\ ver' = [h \in Handlers |-> IF at[h] = n THEN 0 ELSE ver[h]]
    /\ at' = [h \in Handlers |-> IF at[h] = n THEN 1 ELSE at[h]]
    /\ hdr' = {h \in hdr : at[h] # n}
    /\ sem' = [sem EXCEPT ![n] = 0]
    /\ UNCHANGED catalog

Restart(n) ==
    /\ n \notin up
    /\ up' = up \cup {n}
    /\ UNCHANGED <<sidecarVars, live, handlerVars>>

-----------------------------------------------------------------------------
Route(h) == CheckDOs(h) \/ PickLocal(h) \/ PickUnresolved(h) \/ Forward(h) \/ ForwardFail(h)

Next ==
    \/ \E r \in Requests, n \in Nodes : Arrive(r, n)
    \/ \E h \in Handlers : Route(h) \/ Acquire(h) \/ Finish(h) \/ Relay(h) \/ Timeout(h)
    \/ Deploy
    \/ \E n \in Nodes : SidecarStep(n) \/ Crash(n) \/ Restart(n)
    \/ \E n \in Nodes, V \in SUBSET Nodes : ViewChange(n, V)

Spec == Init /\ [][Next]_vars

\* Goroutines are scheduled; mu and the semaphore's channel do not starve a
\* waiter; a start of workerd ends, since sidecar calls return; an invocation
\* is answered. Nothing is assumed of the timeout.
Fairness ==
    /\ \A h \in Handlers :
        /\ SF_vars(Route(h))
        /\ SF_vars(Acquire(h))
        /\ WF_vars(Finish(h))
        /\ WF_vars(Relay(h))
    /\ \A n \in Nodes : WF_vars(starting[n] # 0 /\ SidecarStep(n) /\ starting'[n] = 0)

FairSpec == Spec /\ Fairness

-----------------------------------------------------------------------------
(***************************************************************************)
(* Properties of every schedule.                                           *)
(***************************************************************************)
\* A slot is taken for exactly the handlers that are in the local proxy, so a
\* node that has answered, timed out or lost its requests has all its slots;
\* a handler that forwards its request holds none, and the limit is kept.
SlotsAccounted ==
    \A n \in Nodes :
        /\ sem[n] = Cardinality({h \in Handlers : at[h] = n /\ st[h] \in {"run", "error"}})
        /\ sem[n] <= Limit

\* pickNode's loop finds the live node with the highest hash, the first of
\* them if several have it.
PickIsHighest ==
    \A n \in Nodes, w \in Workers : live[n] # {} =>
        LET k == pickNode(w, live[n], n) IN
        /\ k \in live[n]
        /\ \A m \in live[n] \ {k} :
            Hash[w][m] < Hash[w][k] \/ (Hash[w][m] = Hash[w][k] /\ k < m)

Owner(n, w) == pickNode(w, live[n], n)

\* "The selected node changes only when nodes join or leave": a node's choice
\* changes only if the old choice is no longer live, or the new one was not
\* live before; whoever else comes or goes.
LeastDisruption ==
    [][\A n \in Nodes, w \in Workers :
        live[n] # {} /\ live'[n] # {} /\ Owner(n, w)' # Owner(n, w) =>
            Owner(n, w) \notin live'[n] \/ Owner(n, w)' \notin live[n]]_vars

\* Every request is answered: handlers on different nodes do not wait for each
\* other's slots, and a request is not passed on for ever.
RequestsEnd == \A r \in Requests : st[<<r, 1>>] # "idle" ~> st[<<r, 1>>] = "idle"

-----------------------------------------------------------------------------
(***************************************************************************)
(* Where the requests of workers with Durable Objects run.                 *)
(***************************************************************************)
\* The client sent the request with the header, so that it is served where it
\* arrives.
Pinned(h) == h[2] = 1 /\ h \in hdr

\* A request that routeRequest placed runs a worker with Durable Objects.
Writer(h) == st[h] = "run" /\ Worker(h) \in DOWorkers[ver[h]] /\ ~Pinned(h)

\* All requests of a worker with Durable Objects, but the ones clients pinned, run
\* on the node every other node would choose.
ConsistentOwner ==
    \A h \in Handlers : Writer(h) => \A n \in up : at[h] = Owner(n, Worker(h))

\* "single-writer semantics for ActorCache": the requests of a worker with
\* Durable Objects, but the ones clients pinned, do not run on two nodes at a time.
SingleWriter ==
    \A h, k \in Handlers :
        Writer(h) /\ Writer(k) /\ Worker(h) = Worker(k) => at[h] = at[k]

\* Every address is known.
Resolved == \A h \in Handlers : st[h] = "pick" /\ st'[h] = "wait" => Target(h) = at[h]

\* Every sidecar has the deployed definitions and runs no others.
Informed ==
    /\ \A n \in Nodes : defs[n] = catalog /\ starting[n] = 0 /\ serving[n] \subseteq {catalog}
    /\ up = Nodes

\* Every node has the same nodes for live.
Agreed == \A n \in Nodes : live[n] = live[1] /\ live[1] # {}

InformedInit ==
    /\ catalog \in 1..MaxVersion
    /\ defs = [n \in Nodes |-> catalog]
    /\ starting = [n \in Nodes |-> 0]
    /\ serving = [n \in Nodes |-> {catalog}]
    /\ up = Nodes
    /\ live \in [Nodes -> SUBSET Nodes]
    /\ at = [h \in Handlers |-> 1]
    /\ st = [h \in Handlers |-> "idle"]
    /\ ver = [h \in Handlers |-> 0]
    /\ hdr = {}
    /\ sem = [n \in Nodes |-> 0]

\* A cluster at rest but for its requests and the ends of workerd processes.
SteadySpec ==
    InformedInit /\ Agreed /\ [][Next /\ Resolved /\ Informed' /\ UNCHANGED live]_vars

\* A cluster in which only the liveness views change.
FlappingSpec == InformedInit /\ Agreed /\ [][Next /\ Resolved /\ Informed']_vars

\* A cluster in which only the sidecars change.
ReloadingSpec ==
    InformedInit /\ Agreed /\ [][Next /\ Resolved /\ UNCHANGED <<live, up>>]_vars

\* Once the views agree, the addresses are known and every sidecar has the
\* deployed definitions, for good, the requests of a worker with Durable Objects
\* end up on its owner, whatever was on its way before, unless the client set
\* X-Ratel-Forwarded itself (routeRequest).
Settles == <>[](Informed /\ Agreed) /\ <>[][Resolved]_vars => <>[]ConsistentOwner
=============================================================================
