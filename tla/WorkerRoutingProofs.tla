------------------------ MODULE WorkerRoutingProofs ------------------------
(***************************************************************************)
(* Proofs about WorkerRouting, for any number of nodes, workers, requests  *)
(* and deploys, any hash and any limit.                                    *)
(*                                                                         *)
(*  - SlotsAccounted: the semaphore of a node counts the handlers in its   *)
(*    local proxy. The invariant adds that a request is forwarded at most  *)
(*    once, without which Forward could restart a handler that holds a     *)
(*    slot.                                                                *)
(*  - PickIsHighest: pickNode's loop returns the live node with the        *)
(*    highest hash, by induction over its turns; LeastDisruption follows.  *)
(*  - A cluster at rest sends all requests of a worker with Durable        *)
(*    Objects to one node.                                                 *)
(***************************************************************************)
EXTENDS WorkerRouting, FiniteSetTheorems, WellFoundedInduction, TLAPS

USE DEF Nodes, Handlers

-----------------------------------------------------------------------------
(* Induction over the natural numbers, stated with sets *)

\* A set of natural numbers has a least element.
LEMMA LeastNat ==
    ASSUME NEW T \in SUBSET Nat, T # {}
    PROVE  \E x \in T : \A y \in T : x <= y
<1> DEFINE Less == {p \in Nat \X Nat : p[1] < p[2]}
<1>1. IsWellFoundedOn(Less, Nat)
  BY NatLessThanWellFounded, Zenon DEF OpToRel
<1>2. PICK x \in T : \A y \in T : <<y, x>> \notin Less
  <2> HIDE DEF Less
  <2> QED
    BY <1>1, WFMin, Zenon
<1>3. ASSUME NEW y \in T PROVE x <= y
  <2>1. y < x => <<y, x>> \in Less
    OBVIOUS
  <2>2. ~(y < x)
    BY <1>2, <2>1
  <2> QED
    BY <2>2
<1> QED
  BY <1>3

\* A set that holds the first number of an interval and with every number the
\* next holds the interval.
LEMMA UpTo ==
    ASSUME NEW n \in Nat, NEW S, 0 \in S, \A i \in 0..(n - 1) : i \in S => i + 1 \in S
    PROVE  \A i \in 0..n : i \in S
<1> DEFINE T == (0..n) \ S
<1> SUFFICES ASSUME T # {} PROVE FALSE
  OBVIOUS
<1>1. PICK x \in T : \A y \in T : x <= y
  <2>1. T \in SUBSET Nat
    OBVIOUS
  <2> HIDE DEF T
  <2> QED
    BY <2>1, LeastNat, Zenon
<1>2. x # 0 /\ x \in 0..n
  OBVIOUS
<1>3. x - 1 \in 0..(n - 1) /\ x - 1 \notin T
  BY <1>1, <1>2
<1> QED
  BY <1>2, <1>3

-----------------------------------------------------------------------------
(* pickNode *)

\* There are nodes, numbered from 1.
LEMMA NNat == N \in Nat \ {0}
  BY RoutingConstants

\* A hash is a number.
LEMMA HashNat == \A w \in Workers, n \in Nodes : Hash[w][n] \in Nat
  BY RoutingConstants

\* What one turn of pickNode's loop makes of the best node so far.
Better(w, nodes, i, best) ==
    IF i \in nodes /\ (best = 0 \/ Hash[w][i] > Hash[w][best]) THEN i ELSE best

\* b holds the best node after each of the first k turns of the loop.
Loop(w, nodes, k, b) ==
    b = [i \in 0..k |-> IF i = 0 THEN 0 ELSE Better(w, nodes, i, b[i-1])]

\* The loop's recursive definition has a solution.
LEMMA LoopExists ==
    ASSUME NEW w \in Workers, NEW nodes \in SUBSET Nodes
    PROVE  \E b : Loop(w, nodes, N, b)
<1> DEFINE S == {k \in 0..N : \E b : Loop(w, nodes, k, b)}
<1>1. 0 \in S
  <2> DEFINE b == [i \in 0..0 |-> 0]
  <2>1. Loop(w, nodes, 0, b)
    BY DEF Loop
  <2> QED
    BY <2>1, NNat
<1>2. ASSUME NEW k \in 0..(N - 1), k \in S PROVE k + 1 \in S
  <2>1. PICK a : Loop(w, nodes, k, a)
    BY <1>2
  <2> DEFINE b == [i \in 0..(k + 1) |-> IF i <= k THEN a[i] ELSE Better(w, nodes, i, a[k])]
  <2>2. ASSUME NEW i \in 0..(k + 1)
        PROVE  b[i] = IF i = 0 THEN 0 ELSE Better(w, nodes, i, b[i-1])
    <3>1. CASE i = 0
      BY <3>1, <2>1 DEF Loop
    <3>2. CASE i \in 1..k
      BY <3>2, <2>1 DEF Loop
    <3>3. CASE i = k + 1
      BY <3>3
    <3> QED
      BY <3>1, <3>2, <3>3
  <2>3. Loop(w, nodes, k + 1, b)
    BY <2>2 DEF Loop
  <2>4. k + 1 \in 0..N
    BY NNat
  <2> QED
    BY <2>3, <2>4
<1>3. \A i \in 0..N : i \in S
  <2> HIDE DEF S
  <2> QED
    BY <1>1, <1>2, NNat, UpTo
<1> QED
  BY <1>3, NNat

\* Node k is the one pickNode promises: in the set, with the highest hash, and
\* the first of those with that hash.
IsHighest(w, nodes, k) ==
    /\ k \in nodes
    /\ \A m \in nodes \ {k} : Hash[w][m] < Hash[w][k] \/ (Hash[w][m] = Hash[w][k] /\ k < m)

\* best is the highest of the first i nodes, 0 if none of them is in the set.
BestSoFar(w, nodes, i, best) ==
    IF nodes \cap 1..i = {} THEN best = 0 ELSE IsHighest(w, nodes \cap 1..i, best)

\* A turn of the loop keeps it so.
LEMMA Turn ==
    ASSUME NEW w \in Workers, NEW nodes \in SUBSET Nodes, NEW k \in 0..(N - 1), NEW best,
           BestSoFar(w, nodes, k, best)
    PROVE  BestSoFar(w, nodes, k + 1, Better(w, nodes, k + 1, best))
<1> DEFINE seen == nodes \cap 1..k
<1>1. k + 1 \in Nodes /\ seen \subseteq Nodes
  BY NNat
<1>2. CASE k + 1 \notin nodes
  <2>1. nodes \cap 1..(k + 1) = seen
    BY <1>2
  <2>2. Better(w, nodes, k + 1, best) = best
    BY <1>2 DEF Better
  <2> QED
    BY <2>1, <2>2, Zenon DEF BestSoFar
<1>3. CASE k + 1 \in nodes /\ seen = {}
  <2>1. nodes \cap 1..(k + 1) = {k + 1}
    BY <1>3
  <2>2. Better(w, nodes, k + 1, best) = k + 1
    BY <1>3 DEF Better, BestSoFar
  <2>3. IsHighest(w, {k + 1}, k + 1)
    BY Zenon DEF IsHighest
  <2> QED
    BY <2>1, <2>2, <2>3, Zenon DEF BestSoFar
<1>4. CASE k + 1 \in nodes /\ seen # {}
  <2>1. nodes \cap 1..(k + 1) = seen \cup {k + 1}
    BY <1>4
  <2>2. IsHighest(w, seen, best)
    BY <1>4, Zenon DEF BestSoFar
  <2>3. best \in 1..k
    BY <2>2 DEF IsHighest
  <2>4. /\ Hash[w][k + 1] \in Nat /\ Hash[w][best] \in Nat
        /\ \A m \in seen : Hash[w][m] \in Nat /\ m < k + 1
    BY <1>1, <2>2, HashNat DEF IsHighest
  <2> HIDE DEF seen
  <2>5. \A m \in seen : Hash[w][m] <= Hash[w][best]
    <3> TAKE m \in seen
    <3>1. CASE m = best
      BY <2>4, <3>1
    <3>2. CASE m # best
      BY <2>2, <2>4, <3>2 DEF IsHighest
    <3> QED
      BY <3>1, <3>2
  <2>6. CASE Hash[w][k + 1] > Hash[w][best]
    <3>1. Better(w, nodes, k + 1, best) = k + 1
      BY <1>4, <2>6 DEF Better
    <3>2. IsHighest(w, seen \cup {k + 1}, k + 1)
      BY <2>4, <2>5, <2>6 DEF IsHighest
    <3> QED
      BY <2>1, <3>1, <3>2, Zenon DEF BestSoFar
  <2>7. CASE ~(Hash[w][k + 1] > Hash[w][best])
    <3>1. Better(w, nodes, k + 1, best) = best
      BY <2>3, <2>7 DEF Better
    <3>2. IsHighest(w, seen \cup {k + 1}, best)
      BY <2>2, <2>3, <2>4, <2>7 DEF IsHighest
    <3> QED
      BY <2>1, <3>1, <3>2, Zenon DEF BestSoFar
  <2> QED
    BY <2>6, <2>7
<1> QED
  BY <1>2, <1>3, <1>4

\* So it is the highest of all at the end.
LEMMA LoopHighest ==
    ASSUME NEW w \in Workers, NEW nodes \in SUBSET Nodes, NEW b, Loop(w, nodes, N, b)
    PROVE  BestSoFar(w, nodes, N, b[N])
<1> DEFINE S == {i \in 0..N : BestSoFar(w, nodes, i, b[i])}
<1>1. 0 \in S
  BY NNat DEF Loop, BestSoFar
<1>2. ASSUME NEW k \in 0..(N - 1), k \in S PROVE k + 1 \in S
  <2>1. b[k + 1] = Better(w, nodes, k + 1, b[k]) /\ k + 1 \in 0..N
    BY NNat DEF Loop
  <2>2. BestSoFar(w, nodes, k + 1, b[k + 1])
    BY <1>2, <2>1, Turn
  <2> QED
    BY <2>1, <2>2
<1> HIDE DEF S
<1>3. N \in S
  BY <1>1, <1>2, NNat, UpTo
<1> QED
  BY <1>3 DEF S

\* pickNode returns the node with the highest hash.
LEMMA PickNode ==
    ASSUME NEW w \in Workers, NEW nodes \in SUBSET Nodes, NEW local
    PROVE  IF nodes = {} THEN pickNode(w, nodes, local) = local
           ELSE IsHighest(w, nodes, pickNode(w, nodes, local))
<1>1. PICK a : Loop(w, nodes, N, a)
  BY LoopExists
<1>2. CASE nodes # {}
  <2>1. PICK b : Loop(w, nodes, N, b) /\ pickNode(w, nodes, local) = b[N]
    BY <1>1, <1>2 DEF pickNode, Loop, Better
  <2>2. nodes \cap 1..N = nodes
    OBVIOUS
  <2>3. BestSoFar(w, nodes, N, b[N])
    BY <2>1, LoopHighest, Zenon
  <2> QED
    BY <1>2, <2>1, <2>2, <2>3, Zenon DEF BestSoFar
<1>3. CASE nodes = {}
  BY <1>3 DEF pickNode
<1> QED
  BY <1>2, <1>3

-----------------------------------------------------------------------------
(* Every schedule *)

\* A request is forwarded at most once: the handler of a forwarded request does
\* not route it again, since it sees the header, and one that is being routed has
\* not been forwarded.
RoutedOnce ==
    \A r \in Requests :
        /\ st[<<r, 2>>] \notin {"pick", "forward"}
        /\ st[<<r, 1>>] \in {"check", "pick"} => st[<<r, 2>>] = "idle"
        /\ st[<<r, 2>>] # "idle" => <<r, 2>> \in hdr

\* The handlers in node n's local proxy.
InProxy(n) == {h \in Handlers : at[h] = n /\ st[h] \in {"run", "error"}}

Accounted == \A n \in Nodes : sem[n] = Cardinality(InProxy(n))

\* The inductive invariant.
IInv == TypeOK /\ RoutedOnce /\ Accounted

\* There are finitely many handlers, since there are finitely many requests.
LEMMA HandlersFinite == IsFiniteSet(Handlers)
<1>1. {1, 2} = {1} \cup {2}
  OBVIOUS
<1>2. IsFiniteSet({1}) /\ IsFiniteSet({2})
  BY FS_Singleton
<1>3. IsFiniteSet({1, 2})
  BY <1>1, <1>2, FS_Union
<1> QED
  BY <1>3, FS_Product, RoutingConstants

\* So there are in a proxy.
LEMMA ProxyFinite == \A n : IsFiniteSet(InProxy(n))
  BY HandlersFinite, FS_Subset DEF InProxy

\* The invariant holds at the start: nobody is in a proxy.
LEMMA InitInv == Init => IInv
<1> SUFFICES ASSUME Init PROVE IInv
  OBVIOUS
<1>1. TypeOK
  BY RoutingConstants DEF Init, TypeOK
<1>2. RoutedOnce
  BY DEF Init, RoutedOnce
<1>3. ASSUME NEW n \in Nodes PROVE sem[n] = Cardinality(InProxy(n))
  <2>1. InProxy(n) = {}
    BY DEF Init, InProxy
  <2> QED
    BY <2>1, FS_EmptySet DEF Init
<1> QED
  BY <1>1, <1>2, <1>3 DEF IInv, Accounted

\* A request is forwarded to a node, by PickNode.
LEMMA TargetNode ==
    ASSUME TypeOK, NEW h \in Handlers PROVE Target(h) \in Nodes
<1>1. Worker(h) \in Workers /\ live[at[h]] \in SUBSET Nodes /\ at[h] \in Nodes
  BY RoutingConstants DEF TypeOK, Worker
<1>2. CASE live[at[h]] = {}
  BY <1>1, <1>2, PickNode, ZenonT(60) DEF Target
<1>3. CASE live[at[h]] # {}
  <2>1. IsHighest(Worker(h), live[at[h]], Target(h))
    BY <1>1, <1>3, PickNode, Zenon DEF Target
  <2> QED
    BY <1>1, <2>1 DEF IsHighest
<1> QED
  BY <1>2, <1>3

-----------------------------------------------------------------------------
(* One lemma per kind of step: the invariant is preserved *)

\* The handlers in a proxy, and the slots, are those they were.
Proxies == \A n \in Nodes : InProxy(n)' = InProxy(n) /\ sem'[n] = sem[n]

\* Such a step keeps the count.
LEMMA ProxiesAccounted == ASSUME Accounted, Proxies PROVE Accounted'
  BY Zenon DEF Accounted, Proxies

\* Where a handler may be.
Where == {"idle", "check", "pick", "wait", "run", "error", "forward"}

\* A step of a handler keeps the types if it keeps those of the handlers.
LEMMA HandlerTypes ==
    ASSUME TypeOK, UNCHANGED <<sidecarVars, nodeVars>>,
           at' \in [Handlers -> Nodes], st' \in [Handlers -> Where],
           ver' \in [Handlers -> 0..MaxVersion], hdr' \subseteq Handlers,
           sem' \in [Nodes -> 0..Limit]
    PROVE  TypeOK'
  BY Zenon DEF TypeOK, Where, sidecarVars, nodeVars

\* The node an idle handler is on, and the version it has.
LEMMA OneNode == 1 \in Nodes /\ 0 \in 0..MaxVersion
  BY RoutingConstants

\* Arrive starts only the first handler of a request both of whose handlers ended.
LEMMA ArriveInv ==
    ASSUME IInv, NEW r \in Requests, NEW n \in Nodes, Arrive(r, n) PROVE IInv'
<1> USE DEF IInv, Arrive, sidecarVars, nodeVars
<1>1. TypeOK'
  BY DEF TypeOK
<1>2. ASSUME NEW q \in Requests
      PROVE  /\ st'[<<q, 2>>] \notin {"pick", "forward"}
             /\ st'[<<q, 1>>] \in {"check", "pick"} => st'[<<q, 2>>] = "idle"
             /\ st'[<<q, 2>>] # "idle" => <<q, 2>> \in hdr'
  <2>1. <<q, 2>> # <<r, 1>> /\ st'[<<q, 2>>] = st[<<q, 2>>]
    BY DEF TypeOK
  <2>2. CASE q = r
    BY <2>1, <2>2
  <2>3. CASE q # r
    <3>1. st'[<<q, 1>>] = st[<<q, 1>>]
      BY <2>3 DEF TypeOK
    <3> QED
      BY <2>1, <3>1 DEF RoutedOnce
  <2> QED
    BY <2>2, <2>3
<1>3. Proxies
  BY DEF TypeOK, Proxies, InProxy
<1> QED
  BY <1>1, <1>2, <1>3, ProxiesAccounted DEF RoutedOnce

\* Routing takes no slot, and only a first handler forwards: the second is idle then.
LEMMA RouteInv ==
    ASSUME IInv, NEW h \in Handlers, Route(h) PROVE IInv'
<1> USE DEF IInv, sidecarVars, nodeVars
<1>1. PICK r \in Requests, i \in {1, 2} : h = <<r, i>>
  OBVIOUS
<1>2. ASSUME CheckDOs(h) \/ PickLocal(h) \/ PickUnresolved(h) PROVE IInv'
  <2>1. PICK to \in {"pick", "wait"} :
            /\ st[h] \in {"check", "pick"} /\ st' = [st EXCEPT ![h] = to]
            /\ to = "pick" => h \notin hdr /\ st[h] = "check"
            /\ UNCHANGED <<sidecarVars, nodeVars, at, ver, hdr, sem>>
    BY <1>2 DEF CheckDOs, PickLocal, PickUnresolved
  <2>2. TypeOK'
    BY <2>1 DEF TypeOK
  <2>3. RoutedOnce'
    BY <1>1, <2>1 DEF TypeOK, RoutedOnce
  <2>4. Proxies
    BY <2>1 DEF TypeOK, Proxies, InProxy
  <2> QED
    BY <2>2, <2>3, <2>4, ProxiesAccounted
<1>3. ASSUME Forward(h) PROVE IInv'
  <2>1. i = 1 /\ st[h] = "pick" /\ st[<<r, 2>>] = "idle"
    BY <1>1, <1>3 DEF Forward, RoutedOnce
  <2>2. /\ st' = [st EXCEPT ![<<r, 1>>] = "forward", ![<<r, 2>>] = "check"]
        /\ at' = [at EXCEPT ![<<r, 2>>] = Target(h)]
        /\ hdr' = hdr \cup {<<r, 2>>}
        /\ UNCHANGED <<sidecarVars, nodeVars, ver, sem>>
    BY <1>1, <1>3, <2>1 DEF Forward
  <2>3. TypeOK'
    BY <2>2, TargetNode DEF TypeOK
  <2>4. RoutedOnce'
    BY <1>1, <2>1, <2>2 DEF TypeOK, RoutedOnce
  <2>5. Proxies
    BY <1>1, <2>1, <2>2 DEF TypeOK, Proxies, InProxy
  <2> QED
    BY <2>3, <2>4, <2>5, ProxiesAccounted
<1>4. ASSUME ForwardFail(h) PROVE IInv'
  <2>1. TypeOK'
    <3>1. at' \in [Handlers -> Nodes] /\ st' \in [Handlers -> Where]
      BY <1>4, OneNode DEF ForwardFail, TypeOK, Where
    <3> QED
      BY <1>4, <3>1, HandlerTypes DEF ForwardFail, TypeOK
  <2>2. RoutedOnce'
    BY <1>1, <1>4 DEF ForwardFail, TypeOK, RoutedOnce
  <2>3. Proxies
    BY <1>4 DEF ForwardFail, TypeOK, Proxies, InProxy
  <2> QED
    BY <2>1, <2>2, <2>3, ProxiesAccounted
<1> QED
  BY <1>2, <1>3, <1>4 DEF Route

\* Acquire adds the handler to the proxy of its node and takes one of its slots.
LEMMA AcquireInv ==
    ASSUME IInv, NEW h \in Handlers, Acquire(h) PROVE IInv'
<1> USE DEF IInv, sidecarVars, nodeVars
<1> DEFINE n == at[h]
<1>1. PICK to \in {"run", "error"}, v \in 0..MaxVersion :
          /\ st[h] = "wait" /\ st' = [st EXCEPT ![h] = to]
          /\ ver' = [ver EXCEPT ![h] = v]
          /\ sem[n] < Limit /\ sem' = [sem EXCEPT ![n] = @ + 1]
          /\ UNCHANGED <<sidecarVars, nodeVars, at, hdr>>
  <2>1. CASE serving[n] = {} /\ st' = [st EXCEPT ![h] = "error"] /\ UNCHANGED ver
    <3>1. ver' = [ver EXCEPT ![h] = ver[h]] /\ ver[h] \in 0..MaxVersion
      BY <2>1 DEF TypeOK
    <3> QED
      BY <2>1, <3>1 DEF Acquire
  <2>2. CASE \E v \in serving[n] : /\ st' = [st EXCEPT ![h] = "run"]
                                   /\ ver' = [ver EXCEPT ![h] = v]
    <3>1. PICK v \in serving[n] : /\ st' = [st EXCEPT ![h] = "run"]
                                  /\ ver' = [ver EXCEPT ![h] = v]
      BY <2>2
    <3>2. v \in 0..MaxVersion
      <4>1. serving[n] \subseteq 1..MaxVersion
        BY DEF TypeOK
      <4> QED
        BY <4>1, RoutingConstants
    <3> QED
      BY <3>1, <3>2, Zenon DEF Acquire
  <2> QED
    BY <2>1, <2>2, Zenon DEF Acquire
<1>2. n \in Nodes
  BY DEF TypeOK
<1>3. TypeOK'
  <2>1. st' \in [Handlers -> Where] /\ ver' \in [Handlers -> 0..MaxVersion]
    BY <1>1 DEF TypeOK, Where
  <2>2. sem' \in [Nodes -> 0..Limit]
    <3>1. sem[n] + 1 \in 0..Limit
      <4>1. sem[n] \in 0..Limit
        BY <1>2 DEF TypeOK
      <4> QED
        BY <1>1, <4>1, RoutingConstants, SMTT(60)
    <3> QED
      BY <1>1, <3>1 DEF TypeOK
  <2> QED
    BY <1>1, <2>1, <2>2, HandlerTypes DEF TypeOK
<1>4. RoutedOnce'
  BY <1>1 DEF TypeOK, RoutedOnce
<1>5. ASSUME NEW m \in Nodes PROVE sem'[m] = Cardinality(InProxy(m)')
  <2>1. CASE m = n
    <3>1. InProxy(m)' = InProxy(m) \cup {h} /\ h \notin InProxy(m)
      BY <1>1, <2>1 DEF InProxy, TypeOK
    <3>2. Cardinality(InProxy(m)') = Cardinality(InProxy(m)) + 1
      BY <3>1, ProxyFinite, FS_AddElement
    <3> QED
      BY <1>1, <2>1, <3>2 DEF TypeOK, Accounted
  <2>2. CASE m # n
    <3>1. InProxy(m)' = InProxy(m) /\ sem'[m] = sem[m]
      BY <1>1, <2>2 DEF InProxy, TypeOK
    <3> QED
      BY <3>1, Zenon DEF Accounted
  <2> QED
    BY <2>1, <2>2
<1> QED
  BY <1>3, <1>4, <1>5, Zenon DEF Accounted

\* Leave takes it out and gives the slot back; it has one exactly when it was there.
LEMMA LeaveInv ==
    ASSUME IInv, NEW h \in Handlers, st[h] # "pick", Leave(h) PROVE IInv'
<1> USE DEF IInv, Leave, sidecarVars, nodeVars
<1> DEFINE n == at[h]
<1>1. n \in Nodes /\ 1 \in Nodes
  BY NNat DEF TypeOK
<1>2. RoutedOnce'
  BY DEF TypeOK, RoutedOnce
<1>3. ASSUME NEW m \in Nodes
      PROVE  sem'[m] = Cardinality(InProxy(m)') /\ sem'[m] \in 0..Limit
  <2>1. CASE m = n /\ st[h] \in {"run", "error"}
    <3>1. InProxy(m)' = InProxy(m) \ {h} /\ h \in InProxy(m)
      BY <2>1 DEF InProxy, TypeOK
    <3>2. Cardinality(InProxy(m)') = Cardinality(InProxy(m)) - 1
      BY <3>1, ProxyFinite, FS_RemoveElement
    <3>3. Cardinality(InProxy(m)') \in Nat
      <4>1. IsFiniteSet(InProxy(m)')
        BY <3>1, ProxyFinite, FS_Subset
      <4> QED
        BY <4>1, FS_CardinalityType
    <3>4. sem'[m] = sem[m] - 1 /\ sem[m] \in 0..Limit
      BY <2>1 DEF TypeOK
    <3>5. sem[m] = Cardinality(InProxy(m))
      BY Zenon DEF Accounted
    <3> QED
      BY <3>2, <3>3, <3>4, <3>5, RoutingConstants
  <2>2. CASE ~(m = n /\ st[h] \in {"run", "error"})
    <3>1. InProxy(m)' = InProxy(m) /\ sem'[m] = sem[m] /\ sem[m] \in 0..Limit
      BY <2>2 DEF InProxy, TypeOK
    <3> QED
      BY <3>1, Zenon DEF Accounted
  <2> QED
    BY <2>1, <2>2
<1>4. TypeOK'
  <2>1. sem' \in [Nodes -> 0..Limit]
    BY <1>3 DEF TypeOK
  <2>2. at' \in [Handlers -> Nodes] /\ st' \in [Handlers -> Where]
    BY OneNode DEF TypeOK, Where
  <2>3. ver' \in [Handlers -> 0..MaxVersion] /\ hdr' \subseteq Handlers
    BY OneNode DEF TypeOK
  <2> QED
    BY <2>1, <2>2, <2>3, HandlerTypes
<1> QED
  BY <1>2, <1>3, <1>4, Zenon DEF Accounted

\* A step of a sidecar breaks invocations, whose handlers keep their slots.
LEMMA SidecarInv ==
    ASSUME IInv, NEW n \in Nodes, SidecarStep(n) PROVE IInv'
<1> USE DEF IInv
<1>1. PICK v, u \in 0..MaxVersion, S \in SUBSET (1..MaxVersion) :
          /\ defs' = [defs EXCEPT ![n] = v]
          /\ starting' = [starting EXCEPT ![n] = u]
          /\ serving' = [serving EXCEPT ![n] = S]
  BY Zenon DEF SidecarStep
<1>2. PICK broken \in SUBSET {h \in Handlers : st[h] = "run"} :
          /\ st' = [h \in Handlers |-> IF h \in broken THEN "error" ELSE st[h]]
          /\ ver' = [h \in Handlers |-> IF h \in broken THEN 0 ELSE ver[h]]
          /\ UNCHANGED <<catalog, nodeVars, at, hdr, sem>>
  <2> DEFINE broken == {h \in Handlers : st[h] = "run" /\ at[h] = n /\ ver[h] \notin serving'[n]}
  <2>1. /\ st' = [h \in Handlers |-> IF h \in broken THEN "error" ELSE st[h]]
        /\ ver' = [h \in Handlers |-> IF h \in broken THEN 0 ELSE ver[h]]
        /\ UNCHANGED <<catalog, nodeVars, at, hdr, sem>>
    BY Zenon DEF SidecarStep
  <2>2. broken \in SUBSET {h \in Handlers : st[h] = "run"}
    OBVIOUS
  <2> QED
    BY <2>1, <2>2
<1>3. TypeOK'
  <2>1. /\ defs' \in [Nodes -> 0..MaxVersion] /\ starting' \in [Nodes -> 0..MaxVersion]
        /\ serving' \in [Nodes -> SUBSET (1..MaxVersion)]
    BY <1>1 DEF TypeOK
  <2>2. st' \in [Handlers -> Where]
    BY <1>2 DEF TypeOK, Where
  <2>3. ver' \in [Handlers -> 0..MaxVersion]
    BY <1>2, OneNode DEF TypeOK
  <2> QED
    BY <1>2, <2>1, <2>2, <2>3, Zenon DEF TypeOK, Where, nodeVars
<1>4. ASSUME NEW h \in Handlers
      PROVE  /\ st'[h] # st[h] => st[h] = "run" /\ st'[h] = "error"
             /\ at'[h] = at[h] /\ hdr' = hdr
  BY <1>2 DEF TypeOK
<1>5. RoutedOnce'
  <2> SUFFICES ASSUME NEW r \in Requests
               PROVE  /\ st'[<<r, 2>>] \notin {"pick", "forward"}
                      /\ st'[<<r, 1>>] \in {"check", "pick"} => st'[<<r, 2>>] = "idle"
                      /\ st'[<<r, 2>>] # "idle" => <<r, 2>> \in hdr'
    BY Zenon DEF RoutedOnce
  <2>1. <<r, 1>> \in Handlers /\ <<r, 2>> \in Handlers
    OBVIOUS
  <2> QED
    BY <1>4, <2>1 DEF RoutedOnce
<1>6. Proxies
  <2>1. \A m \in Nodes : InProxy(m)' = InProxy(m)
    BY <1>4 DEF InProxy
  <2> QED
    BY <1>2, <2>1 DEF Proxies
<1> QED
  BY <1>3, <1>5, <1>6, ProxiesAccounted

\* A crash empties the proxy of a node along with its semaphore.
LEMMA CrashInv ==
    ASSUME IInv, NEW n \in Nodes, Crash(n) PROVE IInv'
<1> USE DEF IInv, Crash
<1>1. TypeOK'
  <2>1. up' \subseteq Nodes /\ live' \in [Nodes -> SUBSET Nodes]
    BY DEF TypeOK
  <2>2. /\ defs' \in [Nodes -> 0..MaxVersion] /\ starting' \in [Nodes -> 0..MaxVersion]
        /\ serving' \in [Nodes -> SUBSET (1..MaxVersion)]
    BY OneNode DEF TypeOK
  <2>3. at' \in [Handlers -> Nodes] /\ st' \in [Handlers -> Where]
    BY OneNode DEF TypeOK, Where
  <2>4. ver' \in [Handlers -> 0..MaxVersion] /\ hdr' \subseteq Handlers
    BY OneNode DEF TypeOK
  <2>5. sem' \in [Nodes -> 0..Limit]
    BY RoutingConstants DEF TypeOK
  <2> QED
    BY <2>1, <2>2, <2>3, <2>4, <2>5, Zenon DEF TypeOK, Where
<1>2. ASSUME NEW h \in Handlers
      PROVE  IF at[h] = n THEN st'[h] = "idle"
             ELSE st'[h] = st[h] /\ at'[h] = at[h] /\ (h \in hdr => h \in hdr')
  BY DEF TypeOK
<1>3. RoutedOnce'
  BY <1>2 DEF RoutedOnce
<1>4. ASSUME NEW m \in Nodes PROVE sem'[m] = Cardinality(InProxy(m)')
  <2>1. CASE m = n
    <3>1. InProxy(m)' = {}
      BY <1>2, <2>1 DEF InProxy
    <3> QED
      BY <2>1, <3>1, FS_EmptySet DEF TypeOK
  <2>2. CASE m # n
    <3>1. InProxy(m)' = InProxy(m)
      BY <1>2, <2>2 DEF InProxy
    <3>2. sem'[m] = sem[m]
      BY <2>2 DEF TypeOK
    <3> QED
      BY <3>1, <3>2, Zenon DEF Accounted
  <2> QED
    BY <2>1, <2>2
<1> QED
  BY <1>1, <1>3, <1>4, Zenon DEF Accounted

\* The other steps do not touch the handlers.
LEMMA OtherInv ==
    ASSUME IInv,
           \/ Deploy
           \/ \E n \in Nodes : Restart(n)
           \/ \E n \in Nodes, V \in SUBSET Nodes : ViewChange(n, V)
           \/ UNCHANGED vars
    PROVE  IInv'
<1> USE DEF IInv, sidecarVars, nodeVars, handlerVars, vars
<1>1. UNCHANGED handlerVars
  BY Zenon DEF Deploy, Restart, ViewChange
<1>2. TypeOK'
  <2>1. CASE Deploy
    BY <2>1, RoutingConstants, SMTT(60) DEF Deploy, TypeOK
  <2>2. CASE \E n \in Nodes : Restart(n)
    BY <2>2, Zenon DEF Restart, TypeOK
  <2>3. CASE \E n \in Nodes, V \in SUBSET Nodes : ViewChange(n, V)
    BY <2>3 DEF ViewChange, TypeOK
  <2>4. CASE UNCHANGED vars
    BY <2>4, Zenon DEF TypeOK
  <2> QED
    BY <2>1, <2>2, <2>3, <2>4
<1>3. RoutedOnce'
  BY <1>1, Zenon DEF RoutedOnce
<1>4. Proxies
  BY <1>1, Zenon DEF Proxies, InProxy
<1> QED
  BY <1>2, <1>3, <1>4, ProxiesAccounted

\* The invariant is preserved.
LEMMA NextInv == IInv /\ [Next]_vars => IInv'
<1> SUFFICES ASSUME IInv, [Next]_vars PROVE IInv'
  OBVIOUS
<1>1. ASSUME NEW h \in Handlers, Acquire(h) \/ Finish(h) \/ Relay(h) \/ Timeout(h) PROVE IInv'
  BY <1>1, AcquireInv, LeaveInv DEF Finish, Relay, Timeout
<1> QED
  BY <1>1, ArriveInv, RouteInv, SidecarInv, CrashInv, OtherInv, Zenon DEF Next

\* So it always holds.
LEMMA Invariance == Spec => []IInv
  BY InitInv, NextInv, PTL DEF Spec

\* A slot is taken for exactly the handlers in the local proxy, and never more than
\* maxConcurrentWorkerRequests, whatever times out, breaks or crashes.
THEOREM SlotsAccountedHolds == Spec => []SlotsAccounted
<1>1. IInv => SlotsAccounted
  BY RoutingConstants DEF IInv, TypeOK, Accounted, InProxy, SlotsAccounted
<1> QED
  BY <1>1, Invariance, PTL

\* pickNode returns the live node with the highest hash, the first if several have it.
THEOREM PickIsHighestHolds == Spec => []PickIsHighest
<1>1. IInv => PickIsHighest
  <2> SUFFICES ASSUME IInv, NEW n \in Nodes, NEW w \in Workers, live[n] # {}
               PROVE  IsHighest(w, live[n], pickNode(w, live[n], n))
    BY Zenon DEF PickIsHighest, IsHighest
  <2>1. live[n] \in SUBSET Nodes
    BY DEF IInv, TypeOK
  <2> QED
    BY <2>1, PickNode
<1> QED
  BY <1>1, Invariance, PTL

\* If the highest nodes of two sets are in both sets, they are the same.
LEMMA HighestUnique ==
    ASSUME NEW w \in Workers, NEW A \in SUBSET Nodes, NEW B \in SUBSET Nodes,
           NEW a, NEW b, IsHighest(w, A, a), IsHighest(w, B, b), a \in B, b \in A
    PROVE  a = b
<1> SUFFICES ASSUME a # b PROVE FALSE
  OBVIOUS
<1>1. a \in Nodes /\ b \in Nodes
  BY DEF IsHighest
<1>2. Hash[w][a] \in Nat /\ Hash[w][b] \in Nat
  BY <1>1, HashNat
<1> QED
  BY <1>1, <1>2, NNat DEF IsHighest

\* The chosen node changes only when it leaves, or to a node that was not there.
THEOREM LeastDisruptionHolds == Spec => LeastDisruption
<1> DEFINE Step == \A n \in Nodes, w \in Workers :
        live[n] # {} /\ live'[n] # {} /\ Owner(n, w)' # Owner(n, w) =>
            Owner(n, w) \notin live'[n] \/ Owner(n, w)' \notin live[n]
<1>1. IInv /\ IInv' => Step
  <2> SUFFICES ASSUME IInv, IInv', NEW n \in Nodes, NEW w \in Workers,
                      live[n] # {}, live'[n] # {},
                      Owner(n, w) \in live'[n], Owner(n, w)' \in live[n]
               PROVE  Owner(n, w)' = Owner(n, w)
    BY Zenon
  <2>1. live[n] \in SUBSET Nodes /\ live'[n] \in SUBSET Nodes
    BY DEF IInv, TypeOK
  <2>2. IsHighest(w, live[n], Owner(n, w))
    BY <2>1, PickNode DEF Owner
  <2>3. IsHighest(w, live'[n], Owner(n, w)')
    BY <2>1, PickNode DEF Owner
  <2> QED
    BY <2>1, <2>2, <2>3, HighestUnique
<1>2. IInv /\ [Next]_vars => [Step]_vars
  BY <1>1, NextInv
<1> QED
  BY <1>2, Invariance, PTL DEF LeastDisruption, Spec

-----------------------------------------------------------------------------
(* A cluster at rest *)

\* The node that every view has for the owner of w.
CommonOwner(w) == pickNode(w, live[1], 1)

\* In a cluster at rest, an invocation uses the deployed definitions, and a
\* request of a worker with Durable Objects is only forwarded to, waits only on
\* and runs only on the common owner, unless its client pinned it.
Placed(h) ==
    /\ st[h] = "run" => ver[h] = catalog
    /\ /\ Worker(h) \in DOWorkers[catalog] /\ ~Pinned(h)
       /\ st[h] \in {"wait", "run", "error"} \/ (h[2] = 2 /\ st[h] = "check")
       => at[h] = CommonOwner(Worker(h))

\* The invariant of a cluster at rest.
SteadyInv == IInv /\ catalog # 0 /\ Informed /\ Agreed /\ \A h \in Handlers : Placed(h)

\* A step of a cluster at rest.
SteadyNext == Next /\ Resolved /\ Informed' /\ UNCHANGED live

\* Every node chooses the common owner.
LEMMA CommonOwnerIs ==
    ASSUME TypeOK, Agreed, NEW n \in Nodes, NEW w \in Workers
    PROVE  pickNode(w, live[n], n) = CommonOwner(w)
<1>1. live[n] = live[1] /\ live[1] # {} /\ live[1] \in SUBSET Nodes
  BY OneNode DEF TypeOK, Agreed
<1>2. IsHighest(w, live[1], pickNode(w, live[1], n)) /\ IsHighest(w, live[1], CommonOwner(w))
  BY <1>1, PickNode, Zenon DEF CommonOwner
<1>3. pickNode(w, live[1], n) \in live[1] /\ CommonOwner(w) \in live[1]
  BY <1>2, Zenon DEF IsHighest
<1>4. pickNode(w, live[1], n) = CommonOwner(w)
  BY <1>1, <1>2, <1>3, HighestUnique, Zenon
<1> QED
  BY <1>1, <1>4, Zenon

\* The invariant holds in a cluster that comes to rest without requests.
LEMMA InformedInv == InformedInit /\ Agreed => SteadyInv
<1> SUFFICES ASSUME InformedInit, Agreed PROVE SteadyInv
  OBVIOUS
<1>1. TypeOK
  <2>1. catalog \in 0..MaxVersion /\ catalog \in 1..MaxVersion /\ 0 \in 0..Limit
    BY RoutingConstants DEF InformedInit
  <2> QED
    BY <2>1, OneNode DEF InformedInit, TypeOK
<1>2. RoutedOnce
  BY DEF InformedInit, RoutedOnce
<1>3. ASSUME NEW n \in Nodes PROVE sem[n] = Cardinality(InProxy(n))
  <2>1. InProxy(n) = {}
    BY DEF InformedInit, InProxy
  <2> QED
    BY <2>1, FS_EmptySet DEF InformedInit
<1>4. catalog # 0 /\ Informed
  BY RoutingConstants DEF InformedInit, Informed
<1>5. ASSUME NEW h \in Handlers PROVE Placed(h)
  BY Zenon DEF InformedInit, Placed
<1> QED
  BY <1>1, <1>2, <1>3, <1>4, <1>5 DEF SteadyInv, IInv, Accounted

\* A handler that a step leaves alone stays where it may be.
LEMMA KeptPlaced ==
    ASSUME NEW h \in Handlers, Placed(h), UNCHANGED <<catalog, live>>,
           st'[h] = st[h], at'[h] = at[h], ver'[h] = ver[h], h \in hdr => h \in hdr'
    PROVE  Placed(h)'
  BY Zenon DEF Placed, Pinned, CommonOwner

\* So does one that is neither waiting nor in a proxy afterwards.
LEMMA FreePlaced ==
    ASSUME NEW h, st'[h] \notin {"wait", "run", "error"}, st'[h] = "check" => h[2] # 2
    PROVE  Placed(h)'
  BY DEF Placed

\* Routing leads a request of such a worker to the owner: a second handler is there
\* already, a first one stays only if it is the owner.
LEMMA SteadyRoute ==
    ASSUME SteadyInv, Resolved, UNCHANGED <<catalog, live>>, NEW h \in Handlers, Route(h)
    PROVE  \A k \in Handlers : Placed(k)'
<1> USE DEF SteadyInv, IInv
<1>1. PICK r \in Requests, i \in {1, 2} : h = <<r, i>>
  OBVIOUS
<1>2. /\ at[h] \in Nodes /\ Worker(h) \in Workers
      /\ Target(h) = CommonOwner(Worker(h)) /\ CommonOwner(Worker(h))' = CommonOwner(Worker(h))
  <2>1. at[h] \in Nodes /\ Worker(h) \in Workers
    BY RoutingConstants DEF TypeOK, Worker
  <2> QED
    BY <2>1, CommonOwnerIs, Zenon DEF Target, CommonOwner
<1>3. CASE CheckDOs(h)
  <2>1. ASSUME NEW k \in Handlers, k # h PROVE Placed(k)'
    BY <1>3, <2>1, KeptPlaced DEF CheckDOs, TypeOK
  <2>2. CASE st'[h] = "pick"
    BY <2>1, <2>2, FreePlaced
  <2>3. CASE st'[h] = "wait" /\ h[2] = 2
    <3>1. st[h] = "check" /\ at'[h] = at[h]
      BY <1>3 DEF CheckDOs
    <3>2. Placed(h)'
      BY <1>2, <2>3, <3>1 DEF Placed, Pinned
    <3> QED
      BY <2>1, <3>2
  <2>4. CASE st'[h] = "wait" /\ ~workerHasDOs(at[h], Worker(h))
    <3>1. defs[at[h]] = catalog
      BY <1>2 DEF Informed
    <3>2. Worker(h) \notin DOWorkers[catalog]
      BY <2>4, <3>1 DEF workerHasDOs
    <3>3. Placed(h)'
      BY <2>4, <3>2 DEF Placed
    <3> QED
      BY <2>1, <3>3
  <2>5. CASE st'[h] = "wait" /\ h[2] = 1 /\ h \in hdr
    <3>1. Placed(h)'
      BY <1>3, <2>5 DEF Placed, Pinned, CheckDOs
    <3> QED
      BY <2>1, <3>1
  <2> QED
    BY <1>1, <1>3, <2>2, <2>3, <2>4, <2>5 DEF CheckDOs, TypeOK
<1>4. CASE PickLocal(h) \/ PickUnresolved(h)
  <2>1. /\ st[h] = "pick" /\ st' = [st EXCEPT ![h] = "wait"]
        /\ at' = at /\ ver' = ver /\ hdr' = hdr
    BY <1>4 DEF PickLocal, PickUnresolved
  <2>2. Target(h) = at[h]
    BY <2>1 DEF Resolved, TypeOK
  <2>3. Placed(h)'
    BY <1>2, <2>1, <2>2 DEF Placed, TypeOK
  <2>4. ASSUME NEW k \in Handlers, k # h PROVE Placed(k)'
    BY <2>1, <2>4, KeptPlaced DEF TypeOK
  <2> QED
    BY <2>3, <2>4
<1>5. CASE Forward(h)
  <2>1. i = 1 /\ st[h] = "pick"
    BY <1>1, <1>5 DEF Forward, RoutedOnce
  <2>2. /\ st' = [st EXCEPT ![<<r, 1>>] = "forward", ![<<r, 2>>] = "check"]
        /\ at' = [at EXCEPT ![<<r, 2>>] = Target(h)]
        /\ ver' = ver /\ hdr' = hdr \cup {<<r, 2>>}
    BY <1>1, <1>5, <2>1 DEF Forward
  <2>3. Placed(<<r, 1>>)'
    <3>1. st'[<<r, 1>>] = "forward"
      BY <2>2 DEF TypeOK
    <3> QED
      BY <3>1, FreePlaced
  <2>4. Placed(<<r, 2>>)'
    <3>1. st'[<<r, 2>>] = "check" /\ at'[<<r, 2>>] = CommonOwner(Worker(h))
      BY <1>2, <2>2 DEF TypeOK
    <3>2. Worker(<<r, 2>>) = Worker(h)
      BY <1>1 DEF Worker
    <3> QED
      BY <1>2, <3>1, <3>2 DEF Placed
  <2>5. ASSUME NEW k \in Handlers, k # <<r, 1>>, k # <<r, 2>> PROVE Placed(k)'
    BY <2>2, <2>5, KeptPlaced DEF TypeOK
  <2> QED
    BY <2>3, <2>4, <2>5
<1>6. CASE ForwardFail(h)
  <2>1. Placed(h)'
    <3>1. st'[h] = "idle"
      BY <1>6 DEF ForwardFail, TypeOK
    <3> QED
      BY <3>1, FreePlaced
  <2>2. ASSUME NEW k \in Handlers, k # h PROVE Placed(k)'
    BY <1>6, <2>2, KeptPlaced DEF ForwardFail, TypeOK
  <2> QED
    BY <2>1, <2>2
<1> QED
  BY <1>3, <1>4, <1>5, <1>6 DEF Route

\* The invocation starts where the handler waited, in a process with the deployed
\* definitions.
LEMMA SteadyAcquire ==
    ASSUME SteadyInv, UNCHANGED <<catalog, live>>, NEW h \in Handlers, Acquire(h)
    PROVE  \A k \in Handlers : Placed(k)'
<1> USE DEF SteadyInv, IInv
<1>1. ASSUME NEW k \in Handlers, k # h PROVE Placed(k)'
  <2>1. st'[k] = st[k] /\ at'[k] = at[k] /\ ver'[k] = ver[k] /\ hdr' = hdr
    BY <1>1 DEF Acquire, TypeOK
  <2> QED
    BY <1>1, <2>1, KeptPlaced
<1>2. /\ st[h] = "wait" /\ st'[h] \in {"run", "error"} /\ at' = at /\ hdr' = hdr
      /\ st'[h] = "run" => ver'[h] \in serving[at[h]]
  BY DEF Acquire, TypeOK
<1>3. serving[at[h]] \subseteq {catalog}
  BY DEF TypeOK, Informed
<1>4. Placed(h)'
  <2>1. CommonOwner(Worker(h))' = CommonOwner(Worker(h))
    BY Zenon DEF CommonOwner
  <2> QED
    BY <1>2, <1>3, <2>1 DEF Placed, Pinned
<1> QED
  BY <1>1, <1>4

\* A handler that has left is nowhere.
LEMMA SteadyLeave ==
    ASSUME SteadyInv, UNCHANGED <<catalog, live>>, NEW h \in Handlers, Leave(h)
    PROVE  \A k \in Handlers : Placed(k)'
<1> USE DEF SteadyInv, IInv
<1>1. ASSUME NEW k \in Handlers, k # h PROVE Placed(k)'
  BY <1>1, KeptPlaced DEF Leave, TypeOK
<1>2. Placed(h)'
  <2>1. st'[h] = "idle"
    BY DEF Leave, TypeOK
  <2> QED
    BY <2>1, FreePlaced
<1> QED
  BY <1>1, <1>2

\* A process that ends moves no handler.
LEMMA SteadySidecar ==
    ASSUME SteadyInv, UNCHANGED <<catalog, live>>, NEW n \in Nodes, SidecarStep(n)
    PROVE  \A k \in Handlers : Placed(k)'
<1> USE DEF SteadyInv, IInv
<1> DEFINE broken == {h \in Handlers : st[h] = "run" /\ at[h] = n /\ ver[h] \notin serving'[n]}
<1>1. /\ st' = [h \in Handlers |-> IF h \in broken THEN "error" ELSE st[h]]
      /\ ver' = [h \in Handlers |-> IF h \in broken THEN 0 ELSE ver[h]]
      /\ at' = at /\ hdr' = hdr
  BY Zenon DEF SidecarStep
<1>2. ASSUME NEW k \in Handlers PROVE Placed(k)'
  <2>1. CASE k \notin broken
    <3>1. st'[k] = st[k] /\ at'[k] = at[k] /\ ver'[k] = ver[k]
      BY <1>1, <2>1, Zenon
    <3> QED
      BY <1>1, <3>1, KeptPlaced
  <2>2. CASE k \in broken
    <3>1. st[k] = "run" /\ st'[k] = "error" /\ at'[k] = at[k]
      BY <1>1, <2>2, Zenon
    <3>2. CommonOwner(Worker(k))' = CommonOwner(Worker(k))
      BY Zenon DEF CommonOwner
    <3> QED
      BY <1>1, <3>1, <3>2 DEF Placed, Pinned
  <2> QED
    BY <2>1, <2>2
<1> QED
  BY <1>2

\* The invariant is preserved; deploys, crashes and restarts are no steps of a
\* cluster at rest.
LEMMA SteadyNextInv == SteadyInv /\ [SteadyNext]_vars => SteadyInv'
<1> SUFFICES ASSUME SteadyInv, [SteadyNext]_vars PROVE SteadyInv'
  OBVIOUS
<1>1. CASE UNCHANGED vars
  <2>1. ASSUME NEW k \in Handlers PROVE Placed(k)'
    BY <1>1, KeptPlaced DEF SteadyInv, vars, sidecarVars, nodeVars, handlerVars
  <2> QED
    BY <1>1, <2>1, NextInv, Zenon
       DEF SteadyInv, Informed, Agreed, vars, sidecarVars, nodeVars, handlerVars
<1>2. CASE SteadyNext
  <2> USE <1>2 DEF SteadyNext
  <2>1. IInv'
    BY NextInv DEF SteadyInv
  <2>2. Agreed'
    BY DEF SteadyInv, Agreed
  <2>3. catalog' = catalog
    <3>1. defs[1] = catalog /\ defs'[1] = catalog'
      BY OneNode DEF SteadyInv, Informed
    <3>2. CASE Deploy
      BY <3>1, <3>2 DEF Deploy
    <3>3. CASE ~Deploy
      BY <3>3, Zenon DEF Next, Arrive, Route, CheckDOs, PickLocal, PickUnresolved, Forward,
         ForwardFail, Acquire, Finish, Relay, Timeout, Leave, SidecarStep, Crash, Restart,
         ViewChange, sidecarVars
    <3> QED
      BY <3>2, <3>3
  <2>4. up = Nodes /\ up' = Nodes
    BY DEF SteadyInv, Informed
  <2>5. \A k \in Handlers : Placed(k)'
    <3>1. ASSUME NEW r \in Requests, NEW n \in Nodes, Arrive(r, n),
                 NEW k \in Handlers
          PROVE  Placed(k)'
      <4>1. CASE k = <<r, 1>>
        <5>1. st'[k] = "check" /\ k[2] = 1
          BY <3>1, <4>1 DEF Arrive, SteadyInv, IInv, TypeOK
        <5> QED
          BY <5>1, FreePlaced
      <4>2. CASE k # <<r, 1>>
        BY <2>3, <3>1, <4>2, KeptPlaced DEF Arrive, SteadyInv, IInv, TypeOK
      <4> QED
        BY <4>1, <4>2
    <3>2. ASSUME NEW h \in Handlers,
                 Route(h) \/ Acquire(h) \/ Finish(h) \/ Relay(h) \/ Timeout(h)
          PROVE  \A k \in Handlers : Placed(k)'
      BY <2>3, <3>2, SteadyRoute, SteadyAcquire, SteadyLeave, Zenon
         DEF Finish, Relay, Timeout
    <3>3. ASSUME UNCHANGED handlerVars, NEW k \in Handlers PROVE Placed(k)'
      BY <2>3, <3>3, KeptPlaced DEF handlerVars, SteadyInv
    <3>4. ASSUME NEW n \in Nodes, SidecarStep(n) PROVE \A k \in Handlers : Placed(k)'
      BY <2>3, <3>4, SteadySidecar
    <3>5. ASSUME NEW n \in Nodes PROVE ~Crash(n)
      BY <2>4, <3>5 DEF Crash
    <3>6. Deploy \/ (\E n \in Nodes : Restart(n))
            \/ (\E n \in Nodes, V \in SUBSET Nodes : ViewChange(n, V))
          => UNCHANGED handlerVars
      BY Zenon DEF Deploy, Restart, ViewChange
    <3> QED
      BY <3>1, <3>2, <3>3, <3>4, <3>5, <3>6, Zenon DEF Next
  <2> QED
    BY <2>1, <2>2, <2>3, <2>5, Zenon DEF SteadyInv
<1> QED
  BY <1>1, <1>2

\* So it always holds.
LEMMA SteadyInvariance == SteadySpec => []SteadyInv
  BY InformedInv, SteadyNextInv, PTL DEF SteadySpec, SteadyNext

\* While views agree, addresses are known and sidecars have the deployed definitions,
\* the requests of a worker with Durable Objects that came without the header
\* X-Ratel-Forwarded run only on the node that every node chooses, and so never on
\* two nodes at a time (handleWorkers, routeRequest).
THEOREM SteadyOwner == SteadySpec => [](ConsistentOwner /\ SingleWriter)
<1>1. SteadyInv => ConsistentOwner /\ SingleWriter
  <2> SUFFICES ASSUME SteadyInv PROVE ConsistentOwner /\ SingleWriter
    OBVIOUS
  <2>1. ASSUME NEW h \in Handlers, Writer(h) PROVE at[h] = CommonOwner(Worker(h))
    BY <2>1 DEF SteadyInv, Placed, Writer
  <2>2. ASSUME NEW h \in Handlers, NEW n \in up PROVE Owner(n, Worker(h)) = CommonOwner(Worker(h))
    <3>1. n \in Nodes /\ Worker(h) \in Workers
      BY RoutingConstants DEF SteadyInv, IInv, TypeOK, Worker
    <3> QED
      BY <3>1, CommonOwnerIs DEF Owner, SteadyInv, IInv
  <2> QED
    BY <2>1, <2>2, ZenonT(60) DEF ConsistentOwner, SingleWriter
<1> QED
  BY <1>1, SteadyInvariance, PTL
=============================================================================
