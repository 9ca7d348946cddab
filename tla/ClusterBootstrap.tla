-------------------------- MODULE ClusterBootstrap --------------------------
(***************************************************************************)
(* How a cluster comes to exist at a storage URL and how nodes enter it:   *)
(* the commands "ratel init" and "ratel join" (pkg/cli/ratel.go) over the  *)
(* cluster id, the certificates and the node registrations they keep in    *)
(* the object store (pkg/storage/cluster_id.go, cluster_certs.go,          *)
(* node_registry.go). Invocations run on different hosts, interleave at    *)
(* every call to the store, and may fail or be killed between any two.     *)
(*                                                                         *)
(* Abstractions:                                                           *)
(*  - an object is replaced or read in one step, as S3 does; a call that   *)
(*    fails ends the invocation, which Exit covers. ListNodes is one step: *)
(*    registrations are only added or overwritten, never removed           *)
(*    (RemoveNode has no caller);                                          *)
(*  - a cluster UUID, a CA and a CockroachDB cluster are each named by the *)
(*    invocation that created them. ratelTLS and the passphrase are those  *)
(*    of the cluster; every host uses the default ports, so it runs one    *)
(*    server at a time;                                                    *)
(*  - a heartbeat is nil, fresh (less than 60 s old) or stale.             *)
(***************************************************************************)
EXTENDS Naturals, FiniteSets

CONSTANTS
    Runs,       \* invocations of ratel init or ratel join
    NodeIds,    \* values of --node-id
    Hosts,      \* machines, which are also the addresses registered
    None,       \* absent object, file or value
    TLS         \* ratelTLS

Args == [kind : {"init", "join"}, node : NodeIds, host : Hosts]
Registration == [addr : Hosts, cluster : Runs, hb : {"nil", "fresh", "stale"}]

ASSUME NoneAssumption == None \notin Runs \cup Registration
ASSUME TLSAssumption == TLS \in BOOLEAN

VARIABLES
    clusterId,  \* metadata/cluster-id
    reg,        \* discovery/node-<id>.json
    certs,      \* certs/<file>: the CA each object belongs to
    disk,       \* ratelLocalDir(uuid)/store of each host: the cluster it holds
    arg,        \* command line of each invocation
    pc,         \* where each invocation is
    uuid,       \* clusterUUID
    peers,      \* joinList
    idx,        \* next certificate to upload or download
    loc,        \* the files in certsDir
    rec,        \* cluster of the store recoveryStoreID names
    member      \* cluster the server of the invocation is a node of

store == <<clusterId, reg, certs>>
local == <<uuid, peers, idx, loc, rec, member>>
vars == <<clusterId, reg, certs, disk, arg, pc, uuid, peers, idx, loc, rec, member>>

File == <<"ca.crt", "ca.key", "client.root.crt", "client.root.key">>
Files == {File[i] : i \in 1..4}

Before == {"list", "write", "read", "exist", "upload", "download", "prev", "start"}
Live == {"register", "up", "beat"}
Registered == {"up", "beat"}
InFlight == {"check"} \cup Before \cup {"register"}

RunOrNone == Runs \cup {None}

\* The states of the store and of the invocations, by their types.
TypeOK ==
    /\ clusterId \in RunOrNone
    /\ reg \in [NodeIds -> Registration \cup {None}]
    /\ certs \in [Files -> RunOrNone]
    /\ disk \in [Hosts -> [Runs -> RunOrNone]]
    /\ arg \in [Runs -> Args]
    /\ pc \in [Runs -> {"none", "done"} \cup InFlight \cup Registered]
    /\ uuid \in [Runs -> RunOrNone]
    /\ peers \in [Runs -> SUBSET Hosts]
    /\ idx \in [Runs -> 1..4]
    /\ loc \in [Runs -> [Files -> RunOrNone]]
    /\ rec \in [Runs -> RunOrNone]
    /\ member \in [Runs -> RunOrNone]
    /\ \A r \in Runs :
        /\ pc[r] \in {"exist", "upload", "download", "prev", "start"} \cup Live
              => uuid[r] \in Runs
        /\ pc[r] = "list" /\ arg[r].kind = "join" => uuid[r] \in Runs
        /\ pc[r] \in Live => member[r] \in Runs

\* A fresh storage URL. Which commands will be given is decided up front.
Init ==
    /\ clusterId = None
    /\ reg = [n \in NodeIds |-> None]
    /\ certs = [f \in Files |-> None]
    /\ disk = [h \in Hosts |-> [r \in Runs |-> None]]
    /\ arg \in [Runs -> Args]
    /\ pc = [r \in Runs |-> "none"]
    /\ uuid = [r \in Runs |-> None]
    /\ peers = [r \in Runs |-> {}]
    /\ idx = [r \in Runs |-> 1]
    /\ loc = [r \in Runs |-> [f \in Files |-> None]]
    /\ rec = [r \in Runs |-> None]
    /\ member = [r \in Runs |-> None]

Goto(r, l) == pc' = [pc EXCEPT ![r] = l]
Known == {n \in NodeIds : reg[n] # None}

\* The operator runs the command: the storage URL is probed and opened.
Launch(r) ==
    /\ pc[r] = "none"
    /\ Goto(r, "check")
    /\ UNCHANGED <<store, disk, arg, local>>

\* Mutants of the actions below, each a slip the code could contain.
InitListNodesBroken(r) ==  \* nodes whose heartbeat is old are not counted
    /\ pc[r] = "list" /\ arg[r].kind = "init"
    /\ Goto(r, IF \A n \in Known : reg[n].hb # "fresh" THEN "write" ELSE "done")
    /\ UNCHANGED <<store, disk, arg, local>>

WriteClusterIDBroken(r) ==  \* the id written is not the one returned
    /\ pc[r] = "write"
    /\ clusterId' = r
    /\ Goto(r, IF TLS THEN "exist" ELSE "prev")
    /\ UNCHANGED <<reg, certs, disk, arg, local>>

DownloadCertBroken(r) ==  \* a missing file ends the download without error
    /\ pc[r] = "download"
    /\ LET f == File[idx[r]]
           got == [loc[r] EXCEPT ![f] = certs[f]]
       IN  /\ loc' = [loc EXCEPT ![r] = got]
           /\ IF idx[r] < 4 /\ certs[f] # None
              THEN idx' = [idx EXCEPT ![r] = @ + 1] /\ UNCHANGED pc
              ELSE Goto(r, "prev") /\ UNCHANGED idx
    /\ UNCHANGED <<store, disk, arg, uuid, peers, rec, member>>

HeartbeatBroken(r) ==  \* the timestamp is not set
    /\ pc[r] \in Registered
    /\ reg' = [reg EXCEPT ![arg[r].node] =
                  [addr |-> arg[r].host, cluster |-> member[r], hb |-> "nil"]]
    /\ Goto(r, "beat")
    /\ UNCHANGED <<clusterId, certs, disk, arg, local>>

\* checkNodeLiveness: a heartbeat less than 60 s old refuses the command; a
\* registration that has no heartbeat does not.
CheckNodeLiveness(r) ==
    /\ pc[r] = "check"
    /\ LET old == reg[arg[r].node]
       IN  IF old # None /\ old.hb = "fresh" THEN Goto(r, "done")
           ELSE Goto(r, IF arg[r].kind = "init" THEN "list" ELSE "read")
    /\ UNCHANGED <<store, disk, arg, local>>

\* init goes on only when no node is registered.
InitListNodes(r) ==
    /\ pc[r] = "list" /\ arg[r].kind = "init"
    /\ Goto(r, IF Known = {} THEN "write" ELSE "done")
    /\ UNCHANGED <<store, disk, arg, local>>

WriteClusterID(r) ==
    /\ pc[r] = "write"
    /\ clusterId' = r
    /\ uuid' = [uuid EXCEPT ![r] = r]
    /\ Goto(r, IF TLS THEN "exist" ELSE "prev")
    /\ UNCHANGED <<reg, certs, disk, arg, peers, idx, loc, rec, member>>

ReadClusterID(r) ==
    /\ pc[r] = "read"
    /\ IF clusterId = None
       THEN Goto(r, "done") /\ UNCHANGED uuid
       ELSE Goto(r, "list") /\ uuid' = [uuid EXCEPT ![r] = clusterId]
    /\ UNCHANGED <<store, disk, arg, peers, idx, loc, rec, member>>

\* join goes on only when a node is registered, and will dial all of them.
JoinListNodes(r) ==
    /\ pc[r] = "list" /\ arg[r].kind = "join"
    /\ Goto(r, IF Known = {} THEN "done" ELSE IF TLS THEN "download" ELSE "prev")
    /\ peers' = [peers EXCEPT ![r] = {reg[n].addr : n \in Known}]
    /\ UNCHANGED <<store, disk, arg, uuid, idx, loc, rec, member>>

\* CertsExist looks at ca.crt alone.
CertsExist(r) ==
    /\ pc[r] = "exist"
    /\ Goto(r, IF certs["ca.crt"] = None THEN "upload" ELSE "download")
    /\ UNCHANGED <<store, disk, arg, local>>

\* GenerateAndUploadCACerts creates a CA and writes its files one by one.
UploadCert(r) ==
    /\ pc[r] = "upload"
    /\ certs' = [certs EXCEPT ![File[idx[r]]] = r]
    /\ IF idx[r] < 4
       THEN idx' = [idx EXCEPT ![r] = @ + 1] /\ UNCHANGED pc
       ELSE idx' = [idx EXCEPT ![r] = 1] /\ Goto(r, "download")
    /\ UNCHANGED <<clusterId, reg, disk, arg, uuid, peers, loc, rec, member>>

\* DownloadCACerts reads the files one by one and fails on a missing one;
\* after the last, GenerateNodeCert refuses a key that is not the CA's.
DownloadCert(r) ==
    /\ pc[r] = "download"
    /\ LET f == File[idx[r]]
           got == [loc[r] EXCEPT ![f] = certs[f]]
       IN  /\ loc' = [loc EXCEPT ![r] = got]
           /\ IF idx[r] < 4 /\ certs[f] # None
              THEN idx' = [idx EXCEPT ![r] = @ + 1] /\ UNCHANGED pc
              ELSE /\ Goto(r, IF certs[f] # None /\ got["ca.crt"] = got["ca.key"]
                              THEN "prev" ELSE "done")
                   /\ UNCHANGED idx
    /\ UNCHANGED <<store, disk, arg, uuid, peers, rec, member>>

\* ratelStartServer reads the node's previous registration for its store id.
PreviousRegistration(r) ==
    /\ pc[r] = "prev"
    /\ LET old == reg[arg[r].node]
       IN  rec' = [rec EXCEPT ![r] = IF old = None THEN None ELSE old.cluster]
    /\ Goto(r, "start")
    /\ UNCHANGED <<store, disk, arg, uuid, peers, idx, loc, member>>

\* External: the cluster a CockroachDB server ends up in. A store that holds
\* a cluster, on disk or restored from the bundle of the recovered store id,
\* decides it; otherwise AutoInitializeCluster creates one, and a joining
\* server takes that of a peer that answers and has the same CA.
Reachable(r) ==
    LET d == disk[arg[r].host][uuid[r]]
    IN  IF d # None THEN {d}
        ELSE ({rec[r]} \ {None})
             \cup (IF arg[r].kind = "init" THEN {r}
                   ELSE {member[s] : s \in {s \in Runs : /\ pc[s] \in Live
                                                         /\ arg[s].host \in peers[r]
                                                         /\ loc[s]["ca.crt"] = loc[r]["ca.crt"]}})

\* NewServer, PreStart and AcceptClients, on a host that runs no server.
StartServer(r) ==
    /\ pc[r] = "start"
    /\ \A s \in Runs : pc[s] \in Live => arg[s].host # arg[r].host
    /\ \E c \in Reachable(r) :
        /\ member' = [member EXCEPT ![r] = c]
        /\ disk' = [disk EXCEPT ![arg[r].host][uuid[r]] = c]
    /\ Goto(r, "register")
    /\ UNCHANGED <<store, arg, uuid, peers, idx, loc, rec>>

\* RegisterNode overwrites whatever is registered under the node id.
Write(r, hb) ==
    reg' = [reg EXCEPT ![arg[r].node] =
                [addr |-> arg[r].host, cluster |-> member[r], hb |-> hb]]

RegisterNode(r) ==
    /\ pc[r] = "register"
    /\ Write(r, "nil")
    /\ Goto(r, "up")
    /\ UNCHANGED <<clusterId, certs, disk, arg, local>>

\* runHeartbeat: the first one comes 30 s after the registration.
Heartbeat(r) ==
    /\ pc[r] \in Registered
    /\ Write(r, "fresh")
    /\ Goto(r, "beat")
    /\ UNCHANGED <<clusterId, certs, disk, arg, local>>

\* 60 s have passed since the heartbeat was written.
Expire(n) ==
    /\ reg[n] # None /\ reg[n].hb = "fresh"
    /\ reg' = [reg EXCEPT ![n].hb = "stale"]
    /\ UNCHANGED <<clusterId, certs, disk, arg, pc, local>>

\* A failed call, a signal or a crash ends the invocation and its server.
Exit(r) ==
    /\ pc[r] \in InFlight \cup Registered
    /\ Goto(r, "done")
    /\ UNCHANGED <<store, disk, arg, local>>

Step(r) ==
    \/ CheckNodeLiveness(r) \/ InitListNodes(r) \/ WriteClusterID(r)
    \/ ReadClusterID(r) \/ JoinListNodes(r)
    \/ CertsExist(r) \/ UploadCert(r) \/ DownloadCert(r)
    \/ PreviousRegistration(r) \/ StartServer(r) \/ RegisterNode(r)
    \/ Heartbeat(r) \/ Exit(r)

Next == (\E r \in Runs : Launch(r) \/ Step(r)) \/ (\E n \in NodeIds : Expire(n))

Spec == Init /\ [][Next]_vars

(***************************************************************************)
(* Two ways of using the commands that keep them from racing. InitAlone:   *)
(* nothing else is being started while an init is. Patient: a command is   *)
(* given only once every running server has written a heartbeat, and       *)
(* heartbeats keep reaching the store.                                     *)
(***************************************************************************)
Alone(r) ==
    \A s \in Runs : pc[s] \in InFlight => "init" \notin {arg[r].kind, arg[s].kind}

InitAloneNext ==
    \/ \E r \in Runs : (Alone(r) /\ Launch(r)) \/ Step(r)
    \/ \E n \in NodeIds : Expire(n)

InitAloneSpec == Init /\ [][InitAloneNext]_vars

Settled == \A s \in Runs : pc[s] \in {"none", "beat", "done"}
Silent(n) == \A s \in Runs : pc[s] = "beat" => arg[s].node # n

PatientNext ==
    \/ \E r \in Runs : (Settled /\ Launch(r)) \/ Step(r)
    \/ \E n \in NodeIds : Silent(n) /\ Expire(n)

PatientSpec == Init /\ [][PatientNext]_vars

-----------------------------------------------------------------------------
\* runRatelInit checks "that cluster is not already initialized", so a URL
\* names one cluster: every registration and every registered server belongs
\* to the cluster whose id is stored. Needs InitAlone.
OneCluster ==
    /\ \A n \in Known : reg[n].cluster = clusterId
    /\ \A r \in Runs : pc[r] \in Registered => member[r] = clusterId

\* Once a node is registered the stored cluster id never changes again,
\* whatever is started, fails or crashes. Needs InitAlone.
IdentityIsStable == [][Known # {} => clusterId' = clusterId]_vars

\* Servers trust each other: all that run have a node certificate from one
\* CA, also when an earlier init died half-way through the upload. Needs
\* InitAlone.
OneCA ==
    \A r, s \in {r \in Runs : pc[r] \in Live} :
        /\ loc[r]["ca.crt"] = loc[s]["ca.crt"]
        /\ loc[r]["ca.key"] = loc[s]["ca.crt"]

\* checkNodeLiveness is there to "check for duplicate running node with same
\* --node-id": no two servers run under one node id. Holds for Patient use.
NoDuplicateNode ==
    \A r, s \in Runs : r # s /\ {pc[r], pc[s]} \subseteq Live
                          => arg[r].node # arg[s].node

\* "Generate and upload CA + client certs if not already present": when no
\* upload is going on, the certs are all there, from one CA, or all missing.
CertsWhole ==
    (\A r \in Runs : pc[r] # "upload")
        => \E c \in RunOrNone : \A f \in Files : certs[f] = c
=============================================================================
