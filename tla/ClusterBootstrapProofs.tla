----------------------- MODULE ClusterBootstrapProofs -----------------------
(***************************************************************************)
(* Proofs about ClusterBootstrap, for any number of invocations, node ids  *)
(* and hosts, with and without TLS.                                        *)
(***************************************************************************)
EXTENDS ClusterBootstrap, TLAPS

-----------------------------------------------------------------------------
\* The index of the next certificate stays within the four files.
LEMMA NextFile == \A i \in 1..4 : i < 4 => i + 1 \in 1..4
OBVIOUS

\* ca.crt is the first of the files.
LEMMA FirstFile ==
    File[1] = "ca.crt" /\ \A i \in 1..4 : File[i] \in Files /\ (i > 1 => File[i] # "ca.crt")
<1>1. \A i \in 1..4 : i = 1 \/ i = 2 \/ i = 3 \/ i = 4
  OBVIOUS
<1>2. QED
  BY <1>1 DEF File, Files

\* A registration is not the absence of one.
LEMMA NotNone == \A x \in Registration : x # None
BY NoneAssumption, SMTT(120)

\* The types of the state are preserved by every step of an invocation.
LEMMA TypeStep == TypeOK /\ [Next]_vars => TypeOK'
<1> SUFFICES ASSUME TypeOK, [Next]_vars
             PROVE  TypeOK'
  OBVIOUS
<1> USE NoneAssumption DEF TypeOK, RunOrNone, InFlight, Before, Registered, Live
<1>1. ASSUME NEW r \in Runs, Launch(r)
      PROVE  TypeOK'
  BY <1>1 DEF Launch, Goto, store, local
<1>2. ASSUME NEW r \in Runs, CheckNodeLiveness(r)
      PROVE  TypeOK'
  <2>1. PICK l \in {"done", "list", "read"} : Goto(r, l)
    BY <1>2 DEF CheckNodeLiveness
  <2>2. QED
    BY <1>2, <2>1 DEF CheckNodeLiveness, Goto, store, local
<1>3. ASSUME NEW r \in Runs, InitListNodes(r)
      PROVE  TypeOK'
  BY <1>3 DEF InitListNodes, Goto, store, local
<1>4. ASSUME NEW r \in Runs, WriteClusterID(r)
      PROVE  TypeOK'
  BY <1>4 DEF WriteClusterID, Goto, store, local
<1>5. ASSUME NEW r \in Runs, ReadClusterID(r)
      PROVE  TypeOK'
  <2>1. CASE clusterId = None
    BY <1>5, <2>1, SMTT(120) DEF ReadClusterID, Goto, store, local
  <2>2. CASE clusterId # None
    <3>1. /\ Goto(r, "list")
          /\ uuid' = [uuid EXCEPT ![r] = clusterId]
          /\ clusterId \in Runs
      BY <1>5, <2>2 DEF ReadClusterID
    <3>2. /\ uuid' \in [Runs -> RunOrNone]
          /\ \A s \in Runs : uuid[s] \in Runs => uuid'[s] \in Runs
          /\ uuid'[r] \in Runs
      BY <3>1
    <3>3. QED
      BY <1>5, <3>1, <3>2 DEF ReadClusterID, Goto, store, local
  <2>3. QED
    BY <2>1, <2>2
<1>6. ASSUME NEW r \in Runs, JoinListNodes(r)
      PROVE  TypeOK'
  <2>1. PICK l \in {"done", "download", "prev"} : Goto(r, l)
    BY <1>6 DEF JoinListNodes
  <2>2. uuid[r] \in Runs \/ l = "done"
    BY <1>6, <2>1 DEF JoinListNodes, Goto
  <2>3. {reg[n].addr : n \in Known} \in SUBSET Hosts
    BY DEF Known, Registration
  <2>4. QED
    BY <1>6, <2>1, <2>2, <2>3 DEF JoinListNodes, Goto, store, local
<1>7. ASSUME NEW r \in Runs, CertsExist(r)
      PROVE  TypeOK'
  BY <1>7 DEF CertsExist, Goto, store, local
<1>8. ASSUME NEW r \in Runs, UploadCert(r)
      PROVE  TypeOK'
  <2>1. certs' \in [Files -> RunOrNone]
    BY <1>8, Zenon DEF UploadCert
  <2>2. idx' \in [Runs -> 1..4]
    <3>1. CASE idx[r] < 4
      <4>1. idx[r] + 1 \in 1..4
        BY <3>1, NextFile, Zenon
      <4>2. QED
        BY <1>8, <3>1, <4>1 DEF UploadCert
    <3>2. CASE ~(idx[r] < 4)
      BY <1>8, <3>2, SMTT(120) DEF UploadCert
    <3>3. QED
      BY <3>1, <3>2
  <2>3. uuid[r] \in Runs /\ pc[r] = "upload"
    BY <1>8 DEF UploadCert
  <2>4. PICK l \in {"upload", "download"} : pc' = [pc EXCEPT ![r] = l]
    BY <1>8, <2>3 DEF UploadCert, Goto
  <2>5. QED
    BY <1>8, <2>1, <2>2, <2>3, <2>4 DEF UploadCert
<1>9. ASSUME NEW r \in Runs, DownloadCert(r)
      PROVE  TypeOK'
  <2>1. loc' \in [Runs -> [Files -> RunOrNone]]
    <3>1. certs[File[idx[r]]] \in RunOrNone
      BY DEF File, Files
    <3>2. [loc[r] EXCEPT ![File[idx[r]]] = certs[File[idx[r]]]] \in [Files -> RunOrNone]
      BY <3>1, Zenon
    <3>3. QED
      BY <1>9, <3>2 DEF DownloadCert
  <2>2. CASE idx[r] < 4 /\ certs[File[idx[r]]] # None
    <3>1. idx[r] + 1 \in 1..4
      BY <2>2, NextFile, Zenon
    <3>2. idx' = [idx EXCEPT ![r] = idx[r] + 1] /\ pc' = pc
      BY <1>9, <2>2 DEF DownloadCert
    <3>3. idx' \in [Runs -> 1..4]
      BY <3>1, <3>2
    <3>4. UNCHANGED <<store, disk, arg, uuid, peers, rec, member>>
      BY <1>9 DEF DownloadCert
    <3>5. QED
      BY <2>1, <3>2, <3>3, <3>4 DEF store
  <2>3. CASE ~(idx[r] < 4 /\ certs[File[idx[r]]] # None)
    <3>1. PICK l \in {"done", "prev"} : Goto(r, l)
      BY <1>9, <2>3 DEF DownloadCert
    <3>2. QED
      BY <1>9, <2>1, <2>3, <3>1 DEF DownloadCert, Goto, store, local
  <2>4. QED
    BY <2>2, <2>3
<1>10. ASSUME NEW r \in Runs, PreviousRegistration(r)
      PROVE  TypeOK'
  BY <1>10 DEF PreviousRegistration, Goto, store, local, Args, Registration
<1>11. ASSUME NEW r \in Runs, StartServer(r)
      PROVE  TypeOK'
  BY <1>11 DEF StartServer, Goto, store, local, Reachable, Args, Registration
<1>12. ASSUME NEW r \in Runs, RegisterNode(r)
      PROVE  TypeOK'
  BY <1>12 DEF RegisterNode, Goto, store, local, Write, Args, Registration
<1>13. ASSUME NEW r \in Runs, Heartbeat(r)
      PROVE  TypeOK'
  BY <1>13 DEF Heartbeat, Goto, store, local, Write, Args, Registration
<1>14. ASSUME NEW r \in Runs, Exit(r)
      PROVE  TypeOK'
  BY <1>14 DEF Exit, Goto, store, local
<1>15. ASSUME NEW n \in NodeIds, Expire(n)
       PROVE  TypeOK'
  <2>1. [reg[n] EXCEPT !.hb = "stale"] \in Registration
    <3>1. reg[n] \in Registration
      BY <1>15 DEF Expire
    <3>2. QED
      BY <3>1, Zenon DEF Registration
  <2>2. reg' \in [NodeIds -> Registration \cup {None}]
    BY <1>15, <2>1 DEF Expire
  <2>3. UNCHANGED <<clusterId, certs, disk, arg, pc, uuid, peers, idx, loc, rec, member>>
    BY <1>15 DEF Expire, local
  <2>4. QED
    BY <2>2, <2>3
<1>16. CASE UNCHANGED vars
  BY <1>16 DEF vars
<1>17. QED
  BY <1>1, <1>2, <1>3, <1>4, <1>5, <1>6, <1>7, <1>8, <1>9, <1>10, <1>11, <1>12, <1>13,
     <1>14, <1>15, <1>16, Zenon DEF Next, Step

\* A fresh storage URL is well typed.
LEMMA TypeInit == Init => TypeOK
<1> SUFFICES ASSUME Init
             PROVE  TypeOK
  OBVIOUS
<1>1. \A r \in Runs : pc[r] = "none"
  BY DEF Init
<1>2. QED
  BY <1>1 DEF Init, TypeOK, RunOrNone, Live, Registered

\* However the commands are given, the store and the invocations keep their
\* types; in particular a server that runs is a member of some cluster.
THEOREM TypeCorrect == Spec => []TypeOK
BY TypeInit, TypeStep, PTL DEF Spec

-----------------------------------------------------------------------------
(* While an init is being started it is alone, and from its look at the    *)
(* registrations until it writes its own there are none, hence no server:  *)
(* what it writes (the cluster id, the certificates) nobody else has read. *)

KindInv ==
    \A r \in Runs :
        /\ pc[r] = "read" => arg[r].kind = "join"
        /\ pc[r] \in {"write", "exist", "upload"} => arg[r].kind = "init"

AloneInv ==
    \A r, s \in Runs :
        r # s /\ pc[r] \in InFlight /\ pc[s] \in InFlight => arg[r].kind = "join"

FirstInv ==
    \A r \in Runs :
        arg[r].kind = "init" /\ pc[r] \in InFlight \ {"check", "list"} => Known = {}

UuidInv ==
    \A r \in Runs :
        /\ arg[r].kind = "init" /\ pc[r] \in InFlight \ {"check", "list", "write"}
              => uuid[r] = r /\ clusterId = r
        /\ arg[r].kind = "join" /\ pc[r] \in InFlight \ {"check", "read"}
              => uuid[r] = clusterId

RecInv == \A r \in Runs : pc[r] \in {"start"} => rec[r] \in {None, clusterId}

DiskInv == \A h \in Hosts, u \in Runs : disk[h][u] \in {None, u}

MemberInv ==
    /\ \A r \in Runs : pc[r] \in Live => member[r] = clusterId
    /\ \A r \in Runs : pc[r] \in Registered => reg[arg[r].node] # None
    /\ \A n \in Known : reg[n].cluster = clusterId

AloneIInv ==
    KindInv /\ AloneInv /\ FirstInv /\ UuidInv /\ RecInv /\ DiskInv /\ MemberInv

\* The CA: what a server has downloaded is what is stored.
PlainInv ==
    ~TLS => /\ certs["ca.crt"] = None
            /\ \A r \in Runs : /\ pc[r] \notin {"exist", "upload", "download"}
                               /\ loc[r]["ca.crt"] = None
                               /\ loc[r]["ca.key"] = None

IdxInv ==
    \A r \in Runs :
        /\ pc[r] \in {"none", "check", "list", "write", "read", "exist"} => idx[r] = 1
        /\ pc[r] = "download" /\ idx[r] > 1 => loc[r]["ca.crt"] = certs["ca.crt"]

CAInv ==
    \A r \in Runs :
        pc[r] \in {"prev", "start"} \cup Live
            => /\ loc[r]["ca.crt"] = certs["ca.crt"]
               /\ loc[r]["ca.key"] = certs["ca.crt"]

CAIInv == PlainInv /\ IdxInv /\ CAInv

-----------------------------------------------------------------------------
(* Patient use: one invocation at a time is short of its first heartbeat.  *)

OneStarting ==
    \A r, s \in Runs :
        r # s /\ pc[r] \in InFlight \cup {"up"} => pc[s] \notin InFlight \cup {"up"}

BeatIsFresh ==
    \A r \in Runs :
        pc[r] = "beat" => reg[arg[r].node] # None /\ reg[arg[r].node].hb = "fresh"

BeatIsAlone ==
    \A r, s \in Runs :
        /\ r # s /\ pc[s] = "beat"
        /\ pc[r] \in (InFlight \ {"check"}) \cup Registered
        => arg[r].node # arg[s].node

PatientIInv == OneStarting /\ BeatIsFresh /\ BeatIsAlone

-----------------------------------------------------------------------------
\* An init that has found no registration is the only invocation about.
LEMMA SoleStarter ==
    ASSUME TypeOK, AloneIInv, NEW r \in Runs, arg[r].kind = "init",
           pc[r] \in InFlight \ {"check", "list"}, NEW s \in Runs, s # r
    PROVE  pc[s] \in {"none", "done"}
<1>1. pc[s] \notin InFlight
  BY DEF AloneIInv, AloneInv
<1>2. arg[s].node \in NodeIds
  BY DEF TypeOK, Args
<1>3. pc[s] \notin Registered
  BY <1>2, SMTT(120) DEF AloneIInv, FirstInv, MemberInv, Known
<1>4. QED
  BY <1>1, <1>3 DEF TypeOK

\* Every step of commands given with InitAlone keeps the invariant.
LEMMA AloneStep == TypeOK /\ AloneIInv /\ [InitAloneNext]_vars => AloneIInv'
<1> SUFFICES ASSUME TypeOK, AloneIInv, [InitAloneNext]_vars
             PROVE  AloneIInv'
  OBVIOUS
<1> USE NoneAssumption DEF TypeOK, RunOrNone, InFlight, Before, Registered, Live, Known,
        AloneIInv, KindInv, AloneInv, FirstInv, UuidInv, RecInv, DiskInv, MemberInv
<1>1. ASSUME NEW r \in Runs, Alone(r), Launch(r)
      PROVE  AloneIInv'
  BY <1>1 DEF Alone, Launch, Goto, store, local, Args
<1>2. ASSUME NEW r \in Runs, CheckNodeLiveness(r)
      PROVE  AloneIInv'
  <2>1. arg[r].kind \in {"init", "join"}
    BY DEF Args
  <2>2. PICK l \in {"done", IF arg[r].kind = "init" THEN "list" ELSE "read"} : Goto(r, l)
    BY <1>2 DEF CheckNodeLiveness
  <2>3. QED
    BY <1>2, <2>1, <2>2 DEF CheckNodeLiveness, Goto, store, local
<1>3. ASSUME NEW r \in Runs, InitListNodes(r)
      PROVE  AloneIInv'
  BY <1>3 DEF InitListNodes, Goto, store, local, Args
<1>4. ASSUME NEW r \in Runs, WriteClusterID(r)
      PROVE  AloneIInv'
  <2>1. PICK l \in {"exist", "prev"} : Goto(r, l)
    BY <1>4 DEF WriteClusterID
  <2>2. pc[r] = "write" /\ arg[r].kind = "init" /\ Known = {}
    BY <1>4, Zenon DEF WriteClusterID
  <2>3. ASSUME NEW s \in Runs, s # r
        PROVE  pc[s] \notin InFlight /\ pc[s] \notin Live
    BY <2>2, <2>3, SoleStarter, ZenonT(60)
  <2>4. QED
    BY <1>4, <2>1, <2>2, <2>3 DEF WriteClusterID, Goto
<1>5. ASSUME NEW r \in Runs, ReadClusterID(r)
      PROVE  AloneIInv'
  <2>1. CASE clusterId = None
    <3>1. Goto(r, "done") /\ UNCHANGED uuid
      BY <1>5, <2>1, SMTT(120) DEF ReadClusterID
    <3>2. QED
      BY <1>5, <3>1, SMTT(120) DEF ReadClusterID, Goto, store
  <2>2. CASE clusterId # None
    <3>1. Goto(r, "list") /\ uuid' = [uuid EXCEPT ![r] = clusterId]
      BY <1>5, <2>2, SMTT(120) DEF ReadClusterID
    <3>2. QED
      BY <1>5, <3>1, SMTT(120) DEF ReadClusterID, Goto, store
  <2>3. QED
    BY <2>1, <2>2
<1>6. ASSUME NEW r \in Runs, JoinListNodes(r)
      PROVE  AloneIInv'
  BY <1>6 DEF JoinListNodes, Goto, store, local, Args
<1>7. ASSUME NEW r \in Runs, CertsExist(r)
      PROVE  AloneIInv'
  BY <1>7 DEF CertsExist, Goto, store, local, Args
<1>8. ASSUME NEW r \in Runs, UploadCert(r)
      PROVE  AloneIInv'
  BY <1>8, SMTT(120) DEF UploadCert, Goto, store, local, Args
<1>9. ASSUME NEW r \in Runs, DownloadCert(r)
      PROVE  AloneIInv'
  <2>1. PICK l \in {"download", "prev", "done"} : pc' = [pc EXCEPT ![r] = l]
    BY <1>9, SMTT(60) DEF DownloadCert, Goto
  <2>2. KindInv' /\ AloneInv' /\ FirstInv'
    BY <1>9, <2>1 DEF DownloadCert, store
  <2>3. UuidInv' /\ RecInv' /\ DiskInv'
    BY <1>9, <2>1 DEF DownloadCert, store
  <2>4. MemberInv'
    BY <1>9, <2>1 DEF DownloadCert, store
  <2>5. QED
    BY <2>2, <2>3, <2>4, Zenon
<1>10. ASSUME NEW r \in Runs, PreviousRegistration(r)
      PROVE  AloneIInv'
  <2>1. KindInv' /\ AloneInv' /\ FirstInv'
    BY <1>10 DEF PreviousRegistration, Goto, store, local, Args
  <2>2. UuidInv' /\ RecInv' /\ DiskInv' /\ MemberInv'
    BY <1>10 DEF PreviousRegistration, Goto, store, local, Args
  <2>3. QED
    BY <2>1, <2>2, Zenon
<1>11. ASSUME NEW r \in Runs, StartServer(r)
      PROVE  AloneIInv'
  BY <1>11, SMTT(120) DEF StartServer, Goto, store, local, Args, Reachable
<1>12. ASSUME NEW r \in Runs, RegisterNode(r)
      PROVE  AloneIInv'
  <2>1. /\ member[r] = clusterId
        /\ \A s \in Runs : s # r /\ arg[s].kind = "init" /\ pc[s] \in InFlight
              => pc[s] \in {"check", "list"}
    BY <1>12 DEF RegisterNode, Args
  <2>2. /\ \A n \in NodeIds : n # arg[r].node => reg'[n] = reg[n]
        /\ reg'[arg[r].node] = [addr |-> arg[r].host, cluster |-> member[r], hb |-> "nil"]
        /\ arg[r].node \in NodeIds
    BY <1>12 DEF RegisterNode, Write, Args
  <2>3. reg'[arg[r].node] # None /\ reg'[arg[r].node].cluster = clusterId
    <3>1. arg[r].host \in Hosts /\ member[r] \in Runs
      BY <1>12 DEF RegisterNode, Args
    <3>2. [addr |-> arg[r].host, cluster |-> member[r], hb |-> "nil"] \in Registration
      BY <3>1, SMTT(120) DEF Registration
    <3>3. QED
      BY <2>1, <2>2, <3>2, SMTT(60)
  <2>4. MemberInv'
    BY <1>12, <2>1, <2>2, <2>3, ZenonT(60) DEF RegisterNode, Goto, local, Args
  <2>5. FirstInv'
    BY <1>12, <2>1 DEF RegisterNode, Goto, local, Args
  <2>6. KindInv' /\ AloneInv' /\ UuidInv'
    BY <1>12 DEF RegisterNode, Goto, local
  <2>7. RecInv' /\ DiskInv'
    BY <1>12 DEF RegisterNode, Goto, local
  <2>8. QED
    BY <2>4, <2>5, <2>6, <2>7, Zenon
<1>13. ASSUME NEW r \in Runs, Heartbeat(r)
      PROVE  AloneIInv'
  <2>1. /\ member[r] = clusterId
        /\ \A s \in Runs : s # r /\ arg[s].kind = "init" /\ pc[s] \in InFlight
              => pc[s] \in {"check", "list"}
    BY <1>13, SMTT(60) DEF Heartbeat, Args
  <2>2. /\ \A n \in NodeIds : n # arg[r].node => reg'[n] = reg[n]
        /\ reg'[arg[r].node] = [addr |-> arg[r].host, cluster |-> member[r], hb |-> "fresh"]
        /\ arg[r].node \in NodeIds
    BY <1>13 DEF Heartbeat, Write, Args
  <2>3. reg'[arg[r].node] # None /\ reg'[arg[r].node].cluster = clusterId
    <3>1. arg[r].host \in Hosts /\ member[r] \in Runs
      BY <1>13 DEF Heartbeat, Args
    <3>2. [addr |-> arg[r].host, cluster |-> member[r], hb |-> "fresh"] \in Registration
      BY <3>1, SMTT(120) DEF Registration
    <3>3. QED
      BY <2>1, <2>2, <3>2, SMTT(120)
  <2>4. MemberInv'
    BY <1>13, <2>1, <2>2, <2>3, ZenonT(60) DEF Heartbeat, Goto, local, Args
  <2>5. FirstInv'
    BY <1>13, <2>1 DEF Heartbeat, Goto, local, Args
  <2>6. KindInv' /\ AloneInv' /\ UuidInv'
    BY <1>13 DEF Heartbeat, Goto, local
  <2>7. RecInv' /\ DiskInv'
    BY <1>13 DEF Heartbeat, Goto, local
  <2>8. QED
    BY <2>4, <2>5, <2>6, <2>7, Zenon
<1>14. ASSUME NEW r \in Runs, Exit(r)
      PROVE  AloneIInv'
  BY <1>14 DEF Exit, Goto, store, local, Args
<1>15. ASSUME NEW n \in NodeIds, Expire(n)
       PROVE  AloneIInv'
  <2>1. UNCHANGED <<clusterId, certs, disk, arg, pc, uuid, peers, idx, loc, rec, member>>
    BY <1>15 DEF Expire, local
  <2>2. reg[n] \in Registration
    BY <1>15 DEF Expire
  <2>3. /\ \A m \in NodeIds : (reg'[m] = None) = (reg[m] = None)
        /\ \A m \in NodeIds : reg[m] # None => reg'[m].cluster = reg[m].cluster
    <3>1. [reg[n] EXCEPT !.hb = "stale"] \in Registration
      BY <2>2, Zenon DEF Registration
    <3>2. reg'[n] = [reg[n] EXCEPT !.hb = "stale"]
      BY <1>15 DEF Expire
    <3>3. reg'[n].cluster = reg[n].cluster
      BY <2>2, <3>2 DEF Registration
    <3>4. \A m \in NodeIds : m # n => reg'[m] = reg[m]
      BY <1>15 DEF Expire
    <3>5. reg[n] # None /\ reg'[n] # None
      <4>1. reg[n] # None
        BY <2>2, NotNone
      <4>2. reg'[n] \in Registration
        BY <3>1, <3>2, SMTT(120)
      <4>3. QED
        BY <4>1, <4>2, NotNone
    <3>6. QED
      BY <3>3, <3>4, <3>5, SMTT(120)
  <2>4. QED
    BY <2>1, <2>3, ZenonT(60) DEF Args
<1>16. CASE UNCHANGED vars
  BY <1>16 DEF vars
<1>17. QED
  BY <1>1, <1>2, <1>3, <1>4, <1>5, <1>6, <1>7, <1>8, <1>9, <1>10, <1>11, <1>12, <1>13,
     <1>14, <1>15, <1>16, Zenon DEF InitAloneNext, Step

\* Commands given with InitAlone are commands.
LEMMA AloneIsNext == [InitAloneNext]_vars => [Next]_vars
BY DEF InitAloneNext, Next

\* Both invariants hold in every state reached with InitAlone.
LEMMA AloneAlways == InitAloneSpec => [](TypeOK /\ AloneIInv)
<1>1. Init => TypeOK
  BY TypeInit
<1>2. ASSUME Init
      PROVE  AloneIInv
  <2>1. /\ \A r \in Runs : pc[r] = "none"
        /\ \A n \in NodeIds : reg[n] = None
        /\ \A h \in Hosts, u \in Runs : disk[h][u] = None
    BY <1>2 DEF Init
  <2>2. QED
    BY <2>1 DEF AloneIInv, KindInv, AloneInv, FirstInv, UuidInv, RecInv, DiskInv,
       MemberInv, Known, InFlight, Before, Live, Registered
<1>3. TypeOK /\ AloneIInv /\ [InitAloneNext]_vars => TypeOK' /\ AloneIInv'
  BY TypeStep, AloneStep, AloneIsNext
<1>4. QED
  BY <1>1, <1>2, <1>3, PTL DEF InitAloneSpec

\* Started with InitAlone, all registrations and all registered servers are
\* of the cluster whose id is stored, through any failures and crashes.
THEOREM OneClusterPerURL == InitAloneSpec => []OneCluster
<1>1. TypeOK /\ AloneIInv => OneCluster
  BY DEF AloneIInv, MemberInv, OneCluster, Live, Registered
<1>2. QED
  BY <1>1, AloneAlways, PTL

\* Started with InitAlone, nothing replaces the id of a cluster that has a
\* registered node.
THEOREM StableIdentity == InitAloneSpec => IdentityIsStable
<1>1. ASSUME TypeOK, AloneIInv, [InitAloneNext]_vars
      PROVE  [Known # {} => clusterId' = clusterId]_vars
  <2>1. ASSUME NEW r \in Runs, WriteClusterID(r)
        PROVE  Known = {}
    BY <1>1, <2>1, SMTT(120) DEF WriteClusterID, AloneIInv, KindInv, FirstInv, InFlight, Before
  <2>2. ASSUME NEW r \in Runs, Launch(r) \/ Step(r), ~WriteClusterID(r)
        PROVE  clusterId' = clusterId
    BY <2>2 DEF Launch, Step, CheckNodeLiveness, InitListNodes, ReadClusterID,
       JoinListNodes, CertsExist, UploadCert, DownloadCert, PreviousRegistration,
       StartServer, RegisterNode, Heartbeat, Exit, store
  <2>3. ASSUME NEW n \in NodeIds, Expire(n)
        PROVE  clusterId' = clusterId
    BY <2>3, SMTT(120) DEF Expire
  <2>4. QED
    BY <1>1, <2>1, <2>2, <2>3 DEF InitAloneNext, vars
<1>2. QED
  BY <1>1, AloneAlways, PTL DEF InitAloneSpec, IdentityIsStable

-----------------------------------------------------------------------------
\* Every step of commands given with InitAlone keeps what is known of the CA.
LEMMA CAStep ==
    TypeOK /\ AloneIInv /\ CAIInv /\ [InitAloneNext]_vars => CAIInv'
<1> SUFFICES ASSUME TypeOK, AloneIInv, CAIInv, [InitAloneNext]_vars
             PROVE  CAIInv'
  OBVIOUS
<1> USE TLSAssumption DEF TypeOK, InFlight, Before, Registered, Live,
        CAIInv, PlainInv, IdxInv, CAInv
<1>1. ASSUME NEW r \in Runs, Launch(r)
      PROVE  CAIInv'
  BY <1>1 DEF Launch, Goto, store, local
<1>2. ASSUME NEW r \in Runs, CheckNodeLiveness(r)
      PROVE  CAIInv'
  BY <1>2 DEF CheckNodeLiveness, Goto, store, local
<1>3. ASSUME NEW r \in Runs, InitListNodes(r)
      PROVE  CAIInv'
  BY <1>3 DEF InitListNodes, Goto, store, local
<1>4. ASSUME NEW r \in Runs, WriteClusterID(r)
      PROVE  CAIInv'
  BY <1>4 DEF WriteClusterID, Goto, store, local
<1>5. ASSUME NEW r \in Runs, ReadClusterID(r)
      PROVE  CAIInv'
  BY <1>5, SMTT(120) DEF ReadClusterID, Goto, store, local
<1>6. ASSUME NEW r \in Runs, JoinListNodes(r)
      PROVE  CAIInv'
  BY <1>6 DEF JoinListNodes, Goto, store, local
<1>7. ASSUME NEW r \in Runs, CertsExist(r)
      PROVE  CAIInv'
  BY <1>7, SMTT(120) DEF CertsExist, Goto, store, local
<1>8. ASSUME NEW r \in Runs, UploadCert(r)
      PROVE  CAIInv'
  <2>1. pc[r] = "upload" /\ arg[r].kind = "init" /\ TLS
    BY <1>8 DEF UploadCert, AloneIInv, KindInv
  <2>2. \A s \in Runs : s # r => pc[s] \in {"none", "done"}
    BY <2>1, SoleStarter
  <2>3. CASE idx[r] < 4
    BY <1>8, <2>1, <2>2, <2>3, SMTT(120) DEF UploadCert
  <2>4. CASE ~(idx[r] < 4)
    <3>1. pc' = [pc EXCEPT ![r] = "download"] /\ idx' = [idx EXCEPT ![r] = 1]
      BY <1>8, <2>4 DEF UploadCert, Goto
    <3>2. \A s \in Runs : s # r => pc'[s] = pc[s] /\ idx'[s] = idx[s]
      BY <3>1
    <3>3. pc'[r] = "download" /\ idx'[r] = 1
      BY <3>1, SMTT(120)
    <3>4. PlainInv'
      BY <2>1, SMTT(120)
    <3>5. IdxInv'
      BY <2>2, <3>2, <3>3, SMTT(120)
    <3>6. CAInv'
      BY <2>2, <3>2, <3>3, SMTT(120)
    <3>7. QED
      BY <3>4, <3>5, <3>6
  <2>5. QED
    BY <2>3, <2>4
<1>9. ASSUME NEW r \in Runs, DownloadCert(r)
      PROVE  CAIInv'
  <2>1. TLS /\ pc[r] = "download" /\ certs' = certs
    BY <1>9 DEF DownloadCert, store
  <2>2. \A s \in Runs : s # r => loc'[s] = loc[s] /\ pc'[s] = pc[s] /\ idx'[s] = idx[s]
    BY <1>9 DEF DownloadCert, Goto
  <2>3. loc'[r]["ca.crt"] = certs["ca.crt"]
    <3>1. CASE idx[r] = 1
      BY <1>9, <3>1, FirstFile DEF DownloadCert
    <3>2. CASE idx[r] > 1
      <4>1. File[idx[r]] # "ca.crt"
        BY <3>2, FirstFile, ZenonT(60)
      <4>2. QED
        BY <1>9, <2>1, <3>2, <4>1 DEF DownloadCert
    <3>3. QED
      BY <3>1, <3>2, SMTT(120)
  <2>4. /\ pc'[r] \in {"download", "prev", "done"}
        /\ pc'[r] = "prev" => loc'[r]["ca.crt"] = loc'[r]["ca.key"]
    BY <1>9 DEF DownloadCert, Goto
  <2>5. PlainInv'
    BY <2>1, Zenon
  <2>6. IdxInv'
    <3>1. ASSUME NEW s \in Runs, s # r
          PROVE  /\ pc'[s] \in {"none", "check", "list", "write", "read", "exist"}
                       => idx'[s] = 1
                 /\ pc'[s] = "download" /\ idx'[s] > 1
                       => loc'[s]["ca.crt"] = certs'["ca.crt"]
      BY <2>1, <2>2, <3>1, ZenonT(60)
    <3>2. QED
      BY <2>1, <2>3, <2>4, <3>1, ZenonT(60)
  <2>7. CAInv'
    <3>1. ASSUME NEW s \in Runs, pc'[s] \in {"prev", "start"} \cup Live
          PROVE  loc'[s]["ca.crt"] = certs'["ca.crt"] /\ loc'[s]["ca.key"] = certs'["ca.crt"]
      <4>1. CASE s = r
        <5>1. pc'[r] = "prev"
          BY <2>4, <3>1, <4>1
        <5> QED
          BY <2>1, <2>3, <2>4, <4>1, <5>1, Zenon
      <4>2. CASE s # r
        BY <2>1, <2>2, <3>1, <4>2, ZenonT(60)
      <4> QED
        BY <4>1, <4>2
    <3>2. QED
      BY <3>1, Zenon
  <2>8. QED
    BY <2>5, <2>6, <2>7
<1>10. ASSUME NEW r \in Runs, PreviousRegistration(r)
      PROVE  CAIInv'
  BY <1>10, SMTT(120) DEF PreviousRegistration, Goto, store, local
<1>11. ASSUME NEW r \in Runs, StartServer(r)
      PROVE  CAIInv'
  BY <1>11 DEF StartServer, Goto, store, local
<1>12. ASSUME NEW r \in Runs, RegisterNode(r)
      PROVE  CAIInv'
  BY <1>12 DEF RegisterNode, Goto, store, local
<1>13. ASSUME NEW r \in Runs, Heartbeat(r)
      PROVE  CAIInv'
  BY <1>13 DEF Heartbeat, Goto, store, local
<1>14. ASSUME NEW r \in Runs, Exit(r)
      PROVE  CAIInv'
  BY <1>14 DEF Exit, Goto, store, local
<1>15. ASSUME NEW n \in NodeIds, Expire(n)
       PROVE  CAIInv'
  BY <1>15 DEF Expire, store, local
<1>16. CASE UNCHANGED vars
  BY <1>16 DEF vars
<1>17. QED
  BY <1>1, <1>2, <1>3, <1>4, <1>5, <1>6, <1>7, <1>8, <1>9, <1>10, <1>11, <1>12, <1>13,
     <1>14, <1>15, <1>16, Zenon DEF InitAloneNext, Step

\* Started with InitAlone, servers that run have certificates of one CA.
THEOREM OneCAPerURL == InitAloneSpec => []OneCA
<1>1. ASSUME Init
      PROVE  CAIInv
  <2>1. /\ \A r \in Runs : pc[r] = "none" /\ idx[r] = 1
        /\ certs["ca.crt"] = None
        /\ \A r \in Runs : loc[r]["ca.crt"] = None /\ loc[r]["ca.key"] = None
    BY <1>1 DEF Init, Files, File
  <2>2. QED
    BY <2>1 DEF CAIInv, PlainInv, IdxInv, CAInv, Live
<1>2. CAIInv => OneCA
  BY DEF CAIInv, CAInv, OneCA
<1>3. QED
  BY <1>1, <1>2, CAStep, AloneAlways, PTL DEF InitAloneSpec

-----------------------------------------------------------------------------
\* A command that goes on without touching the registrations, or ends, keeps
\* the invariant of patient use.
LEMMA PatientMove ==
  ASSUME NEW r \in Runs, NEW l, NEW L,
         PatientIInv, pc \in [Runs -> L], pc' = [pc EXCEPT ![r] = l],
         reg' = reg, arg' = arg,
         \/ l = "done"
         \/ l \in InFlight \ {"check"} /\ pc[r] \in InFlight \ {"check"}
  PROVE  PatientIInv'
<1> USE DEF InFlight, Before, Registered
<1>1. pc'[r] = l /\ \A s \in Runs \ {r} : pc'[s] = pc[s]
  OBVIOUS
<1>2. /\ l # "beat" /\ l # "up"
      /\ l \in InFlight \cup Registered => pc[r] \in InFlight \ {"check"}
  OBVIOUS
<1>3. OneStarting'
  BY <1>1, <1>2 DEF PatientIInv, OneStarting
<1>4. BeatIsFresh'
  BY <1>1, <1>2 DEF PatientIInv, BeatIsFresh
<1>5. BeatIsAlone'
  BY <1>1, <1>2 DEF PatientIInv, BeatIsAlone
<1>6. QED
  BY <1>3, <1>4, <1>5 DEF PatientIInv

\* A server that writes its registration, with or without a heartbeat, keeps
\* the invariant of patient use.
LEMMA PatientWrite ==
  ASSUME NEW r \in Runs, NEW l \in {"up", "beat"}, NEW L, NEW hb \in {"nil", "fresh"},
         PatientIInv, TypeOK, pc \in [Runs -> L], pc' = [pc EXCEPT ![r] = l],
         arg' = arg, Write(r, hb),
         \/ pc[r] = "register" /\ l = "up"
         \/ pc[r] \in {"up", "beat"} /\ l = "beat" /\ hb = "fresh"
  PROVE  PatientIInv'
<1> DEFINE n == arg[r].node
<1>1. pc'[r] = l /\ \A s \in Runs \ {r} : pc'[s] = pc[s]
  OBVIOUS
<1>2. n \in NodeIds /\ arg[r].host \in Hosts /\ \A s \in Runs : arg[s].node \in NodeIds
  BY DEF TypeOK, Args
<1>3. member[r] \in Runs
  BY SMTT(120) DEF TypeOK, Live
<1>4. [addr |-> arg[r].host, cluster |-> member[r], hb |-> hb] \in Registration
  BY <1>2, <1>3 DEF Registration
<1>5. /\ reg'[n] = [addr |-> arg[r].host, cluster |-> member[r], hb |-> hb]
      /\ \A k \in NodeIds \ {n} : reg'[k] = reg[k]
  BY <1>2 DEF Write, TypeOK
<1>6. reg'[n] # None /\ reg'[n].hb = hb
  BY <1>4, <1>5, NotNone
<1> HIDE DEF n
<1>7. pc[r] \in {"register", "up", "beat"}
  OBVIOUS
<1>8. \A s \in Runs \ {r} : pc[s] = "beat" => arg[s].node # n
  BY <1>7 DEF PatientIInv, BeatIsAlone, InFlight, Before, Registered, n
<1>9. OneStarting'
  <2>1. l = "beat" \/ pc[r] \in InFlight \cup {"up"}
    BY DEF InFlight
  <2>2. QED
    BY <1>1, <2>1 DEF PatientIInv, OneStarting, InFlight, Before
<1>10. BeatIsFresh'
  <2> SUFFICES ASSUME NEW s \in Runs, pc'[s] = "beat"
               PROVE  reg'[arg[s].node] # None /\ reg'[arg[s].node].hb = "fresh"
    BY DEF BeatIsFresh
  <2>1. CASE s = r
    BY <1>1, <1>6, <2>1 DEF n
  <2>2. CASE s # r
    <3>1. pc[s] = "beat" /\ arg[s].node # n
      BY <1>1, <1>8, <2>2, SMTT(120)
    <3>2. reg'[arg[s].node] = reg[arg[s].node]
      BY <1>2, <1>5, <3>1
    <3>3. QED
      BY <3>1, <3>2 DEF PatientIInv, BeatIsFresh
  <2>3. QED
    BY <2>1, <2>2
<1>11. BeatIsAlone'
  <2> SUFFICES ASSUME NEW a \in Runs, NEW b \in Runs, a # b, pc'[b] = "beat",
                      pc'[a] \in (InFlight \ {"check"}) \cup Registered
               PROVE  arg[a].node # arg[b].node
    BY DEF BeatIsAlone
  <2>1. CASE a = r
    BY <1>1, <1>8, <2>1 DEF n
  <2>2. CASE b = r
    <3>1. pc'[a] = pc[a] /\ a # r
      BY <1>1, <2>2
    <3>2. CASE pc[a] = "beat"
      BY <1>8, <2>2, <3>1, <3>2 DEF n
    <3>3. CASE pc[a] # "beat"
      <4>1. pc[r] = "beat"
        BY <1>1, <2>2, <3>1, <3>3 DEF PatientIInv, OneStarting, InFlight, Registered
      <4>2. QED
        BY <2>2, <3>1, <4>1 DEF PatientIInv, BeatIsAlone
    <3>4. QED
      BY <3>2, <3>3
  <2>3. CASE a # r /\ b # r
    BY <1>1, <2>3 DEF PatientIInv, BeatIsAlone
  <2>4. QED
    BY <2>1, <2>2, <2>3
<1>12. QED
  BY <1>9, <1>10, <1>11 DEF PatientIInv

\* Every step of patient use keeps its invariant.
LEMMA PatientStep == TypeOK /\ PatientIInv /\ [PatientNext]_vars => PatientIInv'
<1> SUFFICES ASSUME TypeOK, PatientIInv, [PatientNext]_vars
             PROVE  PatientIInv'
  OBVIOUS
<1> DEFINE L == {"none", "done"} \cup InFlight \cup Registered
<1>a. pc \in [Runs -> L]
  BY DEF TypeOK
<1>b. \A l \in Before : l \in InFlight \ {"check"}
  BY DEF InFlight, Before
<1> HIDE DEF L
<1>1. ASSUME NEW r \in Runs, Settled, Launch(r)
      PROVE  PatientIInv'
  <2>1. /\ pc' = [pc EXCEPT ![r] = "check"] /\ reg' = reg /\ arg' = arg
        /\ \A s \in Runs : pc[s] \in {"none", "beat", "done"}
    BY <1>1 DEF Settled, Launch, Goto, store
  <2>2. pc'[r] = "check" /\ \A s \in Runs \ {r} : pc'[s] = pc[s]
    BY <1>a, <2>1
  <2>3. OneStarting'
    BY <2>1, <2>2 DEF OneStarting, InFlight, Before
  <2>4. BeatIsFresh'
    BY <2>1, <2>2 DEF PatientIInv, BeatIsFresh
  <2>5. BeatIsAlone'
    BY <2>1, <2>2 DEF PatientIInv, BeatIsAlone, InFlight, Before, Registered
  <2>6. QED
    BY <2>3, <2>4, <2>5 DEF PatientIInv
<1>2. ASSUME NEW r \in Runs, CheckNodeLiveness(r)
      PROVE  PatientIInv'
  <2>1. pc[r] = "check" /\ reg' = reg /\ arg' = arg
    BY <1>2 DEF CheckNodeLiveness, store
  <2>2. CASE pc' = [pc EXCEPT ![r] = "done"]
    BY <1>a, <2>1, <2>2, PatientMove, Zenon
  <2>3. CASE pc' # [pc EXCEPT ![r] = "done"]
    <3>1. PICK l \in {"list", "read"} : pc' = [pc EXCEPT ![r] = l]
      BY <1>2, <2>3 DEF CheckNodeLiveness, Goto
    <3>2. ~(reg[arg[r].node] # None /\ reg[arg[r].node].hb = "fresh")
      BY <1>2, <2>3 DEF CheckNodeLiveness, Goto
    <3>3. pc'[r] = l /\ \A s \in Runs \ {r} : pc'[s] = pc[s]
      BY <1>a, <3>1
    <3>4. OneStarting'
      BY <2>1, <3>3 DEF PatientIInv, OneStarting, InFlight, Before
    <3>5. BeatIsFresh'
      BY <2>1, <3>3 DEF PatientIInv, BeatIsFresh
    <3>6. \A s \in Runs : pc[s] = "beat" => arg[s].node # arg[r].node
      BY <3>2 DEF PatientIInv, BeatIsFresh
    <3>7. BeatIsAlone'
      BY <2>1, <3>3, <3>6 DEF PatientIInv, BeatIsAlone
    <3>8. QED
      BY <3>4, <3>5, <3>7 DEF PatientIInv
  <2>4. QED
    BY <2>2, <2>3
<1>3. ASSUME NEW r \in Runs, InitListNodes(r)
      PROVE  PatientIInv'
  <2>1. PICK l \in {"done", "write"} : pc' = [pc EXCEPT ![r] = l]
    BY <1>3, Zenon DEF InitListNodes, Goto
  <2>2. pc[r] = "list" /\ reg' = reg /\ arg' = arg
    BY <1>3 DEF InitListNodes, store
  <2>3. QED
    BY <1>a, <1>b, <2>1, <2>2, PatientMove, Zenon DEF Before
<1>4. ASSUME NEW r \in Runs, WriteClusterID(r)
      PROVE  PatientIInv'
  <2>1. PICK l \in {"exist", "prev"} : pc' = [pc EXCEPT ![r] = l]
    BY <1>4, Zenon DEF WriteClusterID, Goto
  <2>2. pc[r] = "write" /\ reg' = reg /\ arg' = arg
    BY <1>4 DEF WriteClusterID
  <2>3. QED
    BY <1>a, <1>b, <2>1, <2>2, PatientMove, Zenon DEF Before
<1>5. ASSUME NEW r \in Runs, ReadClusterID(r)
      PROVE  PatientIInv'
  <2>1. PICK l \in {"done", "list"} : pc' = [pc EXCEPT ![r] = l]
    BY <1>5 DEF ReadClusterID, Goto
  <2>2. pc[r] = "read" /\ reg' = reg /\ arg' = arg
    BY <1>5 DEF ReadClusterID, store
  <2>3. QED
    BY <1>a, <1>b, <2>1, <2>2, PatientMove, Zenon DEF Before
<1>6. ASSUME NEW r \in Runs, JoinListNodes(r)
      PROVE  PatientIInv'
  <2>1. PICK l \in {"done", "download", "prev"} : pc' = [pc EXCEPT ![r] = l]
    BY <1>6, Zenon DEF JoinListNodes, Goto
  <2>2. pc[r] = "list" /\ reg' = reg /\ arg' = arg
    BY <1>6 DEF JoinListNodes, store
  <2>3. QED
    BY <1>a, <1>b, <2>1, <2>2, PatientMove, Zenon DEF Before
<1>7. ASSUME NEW r \in Runs, CertsExist(r)
      PROVE  PatientIInv'
  <2>1. PICK l \in {"upload", "download"} : pc' = [pc EXCEPT ![r] = l]
    BY <1>7, Zenon DEF CertsExist, Goto
  <2>2. pc[r] = "exist" /\ reg' = reg /\ arg' = arg
    BY <1>7 DEF CertsExist, store
  <2>3. QED
    BY <1>a, <1>b, <2>1, <2>2, PatientMove, Zenon DEF Before
<1>8. ASSUME NEW r \in Runs, UploadCert(r)
      PROVE  PatientIInv'
  <2>1. pc[r] = "upload" /\ reg' = reg /\ arg' = arg
    BY <1>8 DEF UploadCert
  <2>2. PICK l \in {"upload", "download"} : pc' = [pc EXCEPT ![r] = l]
    BY <1>8, <1>a, <2>1 DEF UploadCert, Goto
  <2>3. QED
    BY <1>a, <1>b, <2>1, <2>2, PatientMove, Zenon DEF Before
<1>9. ASSUME NEW r \in Runs, DownloadCert(r)
      PROVE  PatientIInv'
  <2>1. pc[r] = "download" /\ reg' = reg /\ arg' = arg
    BY <1>9 DEF DownloadCert, store
  <2>2. PICK l \in {"download", "prev", "done"} : pc' = [pc EXCEPT ![r] = l]
    BY <1>9, <1>a, <2>1 DEF DownloadCert, Goto
  <2>3. QED
    BY <1>a, <1>b, <2>1, <2>2, PatientMove, Zenon DEF Before
<1>10. ASSUME NEW r \in Runs, PreviousRegistration(r)
      PROVE  PatientIInv'
  <2>1. /\ pc[r] = "prev" /\ reg' = reg /\ arg' = arg
        /\ pc' = [pc EXCEPT ![r] = "start"]
    BY <1>10 DEF PreviousRegistration, Goto, store
  <2>2. QED
    BY <1>a, <1>b, <2>1, PatientMove, Zenon DEF Before
<1>11. ASSUME NEW r \in Runs, StartServer(r)
      PROVE  PatientIInv'
  <2>1. /\ pc[r] = "start" /\ reg' = reg /\ arg' = arg
        /\ pc' = [pc EXCEPT ![r] = "register"]
    BY <1>11 DEF StartServer, Goto, store
  <2>2. "start" \in InFlight \ {"check"} /\ "register" \in InFlight \ {"check"}
    BY DEF InFlight, Before
  <2>3. QED
    BY <1>a, <2>1, <2>2, PatientMove, Zenon
<1>12. ASSUME NEW r \in Runs, RegisterNode(r)
      PROVE  PatientIInv'
  <2>1. /\ pc[r] = "register" /\ arg' = arg /\ Write(r, "nil")
        /\ pc' = [pc EXCEPT ![r] = "up"]
    BY <1>12 DEF RegisterNode, Goto
  <2>2. QED
    BY <1>a, <2>1, PatientWrite, Zenon
<1>13. ASSUME NEW r \in Runs, Heartbeat(r)
      PROVE  PatientIInv'
  <2>1. /\ pc[r] \in {"up", "beat"} /\ arg' = arg /\ Write(r, "fresh")
        /\ pc' = [pc EXCEPT ![r] = "beat"]
    BY <1>13 DEF Heartbeat, Registered, Goto
  <2>2. QED
    BY <1>a, <2>1, PatientWrite, Zenon
<1>14. ASSUME NEW r \in Runs, Exit(r)
      PROVE  PatientIInv'
  <2>1. reg' = reg /\ arg' = arg /\ pc' = [pc EXCEPT ![r] = "done"]
    BY <1>14 DEF Exit, Goto, store
  <2>2. QED
    BY <1>a, <2>1, PatientMove, Zenon
<1>15. ASSUME NEW n \in NodeIds, Silent(n), Expire(n)
       PROVE  PatientIInv'
  <2>1. pc' = pc /\ arg' = arg /\ reg' = [reg EXCEPT ![n].hb = "stale"]
    BY <1>15 DEF Expire
  <2>2. \A k \in NodeIds \ {n} : reg'[k] = reg[k]
    BY <2>1 DEF TypeOK
  <2>3. \A s \in Runs : arg[s].node \in NodeIds
    BY DEF TypeOK, Args
  <2>4. BeatIsFresh'
    BY <1>15, <2>1, <2>2, <2>3 DEF Silent, PatientIInv, BeatIsFresh
  <2>5. OneStarting' /\ BeatIsAlone'
    BY <2>1, SMTT(120) DEF PatientIInv, OneStarting, BeatIsAlone
  <2>6. QED
    BY <2>4, <2>5 DEF PatientIInv
<1>16. CASE UNCHANGED vars
  BY <1>16 DEF vars, PatientIInv, OneStarting, BeatIsFresh, BeatIsAlone
<1>17. QED
  BY <1>1, <1>2, <1>3, <1>4, <1>5, <1>6, <1>7, <1>8, <1>9, <1>10, <1>11, <1>12, <1>13,
     <1>14, <1>15, <1>16 DEF PatientNext, Step

\* Patient use never has two servers under one node id.
THEOREM PatientNoDuplicate == PatientSpec => []NoDuplicateNode
<1>1. Init => PatientIInv
  BY DEF Init, PatientIInv, OneStarting, BeatIsFresh, BeatIsAlone, InFlight, Before, Registered
<1>2. [PatientNext]_vars => [Next]_vars
  BY DEF PatientNext, Next
<1>3. PatientIInv => NoDuplicateNode
  BY DEF PatientIInv, OneStarting, BeatIsAlone, NoDuplicateNode, InFlight, Before, Registered, Live
<1>4. QED
  BY <1>1, <1>2, <1>3, TypeInit, TypeStep, PatientStep, PTL DEF PatientSpec
=============================================================================
