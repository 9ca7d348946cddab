--------------------------- MODULE ManifestBundle ---------------------------
(***************************************************************************)
(* Stores whose SSTables and metadata live in an object store              *)
(* (pkg/storage/remote_metadata.go and the parts of pkg/storage/pebble.go  *)
(* that call it): flush and compaction, the periodic checkpoint            *)
(* (runManifestCheckpoint), Close, crashes, the loss of a local directory, *)
(* and NewPebble, which downloads the bundle before it opens the engine.   *)
(*                                                                         *)
(* Abstractions:                                                           *)
(*  - a write is its store and its number; number 0 is the store's         *)
(*    identity, which InitEngine writes before anything else;              *)
(*  - MANIFEST and remote object catalog are the sets of objects they      *)
(*    name; the other files of a bundle never change and are left out;     *)
(*  - the WAL is the set of writes that are in no SSTable yet. It is       *)
(*    local, synced, and replayed by every open;                           *)
(*  - Pebble (external) starts a new MANIFEST under a higher marker at     *)
(*    every open and reads the one with the highest marker. iter is that   *)
(*    marker: a downloaded file replaces the local one of the same name,   *)
(*    and counts unless the directory has one with a higher marker;        *)
(*  - a store that lost its identity gets the same store id again.         *)
(***************************************************************************)
EXTENDS Naturals, FiniteSets

CONSTANTS
    Stores,
    Legacy,     \* the bundle of stores whose id is not known
    None,
    MaxWrites,  \* bounds on the writes to a store, on the objects created,
    MaxObjects, \* and on the number of times a store is opened
    MaxOpens

ASSUME NamesDistinct == Legacy \notin Stores /\ None \notin Stores /\ None # Legacy
ASSUME BoundsNat == MaxWrites \in Nat /\ MaxObjects \in Nat /\ MaxOpens \in Nat

VARIABLES
    pc,       \* "down", "open", "ckpt" (checkpointer reading), "closing"
    dir,      \* local directory: metadata files, WAL, STORAGE_MIN_VERSION
    sid,      \* stores whose engine knows the store id (p.storeID # 0)
    reg,      \* stores whose id is in a node registration
    remote,   \* SSTable objects
    bundle,   \* bundle objects, by name
    part,     \* what an upload in progress has read, and its object name
    objects,  \* number of SSTables created so far
    count,    \* number of writes to each store so far
    mark,     \* history: what each store held when its upload in progress, or
              \* the one that ended its last Close, began
    saved,    \* history: what each store held at its last completed upload
    opens,    \* number of times each store was opened
    clean,    \* history: stores whose last Close uploaded its bundle
    orderly,  \* history: no step has broken the discipline Orderly
    careful   \* history: no step has broken the discipline Careful

vars ==
    <<pc, dir, sid, reg, remote, bundle, part, objects, count, mark, saved, opens, clean,
      orderly, careful>>

Write == Stores \X Nat
Object == [id : Nat, data : SUBSET Write]
Meta == [iter : Nat, manifest : SUBSET Object, catalog : SUBSET Object]
Names == Stores \cup {Legacy}

ASSUME NoneIsNoFile == None \notin Meta

Ident(s) == <<s, 0>>
Written(s) == {s} \X (0..(count[s] - 1))

Data(objs) == UNION {o.data : o \in objs}

\* What a reader sees in a directory: the SSTables of the MANIFEST and the
\* memtable, which the WAL rebuilds.
Contents(d) == (IF d.meta = None THEN {} ELSE Data(d.meta.manifest)) \cup d.wal

EmptyDir == [meta |-> None, wal |-> {}, minver |-> FALSE]
Unread == [name |-> None, manifest |-> None, catalog |-> None]

TypeOK ==
    /\ pc \in [Stores -> {"down", "open", "ckpt", "closing"}]
    /\ dir \in [Stores -> [meta : Meta \cup {None}, wal : SUBSET Write, minver : BOOLEAN]]
    /\ sid \subseteq Stores
    /\ reg \subseteq Stores
    /\ remote \subseteq Object
    /\ bundle \in [Names -> Meta \cup {None}]
    /\ part \in [Stores -> [name : Names \cup {None},
                            manifest : {None} \cup SUBSET Object,
                            catalog : {None} \cup SUBSET Object]]
    /\ objects \in Nat
    /\ count \in [Stores -> Nat]
    /\ mark \in [Stores -> SUBSET Write]
    /\ saved \in [Stores -> SUBSET Write]
    /\ opens \in [Stores -> Nat]
    /\ clean \subseteq Stores
    /\ orderly \in BOOLEAN
    /\ careful \in BOOLEAN

Init ==
    /\ pc = [s \in Stores |-> "down"]
    /\ dir = [s \in Stores |-> EmptyDir]
    /\ sid = {}
    /\ reg = {}
    /\ remote = {}
    /\ bundle = [n \in Names |-> None]
    /\ part = [s \in Stores |-> Unread]
    /\ objects = 0
    /\ count = [s \in Stores |-> 0]
    /\ mark = [s \in Stores |-> {}]
    /\ saved = [s \in Stores |-> {}]
    /\ opens = [s \in Stores |-> 0]
    /\ clean = {}
    /\ orderly = TRUE
    /\ careful = TRUE

Running(s) == pc[s] \in {"open", "ckpt"}

-----------------------------------------------------------------------------
\* The engine (external): what Pebble does to the files while it runs.

\* A write is committed: in the memtable and in the WAL.
Commit(s, w) ==
    /\ Running(s)
    /\ dir' = [dir EXCEPT ![s].wal = @ \cup {w}]
    /\ UNCHANGED <<pc, sid, reg, remote, bundle, part, objects, mark, saved, opens, clean>>

\* A version edit: SSTable o is added and those in S go.
Edited(m, S, o) ==
    [iter |-> m.iter, manifest |-> (m.manifest \ S) \cup {o}, catalog |-> m.catalog \cup {o}]

\* The log is deleted and the MANIFEST does not name the SSTable.
FlushToBroken(s, d) ==
    IF dir[s].wal = {}
    THEN d = dir /\ UNCHANGED <<remote, objects>>
    ELSE LET o == [id |-> objects + 1, data |-> dir[s].wal] IN
         /\ s \in sid
         /\ objects < MaxObjects
         /\ objects' = objects + 1
         /\ remote' = remote \cup {o}
         /\ d = [dir EXCEPT ![s].meta.catalog = @ \cup {o}, ![s].wal = {}]

\* The memtable becomes an SSTable and its log is deleted. SSTables are
\* created under the creator id, which has to be set. An empty memtable is
\* not flushed.
FlushTo(s, d) ==
    IF dir[s].wal = {}
    THEN d = dir /\ UNCHANGED <<remote, objects>>
    ELSE LET o == [id |-> objects + 1, data |-> dir[s].wal] IN
         /\ s \in sid
         /\ objects < MaxObjects
         /\ objects' = objects + 1
         /\ remote' = remote \cup {o}
         /\ d = [dir EXCEPT ![s] =
                    [meta |-> Edited(@.meta, {}, o), wal |-> {}, minver |-> @.minver]]

Flush(s) ==
    /\ Running(s)
    /\ dir[s].wal # {}
    /\ FlushTo(s, dir')
    /\ UNCHANGED <<pc, sid, reg, bundle, part, count, mark, saved, opens, clean>>

\* Some SSTables are replaced by one with the same contents.
Compact(s) ==
    /\ Running(s)
    /\ s \in sid
    /\ objects < MaxObjects
    /\ \E S \in (SUBSET dir[s].meta.manifest) \ {{}} :
        LET o == [id |-> objects + 1, data |-> Data(S)] IN
        /\ dir' = [dir EXCEPT ![s].meta = Edited(@, S, o)]
        /\ remote' = remote \cup {o}
    /\ objects' = objects + 1
    /\ UNCHANGED <<pc, sid, reg, bundle, part, count, mark, saved, opens, clean>>

\* An object that the MANIFEST no longer names is deleted.
DeleteObsolete(s) ==
    /\ Running(s)
    /\ \E o \in dir[s].meta.catalog \ dir[s].meta.manifest :
        /\ dir' = [dir EXCEPT ![s].meta.catalog = @ \ {o}]
        /\ remote' = remote \ {o}
    /\ UNCHANGED <<pc, sid, reg, bundle, part, objects, count, mark, saved, opens, clean>>

-----------------------------------------------------------------------------
\* InitEngine writes the identity of a store that has none.
WriteIdent(s) ==
    /\ Contents(dir[s]) = {}
    /\ Commit(s, Ident(s))
    /\ count' = [count EXCEPT ![s] = IF @ = 0 THEN 1 ELSE @]

\* InitEngine, after the identity is committed, and Store.Start, once it has
\* read the identity, tell the engine the store id.
SetStoreID(s) ==
    /\ Running(s)
    /\ Ident(s) \in Contents(dir[s])
    /\ s \notin sid
    /\ sid' = sid \cup {s}
    /\ UNCHANGED <<pc, dir, reg, remote, bundle, part, objects, count, mark, saved, opens, clean>>

\* The server accepts clients and registers the node with its store id.
RegisterNode(s) ==
    /\ Running(s)
    /\ s \in sid
    /\ Ident(s) \in Contents(dir[s])
    /\ s \notin reg
    /\ reg' = reg \cup {s}
    /\ UNCHANGED <<pc, dir, sid, remote, bundle, part, objects, count, mark, saved, opens, clean>>

ClientWrite(s) ==
    /\ s \in sid
    /\ Ident(s) \in Contents(dir[s])
    /\ count[s] <= MaxWrites
    /\ Commit(s, <<s, count[s]>>)
    /\ count' = [count EXCEPT ![s] = @ + 1]

-----------------------------------------------------------------------------
\* manifestBundleName, of a store whose id is known or not.
manifestBundleName(known, s) == IF known THEN s ELSE Legacy

\* The checkpoint uploads without flushing first.
CheckpointBroken(s) ==
    /\ pc[s] = "open"
    /\ pc' = [pc EXCEPT ![s] = "ckpt"]
    /\ mark' = [mark EXCEPT ![s] = Contents(dir[s])]
    /\ part' = [part EXCEPT ![s] = [Unread EXCEPT !.name = manifestBundleName(s \in sid, s)]]
    /\ UNCHANGED <<dir, remote, objects, sid, reg, bundle, count, saved, opens, clean>>

\* runManifestCheckpoint: the timer fires and the flush succeeds. A flush that
\* fails leaves everything as it is until the timer fires again.
Checkpoint(s) ==
    /\ pc[s] = "open"
    /\ FlushTo(s, dir')
    /\ pc' = [pc EXCEPT ![s] = "ckpt"]
    /\ mark' = [mark EXCEPT ![s] = Contents(dir[s])]
    /\ part' = [part EXCEPT ![s] = [Unread EXCEPT !.name = manifestBundleName(s \in sid, s)]]
    /\ UNCHANGED <<sid, reg, bundle, count, saved, opens, clean>>

\* The bundle is captured before the flush.
CloseBroken(s) ==
    /\ pc[s] = "open"
    /\ FlushTo(s, dir')
    /\ pc' = [pc EXCEPT ![s] = "closing"]
    /\ mark' = [mark EXCEPT ![s] = Contents(dir[s])]
    /\ part' = [part EXCEPT ![s] = [name |-> manifestBundleName(s \in sid, s),
                                   manifest |-> dir[s].meta.manifest,
                                   catalog |-> dir[s].meta.catalog]]
    /\ UNCHANGED <<sid, reg, bundle, count, saved, opens, clean>>

\* Close: the checkpointer is stopped, the memtable is flushed or the flush
\* fails, the engine is closed and its last bundle is uploaded in any case.
Close(s) ==
    /\ pc[s] = "open"
    /\ FlushTo(s, dir') \/ (dir[s].wal # {} /\ UNCHANGED <<dir, remote, objects>>)
    /\ pc' = [pc EXCEPT ![s] = "closing"]
    /\ mark' = [mark EXCEPT ![s] = Contents(dir[s])]
    /\ part' = [part EXCEPT ![s] = [Unread EXCEPT !.name = manifestBundleName(s \in sid, s)]]
    /\ UNCHANGED <<sid, reg, bundle, count, saved, opens, clean>>

\* What the catalog that was read before does not know is left out.
ReadManifestBroken(s) ==
    /\ pc[s] \in {"ckpt", "closing"}
    /\ part[s].manifest = None
    /\ part' = [part EXCEPT ![s].manifest =
                   IF part[s].catalog = None THEN dir[s].meta.manifest
                   ELSE dir[s].meta.manifest \cap part[s].catalog]
    /\ UNCHANGED <<pc, dir, sid, reg, remote, bundle, objects, count, mark, saved, opens, clean>>

\* UploadManifestBundle reads the files one after another, in the order in
\* which the directory lists them.
ReadManifest(s) ==
    /\ pc[s] \in {"ckpt", "closing"}
    /\ part[s].manifest = None
    /\ part' = [part EXCEPT ![s].manifest = dir[s].meta.manifest]
    /\ UNCHANGED <<pc, dir, sid, reg, remote, bundle, objects, count, mark, saved, opens, clean>>

ReadCatalog(s) ==
    /\ pc[s] \in {"ckpt", "closing"}
    /\ part[s].catalog = None
    /\ part' = [part EXCEPT ![s].catalog = dir[s].meta.catalog]
    /\ UNCHANGED <<pc, dir, sid, reg, remote, bundle, objects, count, mark, saved, opens, clean>>

\* Where a store is when an upload has ended, and what its engine remembers.
EndUpload(s, ok) ==
    /\ pc' = [pc EXCEPT ![s] = IF @ = "ckpt" THEN "open" ELSE "down"]
    /\ sid' = IF pc[s] = "ckpt" THEN sid ELSE sid \ {s}
    /\ clean' = IF pc[s] = "closing" /\ ok THEN clean \cup {s} ELSE clean
    /\ part' = [part EXCEPT ![s] = Unread]
    /\ mark' = [mark EXCEPT ![s] = IF pc[s] = "closing" /\ ok THEN @ ELSE {}]

\* The object is created, or replaced, whole.
UploadOk(s) ==
    /\ pc[s] \in {"ckpt", "closing"}
    /\ part[s].manifest # None /\ part[s].catalog # None
    /\ bundle' = [bundle EXCEPT ![part[s].name] =
                    [iter |-> dir[s].meta.iter, manifest |-> part[s].manifest,
                     catalog |-> part[s].catalog]]
    /\ saved' = [saved EXCEPT ![s] = mark[s]]
    /\ EndUpload(s, TRUE)
    /\ UNCHANGED <<dir, reg, remote, objects, count, opens>>

\* A read or the upload fails: it is logged.
UploadFail(s) ==
    /\ pc[s] \in {"ckpt", "closing"}
    /\ EndUpload(s, FALSE)
    /\ UNCHANGED <<dir, reg, remote, bundle, objects, count, saved, opens>>

\* The process dies.
Crash(s) ==
    /\ pc[s] # "down"
    /\ pc' = [pc EXCEPT ![s] = "down"]
    /\ sid' = sid \ {s}
    /\ part' = [part EXCEPT ![s] = Unread]
    /\ mark' = [mark EXCEPT ![s] = {}]
    /\ UNCHANGED <<dir, reg, remote, bundle, objects, count, saved, opens, clean>>

\* The local directory is lost, or the node restarts on another host.
LoseDir(s) ==
    /\ pc[s] = "down"
    /\ dir[s] # EmptyDir
    /\ dir' = [dir EXCEPT ![s] = EmptyDir]
    /\ clean' = clean \ {s}
    /\ UNCHANGED <<pc, sid, reg, remote, bundle, part, objects, count, mark, saved, opens>>

-----------------------------------------------------------------------------
\* Whether the node registration gives the id of the store.
RecoveryStoreID(s) == s \in reg

\* The metadata that counts after DownloadManifestBundle, if there is a bundle
\* under the name RecoveryStoreID gives.
Downloaded(s) ==
    LET b == bundle[manifestBundleName(RecoveryStoreID(s), s)]
        m == dir[s].meta
    IN IF b # None /\ (m = None \/ b.iter >= m.iter) THEN b ELSE m

\* A store with data and no min version file (ErrorIfNotPristine).
NotPristine(s) ==
    LET m == Downloaded(s) IN
    m # None /\ ~dir[s].minver /\ (m.manifest # {} \/ dir[s].wal # {})

\* The MANIFEST names an object that the catalog does not know or that is gone.
\* It is Pebble (external) that refuses to open such a store.
ObjectMissing(s) ==
    LET m == Downloaded(s) IN
    m # None /\ ~(m.manifest \subseteq m.catalog \cap remote)

\* pebble.Open fails.
Refused(s) == NotPristine(s) \/ ObjectMissing(s)

\* The directory once the bundle is downloaded and the engine has started a
\* MANIFEST of its own; SetMinVersion writes the min version file.
Opened(s) ==
    LET m == Downloaded(s) IN
    [meta |-> IF m = None THEN [iter |-> 1, manifest |-> {}, catalog |-> {}]
              ELSE [m EXCEPT !.iter = @ + 1],
     wal |-> dir[s].wal, minver |-> TRUE]

\* NewPebble succeeds.
Open(s) ==
    /\ pc[s] = "down"
    /\ opens[s] < MaxOpens
    /\ ~Refused(s)
    /\ opens' = [opens EXCEPT ![s] = @ + 1]
    /\ dir' = [dir EXCEPT ![s] = Opened(s)]
    /\ sid' = IF RecoveryStoreID(s) THEN sid \cup {s} ELSE sid
    /\ pc' = [pc EXCEPT ![s] = "open"]
    /\ clean' = clean \ {s}
    /\ mark' = [mark EXCEPT ![s] = {}]
    /\ UNCHANGED <<reg, remote, bundle, part, objects, count, saved>>

\* NewPebble fails, after it has downloaded the bundle.
OpenRefused(s) ==
    /\ pc[s] = "down"
    /\ opens[s] < MaxOpens
    /\ Refused(s)
    /\ opens' = [opens EXCEPT ![s] = @ + 1]
    /\ dir' = [dir EXCEPT ![s].meta = Downloaded(s)]
    /\ UNCHANGED <<pc, sid, reg, remote, bundle, part, objects, count, mark, saved, clean>>

-----------------------------------------------------------------------------
\* A way of running stores under which the bundle keeps its promise.

\* Nobody changes the metadata files while a checkpoint reads them.
StillFiles(s) == pc[s] = "ckpt" => dir'[s].meta = dir[s].meta

\* The SSTables a bundle names are not deleted while it is the latest one.
KeepObjects ==
    \A n \in Names : bundle[n] # None => bundle[n].manifest \cap remote \subseteq remote'

\* A store that has an identity is registered before it goes down.
RegisterFirst(s) == pc'[s] = "down" /\ Ident(s) \in Contents(dir[s]) => s \in reg

\* The local directory survives.
KeepDir(s) == dir[s].minver => dir'[s].minver

Orderly == \A s \in Stores : RegisterFirst(s) /\ KeepDir(s)
Careful == Orderly /\ KeepObjects /\ \A s \in Stores : StillFiles(s)

-----------------------------------------------------------------------------
Step(s) ==
    \/ Flush(s) \/ Compact(s) \/ DeleteObsolete(s)
    \/ WriteIdent(s) \/ SetStoreID(s) \/ RegisterNode(s) \/ ClientWrite(s)
    \/ Checkpoint(s) \/ Close(s)
    \/ ReadManifest(s) \/ ReadCatalog(s) \/ UploadOk(s) \/ UploadFail(s)
    \/ Crash(s) \/ LoseDir(s) \/ Open(s) \/ OpenRefused(s)

Next ==
    /\ \E s \in Stores : Step(s)
    /\ orderly' = (orderly /\ Orderly)
    /\ careful' = (careful /\ Careful)

Spec == Init /\ [][Next]_vars

\* Careful but for one of its four conditions.
DeletingSpec == Init /\ [][Next /\ Orderly /\ \A s \in Stores : StillFiles(s)]_vars
BusySpec == Init /\ [][Next /\ Orderly /\ KeepObjects]_vars
UnregisteredSpec == Init /\ [][Next /\ KeepObjects /\ \A s \in Stores : StillFiles(s) /\ KeepDir(s)]_vars
MovingSpec ==
    Init /\ [][Next /\ KeepObjects /\ \A s \in Stores : StillFiles(s) /\ RegisterFirst(s)]_vars

-----------------------------------------------------------------------------
\* Stores at one URL share the bundle of stores without an id. None gets the
\* metadata of another one if there is no other, or as long as all are careful.
Unshared == careful \/ \A s, t \in Stores : s = t

\* No open is silently short: a store that is down and has its local directory
\* either does not open or has everything of its last completed upload. That takes
\* neither files that stand still while UploadManifestBundle reads them one by one
\* nor compactions that spare the SSTables a bundle names.
NoSilentLoss ==
    Unshared /\ orderly => \A s \in Stores : pc[s] = "down" /\ dir[s].minver /\ ~Refused(s) =>
        saved[s] \subseteq Contents(Opened(s))

\* Close uploads the final bundle "so the next open can reconnect to the
\* SSTables on remote storage": a store that was closed, whose upload
\* succeeded and whose id is registered, opens with exactly what it held.
CleanRestart ==
    Unshared => \A s \in clean \cap reg : ~Refused(s) /\ Contents(Opened(s)) = mark[s]

\* The same of every store, registered or not.
CleanRestartAlways ==
    \A s \in clean : ~Refused(s) /\ Contents(Opened(s)) = mark[s]

\* A running engine misses no object, whatever the other stores at its URL do.
AlwaysIntact ==
    \A s \in Stores : Running(s) =>
        dir[s].meta.manifest \subseteq dir[s].meta.catalog \cap remote

\* "If the process dies without a clean shutdown, the last periodic checkpoint's
\* manifest bundle limits data loss": a store that is down and has its local
\* directory can be opened, and has everything of its last completed upload.
LossIsLimited ==
    \A s \in Stores : pc[s] = "down" /\ dir[s].minver =>
        ~Refused(s) /\ saved[s] \subseteq Contents(Opened(s))

\* That holds for as long as files stand still during a checkpoint, bundled
\* objects are kept, stores register before they go down and directories survive,
\* wherever the crashes fall among the steps of flush, checkpoint and close.
CrashRecovery == careful => LossIsLimited

\* A store can be opened from its bundle in an empty directory.
EmptyDirRecovery ==
    \A s \in reg : pc[s] = "down" /\ dir[s] = EmptyDir => ~Refused(s)

\* A bundle is complete: the catalog it captures knows every object that the
\* MANIFEST it captures names.
BundleIsComplete ==
    \A n \in Names : bundle[n] # None => bundle[n].manifest \subseteq bundle[n].catalog

\* As long as the same conditions hold, stores implement DurableStore.
Durable == INSTANCE DurableStore WITH
    Writes <- Stores \X (0..MaxWrites),
    up <- {s \in Stores : pc[s] # "down"},
    view <- [s \in Stores |-> Contents(dir[s])],
    written <- [s \in Stores |-> Written(s)],
    kept <- saved

ImplementsDurableStore ==
    /\ Durable!Init
    /\ [][careful' => [Durable!Next]_(Durable!vars)]_vars
=============================================================================
