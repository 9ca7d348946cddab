# Ratel: TLA+ models and proofs

Ratel is CockroachDB with layers of its own around it: clusters whose identity,
certificates and membership live in an object store, an engine whose metadata is
checkpointed there, a `workerd` child process that serves JavaScript workers and
Durable Objects from SQL tables, and rows whose JSON columns are spread over
subordinate keys. The modules here are about those layers. The database below
them is taken as it is used: a serializable, atomic store.

## 1. Inventory

| Part | State | Operations | What makes it hard |
|---|---|---|---|
| workerd sidecar (`pkg/server/workerd_sidecar.go`) | `mu` (cmd, running, monitor, RPC and SQL ends, definitions), child processes | `Start`, `ReloadConfig`, `startProcess`, `stopProcess`, `monitor`, closer | the lock is released between fetch, stop and start; exits, cancellations and shutdown race |
| deploy API and catalog (`api_v2_workers.go`, `workers/deploy.go`) | `system.worker_versions`, assets | deploy, list | commit, then a reload that may fail or be overtaken; only the local node reloads |
| stopper (`pkg/util/stop`) | quiescing, tasks, closers | `RunAsyncTask`, `Quiesce`, `Stop` | new tasks are refused from some moment on |
| `ratel init`, `ratel join` (`pkg/cli/ratel.go`) | one invocation each, local store directories | liveness check, listing, id, certificates, server start, registration, heartbeat | plain reads and writes of an object store, by several hosts, with crashes in between |
| cluster id, node registry, certificates (`pkg/storage/cluster_id.go`, `node_registry.go`, `cluster_certs.go`) | objects under one URL | write, read, list | no compare-and-swap |
| manifest bundle (`pkg/storage/remote_metadata.go`, `pebble.go`) | bundle object, local metadata files, remote SSTables | checkpoint, upload at close, download at open | crash between flush and upload; bundle older than the objects |
| proxy and router (`workerd_proxy.go`, `workerd_router.go`) | semaphore, each node's liveness view | route, forward, serve | views differ between nodes |
| actor storage and SQL service (`pkg/server/actorstorage`, `workerd_actor_sql.go`) | KV keys per actor | get, list, put, delete, transaction | transaction operations are not transactional |
| actor registry (`pkg/sql/actor_registry.go`, `builtins.go`) | `system.actors`, rows under an actor's prefix | ensureActorExists, delete_actor | check outside the transaction that needs it |
| key encoding (`pkg/util/encoding`, `pkg/keys`) | none | encode, decode, row prefix, spans | order, spans and lengths at byte boundaries |
| range splits (`pkg/storage/mvcc.go`, `pkg/kv/kvserver`) | range descriptors | find a split key by size or load, split on request | the key must not fall inside a row; descriptors may be stale |
| subordinate rows, JSON pushdown, lazy JSON (`pkg/sql/row*`, `pkg/util/json`) | key/value pairs of a JSON value | encode, update a path, reassemble, match | many representations of one value |

The rest (replication, transactions, liveness, gossip, SQL, jobs) is inherited.
`PROJECT.json` lists every part with its status, every hazard at its line, and
the source lines of every definition.

How the parts interact: `init` and `join` start a server, whose boot sequence
starts the sidecar; the deploy API writes the catalog and reloads the sidecar;
the proxy asks the router where a request belongs and passes it to workerd; and
workerd's Durable Objects come back through the storage connection and the SQL
service the sidecar opened for that process. Under all of it a store keeps its
SSTables and metadata in the object store, rows are spread over subordinate keys,
and ranges are split between rows.

| Modules | Part |
|---|---|
| `WorkerdSidecar`, `SidecarService`, `WorkerdSidecarProofs` | sidecar; what it promises a node |
| `ClusterBootstrap`, `ClusterBootstrapProofs` | init and join |
| `ManifestBundle`, `DurableStore`, `ManifestBundleProofs` | manifest bundle; what it promises of a store |
| `WorkerRouting`, `WorkerRoutingProofs` | proxy and router, on several nodes, composed with `SidecarService` |
| `ActorRegistry`, `ActorRegistryProofs` | actor registry |
| `KeyEncoding`, `KeyEncodingProofs`, `KeyOrder`, `KeyOrderProofs` | keys, byte by byte; their order against the tree they encode |
| `RangeSplit`, `RangeSplitProofs` | range splits, on the keys of `KeyEncoding` |
| `JsonValue`, `JsonColumn`, `SubordinateJson` | JSON documents; the column SQL promises; the column as stored |

Each `MC...` module instantiates one of them for TLC. The lines the definitions
translate are a small part of the repository, some 4,700 of 1.7 million: nearly
all of it is inherited from CockroachDB, and these modules are about what was
added to it.

## 2. WorkerdSidecar

One thread per goroutine: the boot sequence, the deploy handlers, one monitor
per process, the closer. `pc` says where each is. The processes themselves are
actors: a process exits when it likes, or some time after a signal.

| Model | Code |
|---|---|
| `cmd` | `mu.cmd`, with `running`, `cancelMon`, `waitDone` and `workerDefs`, which change with it |
| `lock` | `mu`, where a call waits or starts a process while holding it |
| `open` | the parent's ends of a process: storage RPC connection and SQL server |
| `cancelled` | contexts of the monitors |
| `catalog`, `got`, `cfg` | definitions: committed, fetched by a call, given to a process |
| `overtaken` | history: calls between fetch and registration that another one has passed with a registration |
| `FetchOk`, `FetchFail` | `fetchWorkerDefs` |
| `StopLocked`, `SignalTerm`, `StopTimeout`, `StopDone` | `stopProcess`, split at the unlock and at each wait |
| `SpawnFail`, `Spawn`, `SpawnNoConn`, `Register`, `RegisterRefused`, `Reap` | `startProcess`, split at the start of the process, at `RunAsyncTask` and at the wait for a refused process |
| `MonitorQuit`, `MonitorExit`, `MonitorCheck` | the two selects of `monitor` |
| `Quiesce`, `RunClosers` | `Stopper.Stop` |

`Stopper.Quiesce` waits for tasks for a bounded number of rounds, so the closers
may run while a monitor is still at work.

### Runs

| Run | Specification | Shows |
|---|---|---|
| `sidecar` | `FairSpec` | in every schedule: only a crashed process is restarted, an unsignalled process is supervised, a process told to stop has lost its storage connection, shutdown is final, only an overtaken call goes back to older definitions (`OnlyOvertakenGoBack`); the sidecar implements `SidecarService`; every call returns; shutdown completes |
| `sidecar_serial` | `SerialSpec` | when calls do not overlap: one workerd, none left after shutdown |
| `sidecar_health` | `Spec` | violated: a failed restart leaves `IsRunning` true |

The violation is a disagreement with a comment in the code, which `PROJECT.json`
quotes under "findings"; section 9 lists the others. `SerialSpec` adds one
condition to `Spec`: no two calls are inside the sidecar at once. It is what a
mutex held over a whole reload, restart or stop would give.

`SidecarService` is the sidecar as the rest of a node sees it: definitions it
answers `WorkerHasDOs` from, definitions it is starting a process with, and
definitions that some live process runs. Only committed definitions are started,
the answers come from the process started last or from none, and processes end
at any time. `ImplementsService` maps `cmd`, the process of the call that holds
`lock`, and the live processes to them. `WorkerRouting` is built on
`SidecarService`.

Bounds: `sidecar` has one handler with two deploys, the boot and two processes, so
a reload can meet the boot, a restart and a shutdown, with a newer and an older
version; liveness is checked without symmetry. Its safety properties are proved
for any numbers. `sidecar_serial` has two handlers and three processes. When the
processes are used up a start can only fail, which the code allows at any time.

Fairness: goroutines are scheduled and a mutex is eventually obtained
(`WF` of each thread's steps and each monitor's); a process that received
SIGKILL or SIGINT exits. A process that received SIGTERM need not exit, which is
the reason for the timeout in `stopProcess`. That an interrupted process exits is
an assumption the code makes, too: it waits for one without a timeout.
Deploys, crashes and the shutdown itself are not fair.

### Proofs (`WorkerdSidecarProofs`)

For any sets of handlers and processes and any number of deploys:
`TypeCorrect`, `RestartOnlyAfterCrash`, `Supervised`, `CutOff`, `ShutdownFinal`,
`OnlyOvertaken` and the refinement `ImplementsServiceHolds` from `Spec`;
`SerialOneWorkerd` and `SerialShutdown` from `SerialSpec`. Assumptions: the names of threads, processes and None are distinct
(`ThreadsDistinct`) and the bounds are naturals (`BoundsAssumption`).

The properties are not inductive alone. `IInv` adds what ties the actors
together: a process not yet started has no monitor (`UnbornInv`); a call between
start and registration holds the lock and nobody else knows its process
(`StartInv`); a stop cancels before it signals (`StopInv`), so a signalled
process has a cancelled monitor or none (`SignalledInv`), hence a monitor that
passes its second check has seen a crash; a cancelled process still up is about
to be signalled (`CancelInv`); and the closer runs only while quiescing, when
registrations are refused (`CloserInv`). `OnlyOvertaken` also needs `VersionInv`: what
a call has fetched is not older than any process that has served, from its fetch on
and until another call registers.

The refinement goes action by action. It needs that the lock is held across steps
only by a call between start and registration, which is what makes the process of
that call the one `SidecarService` is starting, and that this process was given
definitions that were deployed and are not empty (`ServiceInv`). A crash, a
cancelled monitor and a stop are then exits or unregistrations of the service, and
all steps before the lock is taken are none of its steps.

`SerialInv` adds that a live process is
current or in the hands of the one call in progress (`LiveInv`), and where each
thread may be while `cmd` is set (`BootInv`, `StarterInv`, `RestartInv`).

## 3. ClusterBootstrap

Invocations of `ratel init` and `ratel join` with their `--node-id` and host,
interleaved at every call to the object store. `Exit` ends an invocation
anywhere: a failed call, a signal or a crash. Objects are replaced whole, as S3
does. A cluster id, a CA and a cluster are named by the invocation that made
them, so a mixture of two shows up as two names.

| Model | Code |
|---|---|
| `clusterId`, `reg`, `certs` | objects `cluster-id`, `node-<id>.json`, and the four certificate files |
| `disk` | `ratelLocalDir(uuid)/store` on each host: the cluster that store belongs to |
| `CheckNodeLiveness` | `checkNodeLiveness` |
| `InitListNodes`, `WriteClusterID`, `CertsExist`, `UploadCert`, `DownloadCert` | `runRatelInit` |
| `ReadClusterID`, `JoinListNodes`, `DownloadCert` | `runRatelJoin` |
| `PreviousRegistration`, `StartServer`, `RegisterNode`, `Heartbeat` | `ratelStartServer`, `runHeartbeat` |
| `Expire` | 60 seconds without a heartbeat |
| `Reachable` | external: which cluster a CockroachDB server ends up in, given its store, the recovered store id, or the peers that answer and share its CA |

### Runs

| Run | Specification | Shows |
|---|---|---|
| `bootstrap` | `InitAloneSpec`, TLS | one cluster and one CA per URL, and a stable cluster id, through failures and crashes |
| `bootstrap_patient` | `PatientSpec`, no TLS | no two servers with one node id |

The two disciplines are ways of using the commands under which the properties
hold. `InitAlone`: nothing else is being started while an init is; it is not
enough to keep inits apart, because a join that read the id of an abandoned
init can bring that cluster back from its local store. `Patient`: a command is
given when every running server has written a heartbeat, and heartbeats keep
reaching the store.

Bounds: two node ids and two hosts, so that ids and hosts can both clash or
differ; three invocations with TLS (an init that dies, an init, a join) and four
without (two servers, and two restarts), where the certificate steps do not
multiply the states. Deadlock is not checked: the invocations are finitely many
and the system stops when they have ended.

### Proofs (`ClusterBootstrapProofs`)

For any number of invocations, node ids and hosts, with and without TLS:
`TypeCorrect` from `Spec`; `OneClusterPerURL`, `StableIdentity`, `OneCAPerURL`
from `InitAloneSpec`; `PatientNoDuplicate` from `PatientSpec`. Assumptions: None
is not an invocation or a registration (`NoneAssumption`), TLS is a Boolean
(`TLSAssumption`).

`AloneIInv` says that an init in flight is alone (`AloneInv`), that past its
listing nothing is registered (`FirstInv`), and that ids, recovered stores,
local stores and memberships agree with the id under which they were made
(`UuidInv`, `RecInv`, `DiskInv`, `MemberInv`). The last ones carry `OneCluster`
over a restart: a store directory is named by the cluster id, so what it holds
can only be that id's cluster. `CAIInv` follows the download: what a command has
of `ca.crt` is what is stored, and a node certificate is only made when key and
certificate match. `PatientIInv`: one invocation at a time is short of its first
heartbeat, and a beating server's registration is fresh.

## 4. ManifestBundle

A store is a local directory (metadata files, write-ahead log, minimum version
file), its SSTables and bundles in the object store, and an engine that is down,
open, in a checkpoint or closing. A write is its store and its number; MANIFEST
and object catalog are the sets of objects they name.

| Model | Code |
|---|---|
| `Flush`, `Compact`, `DeleteObsolete`, `Commit` | external: what Pebble does to its files |
| `WriteIdent`, `SetStoreID`, `RegisterNode` | `InitEngine`, `SetStoreID`, the node registration |
| `Checkpoint` | `runManifestCheckpoint`: flush, then upload |
| `ReadManifest`, `ReadCatalog`, `UploadOk`, `UploadFail` | `UploadManifestBundle`, which reads file after file |
| `Close` | `Pebble.Close`: the flush may fail, the upload happens in any case |
| `RecoveryStoreID`, `Downloaded` | the node registration read at the start, `DownloadManifestBundle` |
| `Open`, `OpenRefused`, with `NotPristine` | `NewPebble` and its check of the minimum version file |
| `ObjectMissing` | external: Pebble refuses a MANIFEST that names an object it cannot find |
| `Crash`, `LoseDir` | a process that dies; a directory that is lost, or another host |
| `mark`, `saved`, `clean`, `orderly`, `careful` | history: what an upload covers; what the last one covered; closed with an upload; no step has broken `Orderly`, or `Careful`, so far |

The run `bundle` checks, in every schedule of one store, that a registered store
that was closed opens with exactly what it held (`CleanRestart`), and that a store is
refused rather than opened with less than its last completed upload covered
(`NoSilentLoss`), also when files changed while the upload read them or objects are
gone. Nothing compares a bundle with what was uploaded before: this rests on the order
of the uploads, on the iteration number by which `DownloadManifestBundle` chooses, on
the name under which a bundle is looked up, and on Pebble's refusal
(`ObjectMissing`). It holds while two conditions do (`Orderly`): a store registers
before it goes down, and its directory survives.

Stores of one URL share the bundle of stores without an id, so with several of them
these properties hold while all are careful (`Unshared`); otherwise a new store can
get the metadata of another one (`MCBundleShared`).

The comment on the checkpoint interval promises more: after a crash a store opens, and
is back at least at its last checkpoint. That takes two conditions more (`Careful`):
files stand still during a checkpoint, and objects a bundle names are kept.
`CrashRecovery` and the refinement `ImplementsDurableStore` say so: up to the first
step that breaks a condition, every step is one of `DurableStore`, whose stores lose at
a restart only what came after the last checkpoint. `MCBundleTorn`, `MCBundleDeleted`,
`MCBundleLegacy` and `MCBundleEmptyDir` leave the conditions to the program one at a
time.

Bounds: one store, its identity and two writes, two SSTables (one replaced by a
compaction, or two flushes), three opens (first start, restart, restart after the
restart). More stores, and the other numbers, are left to the proofs. Deadlock is not checked: writes,
objects and opens are used up.

### Proofs (`ManifestBundleProofs`)

For any sets of stores and numbers of writes, objects and opens, from `Spec`:
`NoSilentLossHolds`, `CleanRestartHolds`, `CrashRecoveryHolds`, and
`ImplementsDurableStoreHolds`, that every step taken up to the first careless one
is a step of `DurableStore` or none. Assumption: `None` is no metadata file
(`NoneIsNoFile`).

`BaseInv` is what holds of a store whatever the others do: one that runs has its
directory, `Close` uploads what it has flushed under the store's id, and after it
bundle and directory agree. What a running engine reads is intact for one of two
reasons. A store alone at its URL is the only one to delete objects, and deletes
none that it names (`IntactInv`). Stores that share a URL and are careful have
objects of their own (`OwnInv`), because the bundle they have in common names none
(`IdInv`, `LegacyInv`); an upload in progress has read the files as they still are
(`PartInv`); and what the last one covered comes back with its bundle
(`SavedInv`), which carries `CrashRecovery` over a crash between any two steps.

`NoSilentLoss` has its own argument, because without `Careful` the files move during an
upload and bundles name objects that are gone. `LossInv` says, of an orderly store
alone at its URL, that its local metadata is never older than its bundle (`HomeInv`);
that a store which would be opened without its id has nothing in an SSTable yet, so
that the shared bundle it would get hides nothing (`BareInv`); and that what a
checkpoint flushed stays in every later MANIFEST, so that it is in the one the upload
reads, whenever it reads it (`LoadInv`). All were checked by TLC before they were proved.

## 5. WorkerRouting

Several nodes, each with its own liveness view and its own sidecar
(`SidecarService`), and requests, each with a handler on the node the client
reached and, once forwarded, one on the target.

| Model | Code |
|---|---|
| `Arrive`, `CheckDOs` | `handleWorkers`, `WorkerHasDOs`, the first conditions of `routeRequest` |
| `hdr` | the header `X-Ratel-Forwarded`, which `Forward` sets, or the client |
| `PickLocal`, `PickUnresolved`, `Forward`, `ForwardFail`, `pickNode` | `routeRequest`, `pickNode`, with `rendezvousHash` as a table |
| `Acquire`, `Finish`, `Timeout`, `Relay` | the semaphore, the local proxy, the request's context, the remote proxy |
| `SidecarStep`, `Deploy` | `SidecarService`, per node |
| `ViewChange`, `Crash`, `Restart` | external: liveness; a node that dies with its handlers |

`routing`: a node's semaphore counts exactly the handlers in its local proxy and
stays within the limit, through timeouts, broken invocations and crashes.
`routing_live`: every request is answered (`RequestsEnd`); once views agree,
addresses are known and sidecars have the deployed definitions, the requests of a
worker with Durable Objects all run on one node (`Settles`), the live one with the
highest hash (`PickIsHighest`). Requests that a client sent with `X-Ratel-Forwarded`
are `Pinned`: `routeRequest` serves them where they arrive, whatever the worker, and
`ConsistentOwner`, `SingleWriter` and with them `Settles` speak of the others. Before that two nodes may run one worker's objects:
`MCRoutingFlapping` and `MCRoutingReload`.

Fairness: handlers are scheduled, and neither the sidecar's mutex nor the
semaphore's channel starves a waiter (`SF`, since both are taken and released in
between); invocations are answered; a start of workerd ends, which is
`CallsReturn` of the sidecar. Timeouts, crashes and view changes are not fair.

Bounds: two nodes with a slot each; two requests for one worker in `routing`, so
that they compete for a slot, with any number of crashes; one in `routing_live`, without crashes, where views and
sidecars change for ever (so `RequestsEnd` does not have two requests compete for a
slot: that slots come back is `SlotsAccounted`). Two nodes have every pair of different views.

### Proofs (`WorkerRoutingProofs`)

For any number of nodes, finite set of requests, hash and limit
(`RoutingConstants`): `SlotsAccountedHolds`, `PickIsHighestHolds` and
`LeastDisruptionHolds` from `Spec`, and `SteadyOwner` from `SteadySpec`.

`SlotsAccounted` needs that a request is forwarded once at most (`RoutedOnce`):
a second handler that started again while it holds a slot would leave the count
wrong. The count is the cardinality of the set of handlers in the proxy, and each
action adds or removes one handler of one node.
`PickIsHighest` is an induction over the turns of the loop in `pickNode`: after
turn i the best node is the highest of the first i that are live, the first one if
several are. `SteadySpec` starts without requests in a cluster that agrees
(`Informed`) and has no deploys, crashes or changes of views; there the invariant
is that a first handler, unless it is pinned, stays only on the common owner, and that
a second one was sent there.

## 6. ActorRegistry

Sessions run transactions of INSERTs, UPSERTs and `delete_actor` calls over the
serializable store, which is modelled by its locks.

| Model | Code |
|---|---|
| `BeginWrite`, `EnsureFast`, `EnsureCreate`, `EnsureCollision`, `Write` | insert and upsert nodes, `ensureActorExists` with its lookup and its transaction |
| `BeginDelete`, `DeleteActor` | `crdb_internal.delete_actor` |
| `NameLock`, `HashLock`, `RowLock`, `WaitsFor` | external: locks of the store |
| `Deadlocked` | the cycle check of `waitForPush` |
| `Commit`, `Abort` | end of the client's transaction |

`registry` checks that an actor with rows is registered (`RegistryIsTruth`) and that
one prefix has rows of one actor (`PrefixIsOwned`), although two names have the same
hash. Both hold up to the first moment at which a transaction deletes an actor while
another, or itself, writes to one with that hash: the history variable `apart` says
whether `Apart` has held so far. `MCRegistryRace` shows what happens afterwards.

`StatementsEnd` does not assume `Apart`. Writes wait for deletions that are not
committed, deletions for writes, the lookup of `ensureActorExists` for both, and every
statement ends nevertheless if nothing follows a deletion in its transaction
(`DeletesLast`). Otherwise the lookup waits for the very transaction it serves
(`MCRegistryHang`).

Fairness: statements go on when they can, clients between statements commit, and
the store aborts a transaction of a cycle that it can see. It cannot see that a
client waits for the lookup, which runs in a transaction of its own.

Bounds: two sessions, three actors two of which collide, two statements to a
transaction (a write or deletion and another one, so that transactions can wait
for each other in a cycle). Of the actors only one that collides is ever deleted
(`Deletable`), which leaves a deletion against writes to it, to the actor it collides
with and to an unrelated one.

### Proofs (`ActorRegistryProofs`)

For any sessions, names, hash function and number of statements: `TypeCorrect`
`RegistryTruth` and `PrefixOwned` from `Spec`. `IInv` adds, while `apart` is true, that
registered actors have different hashes (`HashesUnique`), that what a session has
written or is about to write belongs to a registered actor (`WritesRegistered`),
and that a deleted registry row takes the actor's rows with it (`DeletesWhole`).
With these, a commit cannot unregister an actor that has rows: the rows are
deleted in the same transaction, and `Apart` keeps others from adding any.

## 7. KeyEncoding, KeyOrder, RangeSplit

`KeyEncoding` translates varints, escaped bytes, column family keys, subordinate
path keys, actor and Durable Object prefixes, `GetRowPrefixLength` and
`EnsureSafeSplitKey`, byte by byte: order and spans are what is at stake.
`KeyOrder` compares every two of a set of keys (`key_order`): keys sort like the
tree of rows, columns and paths, the span of a path is its subtree, decoding
inverts encoding, the row prefix is the row, and the span deleted with a row holds
its subordinate keys and no other. The set has names that are prefixes of each
other or hold zero bytes, and indexes and column ids at the boundaries between
varint widths, and a path whose suffix has 109 bytes, the longest whose length takes
one byte.

`RangeSplit` puts writes, deletions and splitters side by side: a splitter reads a
descriptor, chooses a key by size (`MVCCFindSplitKey`), by load
(`MVCCFirstSplitKey`) or as requested, and then runs the split transaction, which
gives up if the descriptor has changed. A search starts after the range-local keys
(`ClampedStart`) and skips keys inside a span that is never split (`NoSplitSpans`:
meta1, the end of meta2, liveness). `split` checks that no row has keys in two
ranges, that ranges cover every key once, that a chosen key leaves keys on both
sides, and that a range is split by size if all its keys parse as row keys and one
that may be split at is of another row than the first (`LargeRangesSplit`). The
condition is needed: `EnsureSafeSplitKey` fails on the key of a Durable Object, and
another key is not tried (`MCSplitObjects`). Sizes are left out: any key past the
minimum may be the one nearest to the middle. No key is range-local (`NotRangeLocal`).

Bounds: two overlapping splitters; two liveness records, the key of a Durable Object, a
row with one key, a row with a JSON node and a row of an actor. Actor hashes have
two bytes instead of 16. `MCKeyOrderLong`, `MCSplitActor`, `MCSplitObjects` and
the variations of `MCSplit` in section 9 have other keys.

### Proofs (`KeyEncodingProofs`, `KeyOrderProofs`, `RangeSplitProofs`)

For keys of any length: `KeysAreOrdered` (the order of bytes is a strict total
order), `NoneBetween` (appending a zero byte gives the next key) and
`SpanIsPrefix` (the span that ends at `PrefixEnd` holds the keys with the prefix
and no other). A key is less than another because it is a proper prefix of it or
because the first byte in which they differ is less (`Below`). The second stays true
when either key is made longer. This is the reason why keys sort as their rows do
when no row is a prefix of another. `NumbersDecode`, `NamesDecode` and `PathsDecode`
say that the decoders undo the encoders: a number or a byte string is read back
whatever follows it, and a path up to its end mark.

For any set of entries, from `Spec` of `KeyOrder`: `KeysSortLikeTreeHolds`,
`SubtreeIsSpanHolds`, `RowDeleteTakesSubsHolds`, `RowPrefixIsRowHolds` and
`KeysDecodeHolds`, that is, every property of the run. They cover paths of any
depth, names of any length with any bytes, and every varint width that `KeyEncoding`
has. `EntriesAssumption` says what an entry is: numbers are below 2^31, column ids
start at 1, a header occurs only at the start of a path, and no row is a prefix of
another row. The last is what self-delimiting columns give the keys of an index, and
it is assumed, not proved, because the encoding of columns is not modelled.
`RowPrefixIsRowHolds` and `KeysDecodeHolds` also assume `ShortSuffixes`: a row names
its table and index, and a suffix has at most 109 bytes. Section 9 shows what
happens with longer ones. TLC evaluates both for the entries of `key_order`.

These properties speak of constant data, so the invariant is only that the two
entries are members of the set; the work is in the encodings. It goes up the layers
of a key. `UvarintBelow`: of two numbers the lesser is `Below`, by its first byte if
the widths differ and by the most significant digit that differs otherwise
(`DigitsBelow`). `BytesBelow`: the same for names, because the terminator is below
every escaped byte, a zero byte's too. `SegmentBelow` joins them under the kind.
`PathBelow` finds the first segment in which two paths differ; where one path ends,
its end mark is below every segment but a header (`EndBelow`), which is why a
header must not follow. `BeforeLess` carries this to whole keys. Since `Before` is
total (`BeforeTotal`) and keys are strictly ordered, the equivalence follows
(`LessIsBefore`). A concatenation of many parts is a fold, whose intermediate
results `PartsExist` gives by way of `UpTo` (section 10). The span of a subtree then
follows from `SpanIsPrefix`, and the span of a deleted row from the order against two
entries that stand for its ends (`DeletedSpanIs`).

Decoding starts from the loops. The decoders of names and paths are functions of the
position that refer to themselves at later positions; that there is such a function
is `LoopExists`, for any step that only looks ahead; `NameLoop` and `SegmentLoop`
apply it. What the function is at each position then follows
from the end of the encoding backwards, one byte (`NamesDecode`) or one segment
(`SegmentStep`, `PathsDecode`) at a time. `GetRowPrefixLength` finds the row
(`RowFound`), the rest of a key regroups into column, path, end mark and length
(`SubKeyParts`), and the three parts are read back (`SubDecodes`). A family's key has
its number where a subordinate key has a zero, or ends there (`FamilyIsNotSub`).

For any rows, splitters and sampled keys, from `Spec`: `RowsStayWholeHolds`,
`RangesTileHolds`, `SplitsDivideHolds` and `LargeRangesSplitHolds`. All assume
`KeysOfRows` of the constants: a row is a prefix of its keys, and
`EnsureSafeSplitKey` finds it from each of them or fails; no row is a prefix of another,
a key of no table is a row of its own, and a requested split key does not fall inside a
row. TLC evaluates it for the keys of the run `split`. It is what the encoding
promises, and it is false where section 9 has a counterexample: with a suffix longer
than 109 bytes. From the key of a Durable Object `EnsureSafeSplitKey` finds no row,
which `KeysOfRows` allows and `LargeRangesSplit` excludes.

The invariant `Inv` says that the bounds of every range, and the key of every attempt
between its choice and its transaction, separate no two keys of a row; that this key
is strictly inside the descriptor that was read; and that every key is in one range
(`Tiled`), which the transaction keeps because the descriptor is still there.
`SplitsDivide` and `LargeRangesSplit` follow from where the minimum split key lies: a
key at or after it is of a row after the first (`PastFirstRow`), and the keys of
every such row are at or after it (`LaterRowFound`).

## 8. JsonValue, JsonColumn, SubordinateJson

The JSON column of one row is stored twice, as a document in the row's tuple and
as an entry per node. `SubordinateJson` has both, whole-row statements
(`InsertRow`, `UpsertFetched`, `UpsertBlind`, `UpdateRow`, `UpdateOther`,
`DeleteRow`) and direct mutations (`Mutate`, with the local path of each kind of
mutation in `tryApplyLocalSubordinateJSONMutation` and the fallback that reads and
rewrites the column; `MutateNull` for a NULL operand). A direct mutation that deletes a
subtree decodes the path of each key it finds there and panics when it cannot; paths
are taken to be short enough for that, which `KeysDecode` shows of suffixes of up to 109
bytes. `Read` is what a query
reassembles. `JsonColumn` is the column as SQL has it, one value;
`JsonValue` has the documents and the evaluation of a mutation on a whole one.

`json` checks that counts in containers match their children (`CountsMatch`),
that a document in the tuple has entries (`InlineHasEntries`), and that each
statement does to the stored column what the same statement does to
`JsonColumn`'s value (`ImplementsJsonColumn`), for columns with and without
NOT NULL. `CarefulSpec` leaves out four kinds of statement, which `BlindSpec`,
`DeleteSpec`, `NullSpec` and `ClearSpec` put back.

Bounds: documents of up to three nodes, columns of up to four entries, 18
mutations whose cases differ (a key that is there or not, with children or
without; an index inside the array, at its end, negative; paths through objects,
arrays and scalars). The number of entries bounds a state, not the number of
statements: sequences have any length.

## 9. Counterexamples

Each configuration below, some of them a run's configuration with the changes
named, leaves the program one thing that the passing runs
assume, and TLC finds the property violated. The quoted line is what the code, a
comment or a test says.

| Configuration | Property | What happens | Says otherwise |
|---|---|---|---|
| `MCSidecarStale` | `NewestIsServed` | a call that fetched before a deploy registers its process after it (`workerd_sidecar.go:191`) | `api_v2_workers.go:71` "so the new worker is available" |
| `MCSidecarOrphan` | `ShutdownLeavesNoProcess` | the second of two starts overwrites `mu.cmd`; the first process outlives shutdown (`workerd_sidecar.go:323`) | `workerd_sidecar.go:121` "Always register a closer so stopProcess runs on shutdown" |
| `MCBootstrapTwice` | `OneCluster` | two inits at once both find no node (`ratel.go:320`) | `ratel.go:319` "Check that cluster is not already initialized." |
| `MCBootstrapDup` | `NoDuplicateNode` | a node id is used twice before the first heartbeat (`ratel.go:481`) | `ratel.go:314` "Check for duplicate running node" |
| `MCBootstrapCerts` | `CertsWhole` | an init dies between uploads; the partial set passes for a whole one (`cluster_certs.go:342`) | `ratel.go:345` "if not already present" |
| `MCBundleDeleted` | `LossIsLimited` | a compaction's input, named by the last bundle, is deleted; after a crash the store does not open (`pebble.go:1163`) | `pebble.go:86` "limits data loss to writes since that checkpoint" |
| `MCBundleTorn` | `BundleIsComplete` | MANIFEST and catalog are read at different moments (`remote_metadata.go:75`) | `remote_metadata.go:60` "everything needed to reopen the DB" |
| `MCBundleLegacy` | `CleanRestartAlways` | a store closed before its node registered looks under another name (`pebble.go:1156`) | `pebble.go:1464` "so the next open can reconnect" |
| `MCBundleShared` | `AlwaysIntact` | a second store without an id opens with the bundle of the first, which goes on deleting the objects it names (`remote_metadata.go:35`) | `remote_metadata.go:31` "returns the object name for a store's manifest bundle" |
| `MCBundleEmptyDir` | `EmptyDirRecovery` | no minimum version file comes with a bundle, and the open is refused (`pebble.go:1215`) | `open.go:204` "typical on an empty local dir" |
| `MCRoutingFlapping` | `SingleWriter` | the owner moves while a request runs on the old one (`workerd_router.go:105`) | `workerd_router.go:33` "to ensure single-writer semantics" |
| `MCRoutingReload` | `ConsistentOwner` | during a reload a worker looks stateless and is served locally (`workerd_proxy.go:127`) | `workerd_proxy.go:44` "routed to a consistent node" |
| `MCRegistryRace` | `Registered` | an actor is deleted between lookup and write (`actor_registry.go:55`) | `actor_registry.go:31` "the single source of truth for actor existence" |
| `MCRegistryHang` | `EveryStatementEnds` | the lookup waits for the lock of the transaction it serves (`actor_registry.go:55`) | `actor_registry.go:38` "without acquiring any locks" |
| `MCKeyOrderLong` | `RowPrefixIsRow` | a suffix longer than 109 bytes has a length of two bytes, of which one is read (`subordinate.go:74`) | `subordinate.go:63` "This makes GetRowPrefixLength work correctly" |
| `MCSplit` with `LongEntries`, `NoKeys`, one splitter | `RowsStayWhole` | the same, and a range is split inside the row (`keys.go:961`) | `mvcc.go:5890` "we must never return a split key that falls within a table row" |
| `MCSplit` with `TwoNodes`, `TableStart`, `AfterSentinel`, one splitter | `FirstSplitNotBelow` | the key found is cut back to before the desired one (`mvcc.go:6025`) | `mvcc.go:5979` "No less than desiredSplitKey" |
| `MCSplitActor` | `ActorsStayWhole` | a range is split inside an actor (`replica_command.go:390`) | `actor_test.go:332` "cannot split actor range at interior key" |
| `MCSplitObjects` | `EveryLargeRangeSplits` | a range that starts with a Durable Object's key has no split key (`mvcc.go:5959`) | `actor_registry.go:42` "The split queue handles splitting at actor boundaries" |
| `MCJson` with `BlindSpec`, `MaxNodes = 5` | `ImplementsJsonColumn` | a blind UPSERT leaves entries of the old document (`tablewriter_upsert_opt.go:179`) | `insert.go:355` "it is not necessary to fetch existing rows" |
| `MCJson` with `DeleteSpec`, `MaxNodes = 5` | `DeletionsAgree` | the NOT NULL check refuses a direct deletion (`update.go:288`) | `subordinate_json_update_test.go:64` expects a direct mutation, for the NOT NULL column of line 104 too |
| `MCJson` with `NullSpec`, `MaxNodes = 5` | `NoMissingNode` | a direct mutation of a NULL column fails (`subordinate_json_mutation.go:121`) | `subordinate_builders.go:139` asserts "missing subordinate JSON node value" never happens |
| `MCJson` with `ClearSpec`, `MaxNodes = 5` | `InlineHasEntries` | a NULL operand deletes the entries and leaves the tuple (`subordinate_json_mutation.go:154`) | `fetcher.go:1950` asserts that no document is in the tuple alone |

## 10. What is proved and what is only model-checked

Proved for all values of the constants: the safety properties of
`WorkerdSidecar`, `ClusterBootstrap`, `ManifestBundle`, `WorkerRouting`,
`ActorRegistry`, `RangeSplit` and `KeyOrder` that passing runs check, and the
refinements of `SidecarService` and `DurableStore` (sections 2 to 7). Their inductive
invariants were model-checked before they were proved.

The proof library's induction rules take a predicate as a parameter, which the
provers cannot instantiate. The proofs use its theorem on well-founded relations
instead, that a set of numbers has a least element (`LeastNat`, `UpTo`).

Only model-checked: liveness (`CallsReturn`, `ShutdownCompletes`, `RequestsEnd`,
`Settles`, `StatementsEnd`), which rests on fairness, out of the proof system's
reach; JSON documents, whose operators are recursive, which the proof system does not
support, and with them the refinement of `JsonColumn`; and the counterexamples.

Definitions whose names end in `Broken` are defective variants of the definitions
they precede, used to see that each property does fail when the code is wrong.

To repeat: `tlc -config MCSidecar.cfg MCWorkerdSidecar`, and so on for each
configuration (`PROJECT.json` names the module of each run; the configurations of
section 9 go with the module of the same prefix); `tlapm WorkerdSidecarProofs.tla`,
and so on for each module whose name ends in `Proofs`. A run takes between seconds
and three minutes, the proofs of a module up to twenty minutes.

## 11. Not modelled

Inherited CockroachDB, which is nearly all of the repository: replication,
transactions, liveness, gossip, SQL, jobs. They are used as a serializable store
with locks, and as views that change at any time.

Actor storage (`pkg/server/actorstorage`): its operations are single KV calls under
the prefix of an object, and commit and rollback of its transactions do nothing on
purpose, because workerd's own cache, which is not in the repository, gives them
their meaning. The actor SQL service, JSON matchers and lazy JSON values keep no
state between calls. Array columns are encoded like arrays in a document, and only
`KeyOrder` has their keys. Also left out: generated code; binary extraction;
formatting of the workerd configuration; encryption of the CA key; bucket probing
beyond its success or failure; `ratel deploy`, `ratel sql` and `start-local`; merges
and the load statistics of ranges. Objects in a `file://` store are taken to be
replaced whole, which a crash can falsify.

## 12. Plan

1. The encoding of key columns, from which it follows that no row is a prefix of
   another, and `KeysOfRows` of `RangeSplit` for short suffixes.
2. **Stopper** on its own, with the sidecar's use of it shown to be an instance.
3. **WorkerDeploy**: versions and assets in one transaction with retries.
4. Array columns in `SubordinateJson`, and the matchers as operators checked
   against whole values.
