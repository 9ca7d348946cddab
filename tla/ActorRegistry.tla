--------------------------- MODULE ActorRegistry ---------------------------
(***************************************************************************)
(* The actor registry: sessions that write to actors, which calls          *)
(* ensureActorExists first (pkg/sql/actor_registry.go, called by insert,   *)
(* fast-path insert and upsert), and that delete actors                    *)
(* (crdb_internal.delete_actor, pkg/sql/sem/builtins/builtins.go).         *)
(*                                                                         *)
(* Abstractions:                                                           *)
(*  - each session writes a row of its own in an actor: <<name, session>>; *)
(*    rows are stored under the hash of the actor's name;                  *)
(*  - the transactional KV store (external) is serializable. A row that a  *)
(*    transaction has written or deleted is locked until it ends; others   *)
(*    that read or write it wait. A point lookup without a transaction     *)
(*    waits for every lock, that of the caller's own transaction included, *)
(*    since it runs in a transaction of its own. A transaction reads the   *)
(*    latest committed rows: the store moves its timestamp when it must;   *)
(*  - the transaction of the slow path is one step, since it touches one   *)
(*    row and commits, and so are the two deletions of delete_actor, which *)
(*    are made at one timestamp.                                           *)
(***************************************************************************)
EXTENDS Naturals, FiniteSets

CONSTANTS
    Sessions,
    Names,     \* actor names
    Hashes,
    Hash,      \* ActorHash
    None,
    Deletable, \* the actors that clients may delete
    MaxStmts   \* bound on the statements of a transaction

ASSUME RegistryConstants ==
    /\ None \notin Names /\ Deletable \subseteq Names
    /\ MaxStmts \in Nat /\ Hash \in [Names -> Hashes]

VARIABLES
    registry,  \* committed rows of system.actors
    data,      \* committed rows of actors
    pc,        \* "idle", "open" (between statements) or in a statement
    name,      \* the actor of each session's statement
    put,       \* rows each session's transaction has written
    del,       \* rows each session's transaction has deleted
    unreg,     \* registry rows each session's transaction has deleted
    stmts,     \* statements in each session's transaction so far
    apart      \* history: deletions and writes have kept apart (Apart) so far

vars == <<registry, data, pc, name, put, del, unreg, stmts>>
txnVars == <<put, del, unreg>>
allVars == <<vars, apart>>

Rows == Names \X Sessions

\* The rows under the key prefix of an actor.
Under(n, R) == {r \in R : Hash[r[1]] = Hash[n]}

TypeOK ==
    /\ registry \subseteq Names
    /\ data \subseteq Rows
    /\ pc \in [Sessions -> {"idle", "open", "ensure", "create", "write", "delete"}]
    /\ name \in [Sessions -> Names \cup {None}]
    /\ put \in [Sessions -> SUBSET Rows]
    /\ del \in [Sessions -> SUBSET Rows]
    /\ unreg \in [Sessions -> SUBSET Names]
    /\ stmts \in [Sessions -> 0..MaxStmts]
    /\ apart \in BOOLEAN

Init ==
    /\ registry = {}
    /\ data = {}
    /\ pc = [s \in Sessions |-> "idle"]
    /\ name = [s \in Sessions |-> None]
    /\ put = [s \in Sessions |-> {}]
    /\ del = [s \in Sessions |-> {}]
    /\ unreg = [s \in Sessions |-> {}]
    /\ stmts = [s \in Sessions |-> 0]
    /\ apart = TRUE

Goto(s, where) == pc' = [pc EXCEPT ![s] = where]

\* Sessions whose transactions have a lock on a row of system.actors, and on
\* the entry of its unique index on actor_hash.
NameLock(n) == {t \in Sessions : n \in unreg[t]}
HashLock(n) == {t \in Sessions : \E m \in unreg[t] : Hash[m] = Hash[n]}

\* Sessions whose transactions have a lock on a row of an actor.
RowLock(r) == {t \in Sessions : r \in put[t] \cup del[t]}

-----------------------------------------------------------------------------
\* A client begins a statement of its transaction, the first one included.
Begin(s, n, where) ==
    /\ pc[s] \in {"idle", "open"}
    /\ stmts[s] < MaxStmts
    /\ stmts' = [stmts EXCEPT ![s] = @ + 1]
    /\ name' = [name EXCEPT ![s] = n]
    /\ Goto(s, where)
    /\ UNCHANGED <<registry, data, txnVars>>

\* INSERT or UPSERT into an actor.
BeginWrite(s, n) == Begin(s, n, "ensure")

\* SELECT crdb_internal.delete_actor(n).
BeginDelete(s, n) == Begin(s, n, "delete")

\* The registry is not consulted.
EnsureFastBroken(s) ==
    /\ pc[s] = "ensure"
    /\ NameLock(name[s]) = {}
    /\ Goto(s, "write")
    /\ UNCHANGED <<registry, data, name, txnVars, stmts>>

\* ensureActorExists, fast path: a lookup outside any transaction.
EnsureFast(s) ==
    /\ pc[s] = "ensure"
    /\ NameLock(name[s]) = {}
    /\ Goto(s, IF name[s] \in registry THEN "write" ELSE "create")
    /\ UNCHANGED <<registry, data, name, txnVars, stmts>>

\* The transaction ends and leaves nothing behind.
Rollback(s) ==
    /\ Goto(s, "idle")
    /\ name' = [name EXCEPT ![s] = None]
    /\ put' = [put EXCEPT ![s] = {}]
    /\ del' = [del EXCEPT ![s] = {}]
    /\ unreg' = [unreg EXCEPT ![s] = {}]
    /\ stmts' = [stmts EXCEPT ![s] = 0]
    /\ UNCHANGED <<registry, data>>

Collides(n) == \E m \in registry : m # n /\ Hash[m] = Hash[n]

\* The hash is not unique in system.actors.
EnsureCreateBroken(s) ==
    /\ pc[s] = "create"
    /\ HashLock(name[s]) = {}
    /\ registry' = registry \cup {name[s]}
    /\ Goto(s, "write")
    /\ UNCHANGED <<data, name, txnVars, stmts>>

\* The hash is stored in the place of the name.
EnsureCreateHashBroken(s) ==
    /\ pc[s] = "create"
    /\ HashLock(name[s]) = {}
    /\ ~Collides(name[s])
    /\ registry' = registry \cup {Hash[name[s]]}
    /\ Goto(s, "write")
    /\ UNCHANGED <<data, name, txnVars, stmts>>

\* ensureActorExists, slow path: INSERT ... ON CONFLICT (name) DO NOTHING and
\* the check of the row, in a transaction of its own.
EnsureCreate(s) ==
    /\ pc[s] = "create"
    /\ HashLock(name[s]) = {}
    /\ ~Collides(name[s])
    /\ registry' = registry \cup {name[s]}
    /\ Goto(s, "write")
    /\ UNCHANGED <<data, name, txnVars, stmts>>

\* A collision is retried.
EnsureCollisionBroken(s) ==
    /\ pc[s] = "create"
    /\ HashLock(name[s]) = {}
    /\ Collides(name[s])
    /\ Goto(s, "ensure")
    /\ UNCHANGED <<registry, data, name, txnVars, stmts>>

\* The hash is another actor's: the statement and its transaction fail.
EnsureCollision(s) ==
    /\ pc[s] = "create"
    /\ HashLock(name[s]) = {}
    /\ Collides(name[s])
    /\ Rollback(s)

\* The statement is over, its transaction is not.
EndStatement(s) ==
    /\ Goto(s, "open")
    /\ name' = [name EXCEPT ![s] = None]

\* The row is written.
Write(s) ==
    LET r == <<name[s], s>> IN
    /\ pc[s] = "write"
    /\ RowLock(r) \subseteq {s}
    /\ put' = [put EXCEPT ![s] = @ \cup {r}]
    /\ EndStatement(s)
    /\ UNCHANGED <<registry, data, del, unreg, stmts>>

\* delete_actor: DelRange over the actor's prefix and the deletion of the
\* registry row if there is one, in the client's transaction. They wait for
\* rows that others have written or deleted.
DeleteActor(s) ==
    /\ pc[s] = "delete"
    /\ \A r \in Under(name[s], Rows) : RowLock(r) \subseteq {s}
    /\ NameLock(name[s]) \subseteq {s}
    /\ put' = [put EXCEPT ![s] = @ \ Under(name[s], Rows)]
    /\ del' = [del EXCEPT ![s] = @ \cup Under(name[s], data)]
    /\ unreg' = [unreg EXCEPT ![s] = @ \cup ({name[s]} \cap registry)]
    /\ EndStatement(s)
    /\ UNCHANGED <<registry, data, stmts>>

Commit(s) ==
    /\ pc[s] = "open"
    /\ registry' = registry \ unreg[s]
    /\ data' = (data \ del[s]) \cup put[s]
    /\ Goto(s, "idle")
    /\ name' = [name EXCEPT ![s] = None]
    /\ put' = [put EXCEPT ![s] = {}]
    /\ del' = [del EXCEPT ![s] = {}]
    /\ unreg' = [unreg EXCEPT ![s] = {}]
    /\ stmts' = [stmts EXCEPT ![s] = 0]

\* The client rolls back, or a statement or the commit fails.
Abort(s) ==
    /\ pc[s] # "idle"
    /\ Rollback(s)

Ensure(s) == EnsureFast(s) \/ EnsureCreate(s) \/ EnsureCollision(s)
Statement(s) == Ensure(s) \/ Write(s) \/ DeleteActor(s)

\* A session that is writing to an actor, or has in its transaction, or deleting.
Writing(s, n) ==
    \/ name[s] = n /\ pc[s] \in {"ensure", "create", "write"}
    \/ \E r \in put[s] : r[1] = n
Deleting(s, n) ==
    \/ name[s] = n /\ pc[s] = "delete"
    \/ n \in unreg[s] \/ \E r \in del[s] : r[1] = n

\* No transaction deletes an actor while another one, or itself, writes to an
\* actor with that hash.
Apart ==
    \A s, t \in Sessions, m, n \in Names :
        Hash[m] = Hash[n] => ~(Writing(s, m) /\ Deleting(t, n))

Next ==
    /\ \E s \in Sessions :
        \/ \E n \in Names : BeginWrite(s, n)
        \/ \E n \in Deletable : BeginDelete(s, n)
        \/ Statement(s)
        \/ Commit(s)
        \/ Abort(s)
    /\ apart' = (apart /\ Apart')

Spec == Init /\ [][Next]_allVars

\* The transaction of session s waits for a lock of t's.
WaitsFor(s, t) ==
    /\ s # t
    /\ \/ pc[s] = "write" /\ t \in RowLock(<<name[s], s>>)
       \/ pc[s] = "delete" /\ t \in NameLock(name[s])
       \/ pc[s] = "delete" /\ \E r \in Under(name[s], Rows) : t \in RowLock(r)

\* The store finds transactions that wait for each other. It does not know that
\* a client's transaction waits for the lookup of ensureActorExists.
Deadlocked(s) ==
    \E T \in SUBSET Sessions :
        s \in T /\ \A t \in T : (\E u \in T : WaitsFor(t, u)) /\ (\E u \in T : WaitsFor(u, t))

\* Statements make progress when they can; a client that is between statements
\* goes on; the store aborts transactions that wait for each other. Clients need
\* not give up.
Fairness ==
    \A s \in Sessions :
        SF_vars(Statement(s)) /\ WF_vars(Commit(s)) /\ WF_vars(Deadlocked(s) /\ Abort(s))

FairSpec == Spec /\ Fairness

-----------------------------------------------------------------------------
\* An actor that has rows is registered.
Registered == \A r \in data : r[1] \in registry

\* "The row in system.actors is the single source of truth for actor
\* existence": as long as deletions and writes have kept apart, an actor that has
\* rows is registered, whichever lookups and first writes overlap
\* (ensureActorExists).
RegistryIsTruth == apart => Registered

\* As long as deletions and writes have kept apart, the rows under one prefix
\* belong to one actor: a name whose hash another actor has never gets to write
\* there (the collision error of ensureActorExists).
PrefixIsOwned == apart => \A q, r \in data : Hash[q[1]] = Hash[r[1]] => q[1] = r[1]

\* The deletion of an actor is the last statement of its transaction.
DeletesLast == \A s \in Sessions : unreg[s] # {} => pc[s] = "open"

\* Every statement ends.
EveryStatementEnds ==
    \A s \in Sessions : pc[s] \notin {"idle", "open"} ~> pc[s] \in {"idle", "open"}

\* If nothing follows a deletion in its transaction, every statement ends: the
\* lookup and the transaction that ensureActorExists makes beside the client's
\* wait for the locks of deletions that other sessions have yet to commit, which
\* the store cannot see, and do not wait for ever.
StatementsEnd == []DeletesLast => EveryStatementEnds
=============================================================================
