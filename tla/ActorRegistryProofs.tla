------------------------ MODULE ActorRegistryProofs ------------------------
(***************************************************************************)
(* The registry is the truth about actors, for any sessions, names and     *)
(* hash, as long as deletions have kept apart from writes.                 *)
(***************************************************************************)
EXTENDS ActorRegistry, TLAPS

\* Types, with the actor of a statement that is being executed.
TypeInv ==
    /\ TypeOK
    /\ \A s \in Sessions : pc[s] \notin {"idle", "open"} => name[s] \in Names

\* No two registered actors have the same hash.
HashesUnique == \A m, n \in registry : Hash[m] = Hash[n] => m = n

\* What a session has written, or is about to, belongs to a registered actor.
WritesRegistered ==
    \A s \in Sessions :
        /\ \A r \in put[s] : r[1] \in registry
        /\ pc[s] = "write" => name[s] \in registry

\* A session that has deleted a registry row has deleted the actor's committed
\* rows with it.
DeletesWhole ==
    \A s \in Sessions : \A r \in data : r[1] \in unreg[s] => r \in del[s]

\* What holds as long as deletions and writes have kept apart.
Orderly ==
    /\ TypeInv
    /\ Apart
    /\ HashesUnique
    /\ Registered
    /\ WritesRegistered
    /\ DeletesWhole

IInv == TypeInv /\ (apart => Orderly)

-----------------------------------------------------------------------------
\* Every step of ActorRegistry keeps the types.
LEMMA TypeStep == TypeInv /\ [Next]_allVars => TypeInv'
<1> SUFFICES ASSUME TypeInv, [Next]_allVars PROVE TypeInv'
  OBVIOUS
<1>0. apart' \in BOOLEAN
  BY Zenon DEF TypeInv, TypeOK, Next, allVars
<1> USE DEF TypeInv, TypeOK, Goto, Rows
<1>1. ASSUME NEW s \in Sessions, NEW n \in Names, NEW where \in {"ensure", "delete"},
             Begin(s, n, where)
      PROVE  TypeInv'
  BY <1>0, <1>1, RegistryConstants DEF Begin, txnVars
<1>2. ASSUME NEW s \in Sessions, Rollback(s) PROVE TypeInv'
  BY <1>0, <1>2, RegistryConstants DEF Rollback
<1>3. ASSUME NEW s \in Sessions, EnsureFast(s) PROVE TypeInv'
  BY <1>0, <1>3 DEF EnsureFast, txnVars
<1>4. ASSUME NEW s \in Sessions, EnsureCreate(s) PROVE TypeInv'
  BY <1>0, <1>4 DEF EnsureCreate, txnVars
<1>5. ASSUME NEW s \in Sessions, Write(s) PROVE TypeInv'
  BY <1>0, <1>5, RegistryConstants DEF Write, EndStatement
<1>6. ASSUME NEW s \in Sessions, DeleteActor(s) PROVE TypeInv'
  BY <1>0, <1>6, RegistryConstants DEF DeleteActor, EndStatement, Under
<1>7. ASSUME NEW s \in Sessions, Commit(s) PROVE TypeInv'
  BY <1>0, <1>7, RegistryConstants DEF Commit
<1>8. CASE UNCHANGED allVars
  BY <1>8 DEF allVars, vars
<1> QED
  BY <1>1, <1>2, <1>3, <1>4, <1>5, <1>6, <1>7, <1>8, RegistryConstants
  DEF Next, BeginWrite, BeginDelete, Statement, Ensure, EnsureCollision, Abort

\* ActorRegistry: the variables keep their types, however sessions interleave.
THEOREM TypeCorrect == Spec => []TypeOK
<1>1. Init => TypeInv
  BY RegistryConstants DEF Init, TypeInv, TypeOK
<1>2. TypeInv => TypeOK
  BY DEF TypeInv
<1> QED
  BY <1>1, <1>2, TypeStep, PTL DEF Spec

-----------------------------------------------------------------------------
\* A transaction that ends without effect disturbs nothing.
LEMMA RollbackStep ==
    ASSUME Orderly, NEW s \in Sessions, Rollback(s)
    PROVE  HashesUnique' /\ Registered' /\ WritesRegistered' /\ DeletesWhole'
BY DEF Orderly, TypeInv, TypeOK, HashesUnique, Registered, WritesRegistered,
       DeletesWhole, Rollback, Goto

\* delete_actor takes the rows with the registry row.
LEMMA DeleteStep ==
    ASSUME Orderly, NEW s \in Sessions, DeleteActor(s)
    PROVE  HashesUnique' /\ Registered' /\ WritesRegistered' /\ DeletesWhole'
<1> USE DEF Orderly, TypeInv, TypeOK, DeleteActor, EndStatement, Goto
<1>1. HashesUnique' /\ Registered'
  BY DEF HashesUnique, Registered
<1>2. WritesRegistered'
  BY DEF WritesRegistered
<1>3. DeletesWhole'
  BY DEF DeletesWhole, Under
<1> QED
  BY <1>1, <1>2, <1>3

\* A commit that deletes an actor finds no writer of it, its own transaction
\* included.
LEMMA CommitStep ==
    ASSUME Orderly, NEW s \in Sessions, Commit(s)
    PROVE  HashesUnique' /\ Registered' /\ WritesRegistered' /\ DeletesWhole'
<1> USE DEF Orderly, TypeInv, TypeOK
<1>1. ASSUME NEW t \in Sessions, NEW n \in Names, Writing(t, n)
      PROVE  \A u \in Sessions : n \notin unreg[u]
  BY <1>1 DEF Apart, Deleting
<1>2. \A t \in Sessions : \A r \in put[t] : \A u \in Sessions : r[1] \notin unreg[u]
  BY <1>1 DEF Writing, Rows
<1>3. \A t \in Sessions : pc[t] = "write" => name[t] \notin unreg[s]
  BY <1>1 DEF Writing
<1>4. HashesUnique'
  BY DEF HashesUnique, Commit
<1>5. Registered'
  BY <1>2 DEF Registered, WritesRegistered, DeletesWhole, Commit
<1>6. WritesRegistered'
  BY <1>2, <1>3 DEF WritesRegistered, Commit, Goto
<1>7. DeletesWhole'
  BY <1>2 DEF DeletesWhole, Commit
<1> QED
  BY <1>4, <1>5, <1>6, <1>7

\* Every step that keeps deletions apart from writes preserves what holds then.
LEMMA OrderlyStep == Orderly /\ Apart' /\ [Next]_allVars => Orderly'
<1> SUFFICES ASSUME Orderly, Apart', [Next]_allVars PROVE Orderly'
  OBVIOUS
<1> DEFINE Goal == HashesUnique' /\ Registered' /\ WritesRegistered' /\ DeletesWhole'
<1>1. TypeInv'
  BY TypeStep DEF Orderly
<1>2. Goal
  <2> USE DEF Orderly, TypeInv, TypeOK, HashesUnique, Registered, WritesRegistered,
              DeletesWhole, Goto
  <2>1. ASSUME NEW s \in Sessions, NEW n \in Names, NEW where \in {"ensure", "delete"},
               Begin(s, n, where)
        PROVE  Goal
    BY <2>1 DEF Begin, txnVars
  <2>2. ASSUME NEW s \in Sessions, EnsureFast(s) PROVE Goal
    BY <2>2 DEF EnsureFast, txnVars
  <2>3. ASSUME NEW s \in Sessions, EnsureCreate(s) PROVE Goal
    BY <2>3 DEF EnsureCreate, Collides, txnVars
  <2>4. ASSUME NEW s \in Sessions, Write(s) PROVE Goal
    BY <2>4 DEF Write, EndStatement
  <2>5. CASE UNCHANGED allVars
    BY <2>5 DEF allVars, vars
  <2> QED
    BY <2>1, <2>2, <2>3, <2>4, <2>5, RegistryConstants, RollbackStep, DeleteStep, CommitStep
    DEF Next, BeginWrite, BeginDelete, Statement, Ensure, EnsureCollision, Abort
<1> QED
  BY <1>1, <1>2 DEF Orderly

\* So every step preserves the invariant: apart stays true only if they keep apart.
LEMMA InvariantStep == IInv /\ [Next]_allVars => IInv'
<1> SUFFICES ASSUME IInv, [Next]_allVars PROVE IInv'
  OBVIOUS
<1>1. TypeInv'
  BY TypeStep DEF IInv
<1>2. ASSUME apart' PROVE Orderly'
  <2>1. CASE UNCHANGED allVars
    <3>1. Orderly
      BY <1>2, <2>1, Zenon DEF IInv, allVars
    <3>2. Apart'
      BY <2>1, <3>1 DEF Orderly, allVars, vars, Apart, Writing, Deleting
    <3> QED
      BY <3>1, <3>2, OrderlyStep
  <2>2. CASE Next
    <3>1. Orderly /\ Apart'
      BY <1>2, <2>2, Zenon DEF IInv, Next
    <3> QED
      BY <3>1, OrderlyStep
  <2> QED
    BY <2>1, <2>2
<1> QED
  BY <1>1, <1>2 DEF IInv

LEMMA InitInvariant == Init => IInv
BY RegistryConstants
DEF Init, IInv, Orderly, TypeInv, TypeOK, Apart, Writing, Deleting, HashesUnique, Registered,
    WritesRegistered, DeletesWhole

\* RegistryIsTruth, the claim of ensureActorExists, for every set of sessions
\* and names and every hash, as long as deletions keep apart from writes.
THEOREM RegistryTruth == Spec => []RegistryIsTruth
<1>1. IInv => RegistryIsTruth
  BY DEF IInv, Orderly, RegistryIsTruth
<1> QED
  BY <1>1, InitInvariant, InvariantStep, PTL DEF Spec

\* PrefixIsOwned: the unique index on actor_hash is what keeps two actors out of
\* one key prefix, for every hash.
THEOREM PrefixOwned == Spec => []PrefixIsOwned
<1>1. IInv => PrefixIsOwned
  BY DEF IInv, Orderly, HashesUnique, Registered, PrefixIsOwned
<1> QED
  BY <1>1, InitInvariant, InvariantStep, PTL DEF Spec
=============================================================================
