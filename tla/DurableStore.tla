---------------------------- MODULE DurableStore ----------------------------
(***************************************************************************)
(* What the manifest bundle promises of each store (the comment on         *)
(* ManifestBundleCheckpointInterval in pkg/storage/pebble.go): a store     *)
(* that goes down, with or without a clean shutdown, comes back with at    *)
(* least what it held at its last completed checkpoint, and with nothing   *)
(* that was never written to it.                                           *)
(***************************************************************************)
CONSTANTS Stores, Writes

VARIABLES
    up,       \* stores that are open
    view,     \* what a reader of each store sees
    written,  \* everything ever written to each store
    kept      \* what each store held at its last completed checkpoint

vars == <<up, view, written, kept>>

Init ==
    /\ up = {}
    /\ view = [s \in Stores |-> {}]
    /\ written = [s \in Stores |-> {}]
    /\ kept = [s \in Stores |-> {}]

Write(s, w) ==
    /\ s \in up
    /\ view' = [view EXCEPT ![s] = @ \cup {w}]
    /\ written' = [written EXCEPT ![s] = @ \cup {w}]
    /\ UNCHANGED <<up, kept>>

\* A checkpoint covers what was visible at some moment since the last one.
Checkpoint(s, K) ==
    /\ s \in up
    /\ kept[s] \subseteq K /\ K \subseteq view[s]
    /\ kept' = [kept EXCEPT ![s] = K]
    /\ UNCHANGED <<up, view, written>>

\* The store goes down: cleanly, with a last checkpoint, or not.
Stop(s, K) ==
    /\ s \in up
    /\ up' = up \ {s}
    /\ K \in {kept[s], view[s]}
    /\ kept' = [kept EXCEPT ![s] = K]
    /\ UNCHANGED <<view, written>>

Start(s, V) ==
    /\ s \notin up
    /\ kept[s] \subseteq V /\ V \subseteq written[s]
    /\ up' = up \cup {s}
    /\ view' = [view EXCEPT ![s] = V]
    /\ UNCHANGED <<written, kept>>

Next ==
    \E s \in Stores :
        \/ \E w \in Writes : Write(s, w)
        \/ \E K \in SUBSET Writes : Checkpoint(s, K) \/ Stop(s, K) \/ Start(s, K)

Spec == Init /\ [][Next]_vars
=============================================================================
