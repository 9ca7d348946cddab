------------------------- MODULE MCWorkerdSidecar -------------------------
(* Small instances of WorkerdSidecar for TLC. *)
EXTENDS WorkerdSidecar, TLC

Symmetry == Permutations(Deployers) \cup Permutations(Procs)

=============================================================================
