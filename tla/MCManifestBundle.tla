-------------------------- MODULE MCManifestBundle --------------------------
(* Instances of ManifestBundle for TLC. *)
EXTENDS ManifestBundle, TLC

CONSTANTS s1, s2

OneStore == {s1}
TwoStores == {s1, s2}
Symmetric == Permutations(TwoStores)
=============================================================================
