----------------------------- MODULE MCVaultStore -----------------------------
(* Small instances of VaultStore for TLC. *)
EXTENDS VaultStore, TLC

CONSTANTS a1, a2

Files == {a1, a2}

(* Attachments are interchangeable. *)
Alike == Permutations(Files)
=============================================================================
