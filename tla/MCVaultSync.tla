----------------------------- MODULE MCVaultSync -----------------------------
(* Small instances of VaultSync for TLC. *)
EXTENDS VaultSync, TLC

CONSTANTS phone, laptop, note, rule

\* one syncer per device, named after it
OwnHome == [d \in Device |-> d]

\* clocks that are behind what both devices have seen
SlowClock == [d \in Device |-> {1}]

\* clocks that never show the same time
ApartClock == (phone :> {2, 4}) @@ (laptop :> {3, 5})

=============================================================================
