---------------------------- MODULE MCRemoteStorage ----------------------------
(* Small instances of RemoteStorage for TLC. *)
EXTENDS RemoteStorage, TLC

CONSTANTS c1, c2, b1, b2

Devices  == {c1, c2}
Contents == {b1, b2}

(* Devices are interchangeable, and so are contents. *)
Alike == Permutations(Devices) \cup Permutations(Contents)
=============================================================================
