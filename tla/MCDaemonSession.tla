--------------------------- MODULE MCDaemonSession ---------------------------
(* Small instances of DaemonSession for TLC. *)
EXTENDS DaemonSession
=============================================================================
