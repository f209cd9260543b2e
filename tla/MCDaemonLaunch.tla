---------------------------- MODULE MCDaemonLaunch ----------------------------
(* Small instances of DaemonLaunch for TLC. *)
EXTENDS DaemonLaunch
=============================================================================
