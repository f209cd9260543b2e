----------------------------- MODULE DaemonLaunch -----------------------------
(***************************************************************************)
(* How a command line finds or starts the daemon of a data directory, how  *)
(* the desktop application takes the directory over, and how a daemon goes *)
(* away (lk-daemon/src/{transport, daemon/lifecycle}.rs, lk-app/src/{lib,  *)
(* state}.rs).  All of them share two files: daemon.json, which names the  *)
(* process and the address of the last daemon that bound, and the socket   *)
(* at that address.  Nothing locks them.                                   *)
(*                                                                         *)
(* A process is named by its pid, and its address by the same pid: every   *)
(* bind draws a random one.  A pid is used again only once nobody          *)
(* remembers it.                                                           *)
(***************************************************************************)
EXTENDS Integers, FiniteSets

CONSTANTS
  Client,      \* command lines
  MaxPid,      \* bound: daemons at one time, the desktop application apart
  Probes,      \* failed probes before a living daemon is killed (3)
  Polls,       \* looks at a daemon.json whose daemon does not answer (50)
  MaxFlakes,   \* bound: probes that fail although the daemon is well
  MaxFaults    \* bound: signals from outside, crashes and failed starts

ASSUME LaunchAssumption ==
  /\ MaxPid \in Nat \ {0}
  /\ Probes \in Nat \ {0} /\ Polls \in Nat
  /\ MaxFlakes \in Nat /\ MaxFaults \in Nat

App    == 0                \* the desktop application
Pid    == 0..MaxPid
Nobody == MaxPid + 1

VARIABLES
  windows,   \* named pipes and TerminateProcess, or sockets and SIGTERM?
  file,      \* whom daemon.json names
  proc,      \* the processes
  call,      \* ensure_daemon, per command line
  app,       \* take_over_stale_daemon and the exit of the application
  steady,    \* has the daemon in hand been well ever since the call began? (history)
  spent      \* how much of the bounds is used up

vars == <<windows, file, proc, call, app, steady, spent>>

(* addr: the address it can be reached at; a socket has one from the bind until   *)
(* its file is removed, a pipe as long as it is served.  told: the shutdown flag. *)
Process == [at : {"starting", "bound", "serving", "stopping", "gone"},
            addr : Pid \cup {Nobody}, told : BOOLEAN]
Gone == [at |-> "gone", addr |-> Nobody, told |-> FALSE]

(* ep: the endpoint in hand; fails: its failed probes; mine: the daemon this call *)
(* started.                                                                       *)
CallAt == {"probe", "alive", "kill", "cleanup", "spawn", "poll", "pollprobe",
           "served", "failed"}
CallState == [at : CallAt, ep : Pid \cup {Nobody}, fails : 0..Probes, polls : 0..Polls,
              mine : Pid \cup {Nobody}]
NoCall == [at |-> "failed", ep |-> Nobody, fails |-> 0, polls |-> 0, mine |-> Nobody]

AppAt == {"none", "probe", "kill", "cleanup", "running", "exiting", "gone"}

-----------------------------------------------------------------------------
(***************************************************************************)
(* What a probe finds.                                                     *)
(***************************************************************************)
PidAlive(p) == proc[p].at # "gone"

(* Somebody answers vault.status at the address. *)
Answers(p) == \E q \in Pid : proc[q].at = "serving" /\ proc[q].addr = p

(* A socket that is bound but not yet served keeps the caller waiting; a pipe *)
(* that has no instance yet does not.                                         *)
Refuses(p) == \A q \in Pid : proc[q].addr = p => proc[q].at \notin {"bound", "serving"}

Flake == spent.flakes < MaxFlakes /\ spent' = [spent EXCEPT !.flakes = spent.flakes + 1]

ProbeOk(p)    == Answers(p) /\ UNCHANGED spent
ProbeFails(p) == (Refuses(p) /\ UNCHANGED spent) \/ (~Refuses(p) /\ Flake)

Well(p) == p \in Pid /\ Answers(p) /\ proc[p].at = "serving" /\ ~proc[p].told

(* Taken with every step. *)
History ==
  /\ UNCHANGED windows
  /\ steady' = [c \in Client |-> Well(call[c].ep)' /\ (steady[c] \/ call[c].at \in {"served", "failed"})]

-----------------------------------------------------------------------------
(***************************************************************************)
(* A daemon: bind_server, Daemon::start, serve, shutdown.                  *)
(***************************************************************************)
Bind(p) ==
  /\ proc[p].at = "starting"
  /\ proc' = [proc EXCEPT ![p].at = "bound", ![p].addr = IF windows THEN Nobody ELSE p]
  /\ file' = p

(* Daemon::start is done.  A pipe server takes its address from daemon.json. *)
Serve(p) ==
  /\ proc[p].at = "bound"
  /\ IF windows
       THEN proc' = [proc EXCEPT ![p].at = IF file = Nobody THEN "stopping" ELSE "serving",
                                 ![p].addr = file]
       ELSE proc' = [proc EXCEPT ![p].at = "serving"]
  /\ UNCHANGED file

ServeEnds(p) ==
  /\ proc[p].at = "serving" /\ proc[p].told
  /\ proc' = [proc EXCEPT ![p].at = "stopping"]
  /\ UNCHANGED file

(* cleanup: the socket of the endpoint in hand, and daemon.json as it is now. *)
Unlinked(ps, ep) ==
  IF windows \/ ep = Nobody THEN ps ELSE [ps EXCEPT ![ep].addr = Nobody]

(* shutdown removes the endpoint that daemon.json names now, whosever it is. *)
Shutdown(p) ==
  /\ proc[p].at = "stopping"
  /\ proc' = [Unlinked(proc, file) EXCEPT ![p] = Gone]
  /\ file' = Nobody

(* The kill of a process: SIGTERM sets the flag once the handler is installed. *)
Signalled(p) ==
  IF ~PidAlive(p) THEN proc' = proc
  ELSE IF windows \/ proc[p].at = "starting" THEN proc' = [proc EXCEPT ![p] = Gone]
  ELSE \/ proc' = [proc EXCEPT ![p].told = TRUE]
       \/ proc[p].at = "bound" /\ proc' = [proc EXCEPT ![p] = Gone]

(* From outside: a signal, a crash, a start that fails after the bind. *)
Fault(p) ==
  /\ PidAlive(p) /\ p # App
  /\ spent.faults < MaxFaults
  /\ spent' = [spent EXCEPT !.faults = spent.faults + 1]
  /\ \/ Signalled(p)
     \/ proc' = [proc EXCEPT ![p] = Gone]
  /\ UNCHANGED file

Daemon(p) ==
  /\ Bind(p) \/ Serve(p) \/ ServeEnds(p) \/ Shutdown(p)
  /\ UNCHANGED <<call, app, spent>>
  /\ History

Disturbed(p) ==
  /\ Fault(p)
  /\ UNCHANGED <<call, app>>
  /\ History

-----------------------------------------------------------------------------
(***************************************************************************)
(* ensure_daemon and resolve_existing_daemon, for command line c.          *)
(***************************************************************************)
Goes(c, new) == call' = [call EXCEPT ![c] = new]
Still == UNCHANGED <<file, proc>>

Returned(c) == call[c].at \in {"served", "failed"}

ReadEndpoint(c) ==
  /\ Returned(c)
  /\ Still /\ UNCHANGED spent
  /\ Goes(c, IF file = Nobody THEN [NoCall EXCEPT !.at = "spawn"]
             ELSE [NoCall EXCEPT !.at = "probe", !.ep = file])

(* Mutated form: one failed probe is enough. *)
ImpatientProbe(c) ==
  /\ call[c].at = "probe"
  /\ Still
  /\ \/ ProbeOk(call[c].ep) /\ Goes(c, [NoCall EXCEPT !.at = "served"])
     \/ ProbeFails(call[c].ep)
        /\ Goes(c, [call[c] EXCEPT !.at = IF PidAlive(call[c].ep) THEN "kill" ELSE "cleanup"])

(* Mutated form: as long as the process lives, it is probed again. *)
EndlessProbe(c) ==
  /\ call[c].at = "probe"
  /\ Still
  /\ \/ ProbeOk(call[c].ep) /\ Goes(c, [NoCall EXCEPT !.at = "served"])
     \/ ProbeFails(call[c].ep) /\ Goes(c, [call[c] EXCEPT !.at = "alive"])

(* The first probe and the ladder: after the first failure the pid is looked at, *)
(* after the last the process is killed.                                         *)
Probe(c) ==
  /\ call[c].at = "probe"
  /\ Still
  /\ \/ ProbeOk(call[c].ep) /\ Goes(c, [NoCall EXCEPT !.at = "served"])
     \/ /\ ProbeFails(call[c].ep)
        /\ Goes(c, [call[c] EXCEPT !.fails = call[c].fails + 1,
                      !.at = IF call[c].fails = 0 THEN "alive"
                             ELSE IF call[c].fails + 1 < Probes THEN "probe" ELSE "kill"])

LookAtPid(c) ==
  /\ call[c].at = "alive"
  /\ Still /\ UNCHANGED spent
  /\ Goes(c, [call[c] EXCEPT !.at = IF PidAlive(call[c].ep) THEN "probe" ELSE "cleanup"])

Kill(c) ==
  /\ call[c].at = "kill"
  /\ Signalled(call[c].ep)
  /\ Goes(c, [call[c] EXCEPT !.at = "cleanup"])
  /\ UNCHANGED <<file, spent>>

CleanStale(c) ==
  /\ call[c].at = "cleanup"
  /\ proc' = Unlinked(proc, call[c].ep) /\ file' = Nobody
  /\ Goes(c, [call[c] EXCEPT !.at = "spawn", !.ep = Nobody])
  /\ UNCHANGED spent

(* The number of a dead process comes back once nobody remembers it. *)
Free ==
  {p \in Pid \ {App} :
     /\ ~PidAlive(p)
     /\ p # file /\ p # app.ep
     /\ \A d \in Client : p \notin {call[d].ep, call[d].mine}
     /\ \A q \in Pid : proc[q].addr # p}

SpawnDaemon(c) ==
  /\ call[c].at = "spawn"
  /\ \E p \in Free :
        /\ \A q \in Free : p <= q
        /\ proc' = [proc EXCEPT ![p].at = "starting"]
        /\ Goes(c, [call[c] EXCEPT !.at = "poll", !.mine = p])
  /\ UNCHANGED <<file, spent>>

(* No process can be started. *)
SpawnFails(c) ==
  /\ call[c].at = "spawn" /\ Free = {}
  /\ Goes(c, [NoCall EXCEPT !.at = "failed"])
  /\ Still /\ UNCHANGED spent

PollRead(c) ==
  /\ call[c].at = "poll" /\ call[c].polls < Polls
  /\ file # Nobody
  /\ Goes(c, [call[c] EXCEPT !.at = "pollprobe", !.ep = file, !.polls = call[c].polls + 1])
  /\ Still /\ UNCHANGED spent

PollProbe(c) ==
  /\ call[c].at = "pollprobe"
  /\ Still
  /\ \/ ProbeOk(call[c].ep) /\ Goes(c, [NoCall EXCEPT !.at = "served"])
     \/ ProbeFails(call[c].ep) /\ Goes(c, [call[c] EXCEPT !.at = "poll", !.ep = Nobody])

(* The five seconds are over.  A daemon that nothing disturbs is ready by then. *)
Settled(p) == proc[p].at \in {"serving", "gone"}

TimedOut(c) ==
  /\ call[c].at = "poll"
  /\ Settled(call[c].mine)
  /\ file = Nobody \/ call[c].polls = Polls
  /\ Goes(c, [NoCall EXCEPT !.at = "failed"])
  /\ Still /\ UNCHANGED spent

EnsureDaemon(c) ==
  /\ \/ ReadEndpoint(c) \/ Probe(c) \/ LookAtPid(c) \/ Kill(c) \/ CleanStale(c)
     \/ SpawnDaemon(c) \/ SpawnFails(c) \/ PollRead(c) \/ PollProbe(c) \/ TimedOut(c)
  /\ UNCHANGED app
  /\ History

-----------------------------------------------------------------------------
(***************************************************************************)
(* The desktop application: take_over_stale_daemon, then serve_embedded in *)
(* its own process, then shutdown_on_exit.                                 *)
(***************************************************************************)
AppGoes(at) == app' = [app EXCEPT !.at = at]

TakeOver ==
  /\ app.at = "none"
  /\ IF file = Nobody
       THEN AppGoes("running") /\ proc' = [proc EXCEPT ![App].at = "starting"]
       ELSE app' = [at |-> "probe", ep |-> file] /\ proc' = proc
  /\ UNCHANGED <<file, spent>>

AppProbe ==
  /\ app.at = "probe"
  /\ \/ ProbeOk(app.ep) /\ AppGoes("kill")
     \/ ProbeFails(app.ep) /\ AppGoes("cleanup")
  /\ Still

(* Then it waits for the old process to end, but two seconds at the most. *)
AppKill ==
  /\ app.at = "kill"
  /\ Signalled(app.ep)
  /\ AppGoes("cleanup")
  /\ UNCHANGED <<file, spent>>

AppClean ==
  /\ app.at = "cleanup"
  /\ proc' = [Unlinked(proc, app.ep) EXCEPT ![App].at = "starting"]
  /\ file' = Nobody
  /\ app' = [at |-> "running", ep |-> Nobody]
  /\ UNCHANGED spent

(* The exit cleans up at once; the serving thread may do so again before the *)
(* process ends.                                                             *)
AppQuit ==
  /\ app.at = "running" /\ proc[App].at = "serving"
  /\ AppGoes("exiting")
  /\ proc' = [Unlinked(proc, file) EXCEPT ![App].told = TRUE]
  /\ file' = Nobody
  /\ UNCHANGED spent

AppExits ==
  /\ app.at = "exiting" \/ (app.at = "running" /\ proc[App].at = "gone")
  /\ AppGoes("gone")
  /\ proc' = [proc EXCEPT ![App] = Gone]
  /\ UNCHANGED <<file, spent>>

Desktop ==
  /\ TakeOver \/ AppProbe \/ AppKill \/ AppClean \/ AppQuit \/ AppExits
  /\ UNCHANGED call
  /\ History

-----------------------------------------------------------------------------
Init ==
  /\ windows \in BOOLEAN
  /\ file = Nobody
  /\ proc = [p \in Pid |-> Gone]
  /\ call = [c \in Client |-> NoCall]
  /\ app = [at |-> "none", ep |-> Nobody]
  /\ steady = [c \in Client |-> FALSE]
  /\ spent = [flakes |-> 0, faults |-> 0]

Next ==
  \/ \E p \in Pid : Daemon(p) \/ Disturbed(p)
  \/ \E c \in Client : EnsureDaemon(c)
  \/ Desktop

Spec == Init /\ [][Next]_vars

(* Every process goes on, except that nobody has to start or quit the desktop *)
(* application, and nothing has to go wrong.                                  *)
Fairness ==
  /\ \A p \in Pid : WF_vars(Daemon(p))
  /\ \A c \in Client : WF_vars(EnsureDaemon(c))
  /\ WF_vars(Desktop /\ app.at \notin {"none", "running"})

FairSpec == Spec /\ Fairness

-----------------------------------------------------------------------------
TypeOK ==
  /\ windows \in BOOLEAN
  /\ file \in Pid \cup {Nobody}
  /\ proc \in [Pid -> Process]
  /\ call \in [Client -> CallState]
  /\ app \in [at : AppAt, ep : Pid \cup {Nobody}]
  /\ steady \in [Client -> BOOLEAN]
  /\ spent \in [flakes : 0..MaxFlakes, faults : 0..MaxFaults]

(* A daemon that served all through a call of ensure_daemon is not killed by it, *)
(* as long as fewer probes fail by accident than the ladder has.                 *)
InnocentKilled ==
  \E c \in Client : call[c].at = "kill" /\ call'[c].at = "cleanup" /\ steady[c]
NoInnocentKill == [][spent.flakes < Probes => ~InnocentKilled]_vars

(* Once nothing goes wrong any more, every command line gets a daemon again and *)
(* again, whatever endpoint, socket or orphan the troubles left behind (as long *)
(* as the bound leaves a process to start).                                     *)
ServedInTheEnd == \A c \in Client : []<>(call[c].at = "served" \/ Free = {})

(* "双清理幂等": the shutdown of one daemon leaves another one's endpoint alone. *)
CleansItsOwn == [][\A p \in Pid : Shutdown(p) => file \in {p, Nobody}]_vars
=============================================================================
