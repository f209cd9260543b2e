------------------------- MODULE DaemonLaunch_proofs -------------------------
(***************************************************************************)
(* What DaemonLaunch guarantees for any number of command lines and        *)
(* processes: a daemon that has been well all through a call of            *)
(* ensure_daemon is not killed by it, while fewer probes fail by accident  *)
(* than the ladder has.  A failed probe of a daemon that is well is an     *)
(* accident, so the failures a call has counted never exceed those that    *)
(* happened, as long as the daemon in hand is the one it began with.       *)
(***************************************************************************)
EXTENDS DaemonLaunch, TLAPS

Someone == Pid \cup {Nobody}
CallRec == [at : CallAt, ep : Someone, fails : Nat, polls : Nat, mine : Someone]

Typed ==
  /\ file \in Someone
  /\ call \in [Client -> CallRec]
  /\ spent \in [flakes : Nat, faults : Nat]

(* Where a call stands between its first probe and the kill. *)
Trying == {"probe", "alive", "kill"}

(* The failures counted against a daemon that was always well. *)
Patient(c) ==
  /\ steady[c] => Well(call[c].ep)
  /\ steady[c] /\ call[c].at \in Trying => call[c].fails <= spent.flakes
  /\ call[c].at = "kill" => Probes <= call[c].fails

PatientInv == Typed /\ \A c \in Client : Patient(c)

-----------------------------------------------------------------------------
(***************************************************************************)
(* What a step does to spent, to file and to the calls.                    *)
(***************************************************************************)

(* Accidents are only added to. *)
SpentMoves ==
  \/ spent' = spent
  \/ spent' = [spent EXCEPT !.flakes = spent.flakes + 1]
  \/ spent' = [spent EXCEPT !.faults = spent.faults + 1]

(* The spent accidents keep their type and do not go back. *)
LEMMA SpentGrows ==
  ASSUME spent \in [flakes : Nat, faults : Nat], SpentMoves
  PROVE  spent' \in [flakes : Nat, faults : Nat] /\ spent.flakes <= spent'.flakes
  <1>1. /\ spent.flakes \in Nat /\ spent.faults \in Nat
        /\ spent.flakes + 1 \in Nat /\ spent.faults + 1 \in Nat
    OBVIOUS
  <1>2. CASE spent' = spent
    BY <1>1, <1>2
  <1>3. CASE spent' = [spent EXCEPT !.flakes = spent.flakes + 1]
    <2>1. spent' \in [flakes : Nat, faults : Nat] /\ spent'.flakes = spent.flakes + 1
      BY <1>1, <1>3
    <2> QED
      BY <1>1, <2>1
  <1>4. CASE spent' = [spent EXCEPT !.faults = spent.faults + 1]
    <2>1. spent' \in [flakes : Nat, faults : Nat] /\ spent'.flakes = spent.flakes
      BY <1>1, <1>4
    <2> QED
      BY <1>1, <2>1
  <1> QED
    BY <1>2, <1>3, <1>4 DEF SpentMoves

(* Every step counts one accident, or one fault, or nothing. *)
LEMMA SpentSteps == [Next]_vars => SpentMoves
  <1> SUFFICES ASSUME [Next]_vars PROVE SpentMoves
    OBVIOUS
  <1> USE DEF SpentMoves
  <1>1. ASSUME NEW p \in Pid, Daemon(p) \/ Disturbed(p) PROVE SpentMoves
    BY <1>1 DEF Daemon, Disturbed, Fault
  <1>2. ASSUME NEW c \in Client, EnsureDaemon(c) PROVE SpentMoves
    <2>1. CASE ReadEndpoint(c) \/ LookAtPid(c) \/ Kill(c) \/ CleanStale(c) \/ SpawnDaemon(c)
      BY <2>1 DEF ReadEndpoint, LookAtPid, Kill, CleanStale, SpawnDaemon
    <2>2. CASE SpawnFails(c) \/ PollRead(c) \/ TimedOut(c)
      BY <2>2 DEF SpawnFails, PollRead, TimedOut
    <2>3. CASE Probe(c) \/ PollProbe(c)
      BY <2>3 DEF Probe, PollProbe, ProbeOk, ProbeFails, Flake
    <2> QED
      BY <1>2, <2>1, <2>2, <2>3 DEF EnsureDaemon
  <1>3. CASE Desktop
    BY <1>3 DEF Desktop, TakeOver, AppProbe, AppKill, AppClean, AppQuit, AppExits, ProbeOk,
                ProbeFails, Flake
  <1>4. CASE UNCHANGED vars
    BY <1>4 DEF vars
  <1> QED
    BY <1>1, <1>2, <1>3, <1>4 DEF Next

(* daemon.json names a process or nobody. *)
LEMMA FileSteps == file \in Someone /\ [Next]_vars => file' \in Someone
  <1> SUFFICES ASSUME file \in Someone, [Next]_vars PROVE file' \in Someone
    OBVIOUS
  <1> USE DEF Someone
  <1>1. ASSUME NEW p \in Pid, Daemon(p) \/ Disturbed(p) PROVE file' \in Someone
    BY <1>1 DEF Daemon, Disturbed, Fault, Bind, Serve, ServeEnds, Shutdown
  <1>2. ASSUME NEW c \in Client, EnsureDaemon(c) PROVE file' \in Someone
    BY <1>2 DEF EnsureDaemon, ReadEndpoint, Probe, LookAtPid, Kill, CleanStale, SpawnDaemon,
                SpawnFails, PollRead, PollProbe, TimedOut, Still
  <1>3. CASE Desktop
    BY <1>3 DEF Desktop, TakeOver, AppProbe, AppKill, AppClean, AppQuit, AppExits, Still
  <1>4. CASE UNCHANGED vars
    BY <1>4 DEF vars
  <1> QED
    BY <1>1, <1>2, <1>3, <1>4 DEF Next

(* How the call that steps, r before and s after, may go on: out of the ladder, to *)
(* its foot, a failure up, or past the look at the pid.                            *)
Climbs(r, s) ==
  \/ s.at \notin Trying
  \/ r.at \in {"served", "failed"} /\ s.at = "probe" /\ s.fails = 0
  \/ /\ r.at = "probe" /\ ProbeFails(r.ep)
     /\ s.fails = r.fails + 1
     /\ s.at = "kill" => Probes <= s.fails
  \/ r.at = "alive" /\ s.at = "probe" /\ s.fails = r.fails /\ spent' = spent

(* A step of ensure_daemon climbs. *)
LEMMA CallSteps ==
  ASSUME Typed, NEW c \in Client, EnsureDaemon(c)
  PROVE  \E s \in CallRec : call' = [call EXCEPT ![c] = s] /\ Climbs(call[c], s)
  <1> DEFINE r == call[c]
  <1>1. /\ r \in CallRec /\ file \in Someone
        /\ r.fails \in Nat /\ r.polls \in Nat /\ r.ep \in Someone /\ r.mine \in Someone
        /\ r.fails + 1 \in Nat /\ r.polls + 1 \in Nat
    BY DEF Typed, CallRec
  <1>2. NoCall \in CallRec /\ Nobody \in Someone
    BY DEF NoCall, CallRec, CallAt, Someone
  <1> USE DEF Climbs, Trying
  <1>3. CASE ReadEndpoint(c)
    <2> DEFINE s == [NoCall EXCEPT !.at = "probe", !.ep = file]
               t == [NoCall EXCEPT !.at = "spawn"]
    <2>1. s \in CallRec /\ s.at = "probe" /\ s.fails = 0 /\ t \in CallRec /\ t.at = "spawn"
      BY <1>1, <1>2 DEF NoCall, CallRec, CallAt
    <2>2. r.at \in {"served", "failed"} /\ (\/ call' = [call EXCEPT ![c] = s]
                                            \/ call' = [call EXCEPT ![c] = t])
      BY <1>3 DEF ReadEndpoint, Returned, Goes
    <2> QED
      BY <2>1, <2>2
  <1>4. CASE Probe(c) \/ PollProbe(c)
    <2> DEFINE won == [NoCall EXCEPT !.at = "served"]
               back == [r EXCEPT !.at = "poll", !.ep = Nobody]
               next == IF r.fails = 0 THEN "alive"
                       ELSE IF r.fails + 1 < Probes THEN "probe" ELSE "kill"
               lost == [r EXCEPT !.fails = r.fails + 1, !.at = next]
    <2>1. won \in CallRec /\ won.at = "served" /\ back \in CallRec /\ back.at = "poll"
      BY <1>1, <1>2 DEF NoCall, CallRec, CallAt
    <2>2. next \in CallAt /\ (next = "kill" => Probes <= r.fails + 1)
      BY <1>1, LaunchAssumption DEF CallAt
    <2>3. lost \in CallRec /\ lost.fails = r.fails + 1 /\ lost.at = next
      <3> HIDE DEF next
      <3>1. \A f \in Nat, a \in CallAt :
               LET l == [r EXCEPT !.fails = f, !.at = a]
               IN  l \in CallRec /\ l.fails = f /\ l.at = a
        BY <1>1 DEF CallRec
      <3> QED
        BY <1>1, <2>2, <3>1
    <2>4. \/ call' = [call EXCEPT ![c] = won]
          \/ call' = [call EXCEPT ![c] = back]
          \/ call' = [call EXCEPT ![c] = lost] /\ r.at = "probe" /\ ProbeFails(r.ep)
      BY <1>4 DEF Probe, PollProbe, Goes
    <2> HIDE DEF won, back, lost, next
    <2>5. CASE call' = [call EXCEPT ![c] = won]
      BY <2>1, <2>5
    <2>6. CASE call' = [call EXCEPT ![c] = back]
      BY <2>1, <2>6
    <2>7. CASE call' = [call EXCEPT ![c] = lost] /\ r.at = "probe" /\ ProbeFails(r.ep)
      <3>1. Climbs(r, lost)
        BY <2>2, <2>3, <2>7 DEF Climbs
      <3> QED
        BY <2>3, <2>7, <3>1
    <2> QED
      BY <2>4, <2>5, <2>6, <2>7
  <1>5. CASE LookAtPid(c)
    <2> DEFINE s == [r EXCEPT !.at = "probe"]
               t == [r EXCEPT !.at = "cleanup"]
    <2>1. s \in CallRec /\ s.at = "probe" /\ s.fails = r.fails /\ t \in CallRec /\ t.at = "cleanup"
      BY <1>1 DEF CallRec, CallAt
    <2>2. /\ r.at = "alive" /\ spent' = spent
          /\ call' = [call EXCEPT ![c] = s] \/ call' = [call EXCEPT ![c] = t]
      BY <1>5 DEF LookAtPid, Goes
    <2> HIDE DEF s, t
    <2> QED
      BY <2>1, <2>2
  <1>6. CASE Kill(c) \/ CleanStale(c)
    <2> DEFINE s == [r EXCEPT !.at = "cleanup"]
               t == [r EXCEPT !.at = "spawn", !.ep = Nobody]
    <2>1. s \in CallRec /\ s.at = "cleanup" /\ t \in CallRec /\ t.at = "spawn"
      BY <1>1, <1>2 DEF CallRec, CallAt
    <2>2. call' = [call EXCEPT ![c] = s] \/ call' = [call EXCEPT ![c] = t]
      BY <1>6 DEF Kill, CleanStale, Goes
    <2> HIDE DEF s, t
    <2> QED
      BY <2>1, <2>2
  <1>7. CASE SpawnDaemon(c)
    <2> PICK p \in Free : call' = [call EXCEPT ![c] = [call[c] EXCEPT !.at = "poll", !.mine = p]]
      BY <1>7 DEF SpawnDaemon, Goes
    <2> DEFINE s == [r EXCEPT !.at = "poll", !.mine = p]
    <2>0. p \in Someone
      BY DEF Free, Someone
    <2>1. s \in CallRec /\ s.at = "poll"
      BY <1>1, <2>0 DEF CallRec, CallAt
    <2>2. call' = [call EXCEPT ![c] = s]
      OBVIOUS
    <2> HIDE DEF s
    <2> QED
      BY <2>1, <2>2
  <1>8. CASE PollRead(c)
    <2> DEFINE s == [r EXCEPT !.at = "pollprobe", !.ep = file, !.polls = r.polls + 1]
    <2>1. s \in CallRec /\ s.at = "pollprobe"
      <3>1. \A n \in Nat : LET l == [r EXCEPT !.at = "pollprobe", !.ep = file, !.polls = n]
                           IN  l \in CallRec /\ l.at = "pollprobe"
        BY <1>1 DEF CallRec, CallAt
      <3> QED
        BY <1>1, <3>1
    <2>2. call' = [call EXCEPT ![c] = s]
      BY <1>8 DEF PollRead, Goes
    <2> HIDE DEF s
    <2> QED
      BY <2>1, <2>2
  <1>9. CASE SpawnFails(c) \/ TimedOut(c)
    <2> DEFINE s == [NoCall EXCEPT !.at = "failed"]
    <2>1. s \in CallRec /\ s.at = "failed"
      BY <1>2 DEF NoCall, CallRec, CallAt
    <2>2. call' = [call EXCEPT ![c] = s]
      BY <1>9 DEF SpawnFails, TimedOut, Goes
    <2> HIDE DEF s
    <2> QED
      BY <2>1, <2>2
  <1> QED
    BY <1>3, <1>4, <1>5, <1>6, <1>7, <1>8, <1>9 DEF EnsureDaemon

(* A call that does not step stays as it is; history is taken with every step. *)
LEMMA Elsewhere ==
  ASSUME [Next]_vars
  PROVE  \/ call' = call /\ (History \/ UNCHANGED vars)
         \/ \E c \in Client : EnsureDaemon(c) /\ History
  BY DEF Next, Daemon, Disturbed, Desktop, EnsureDaemon, vars

-----------------------------------------------------------------------------
(***************************************************************************)
(* The invariant.                                                          *)
(***************************************************************************)

(* Nobody is called well who refuses, so a failed probe of such a one is counted. *)
LEMMA FailureCounted ==
  ASSUME NEW p, Well(p), ProbeFails(p), spent \in [flakes : Nat, faults : Nat]
  PROVE  spent'.flakes = spent.flakes + 1
  <1>1. ~Refuses(p)
    BY DEF Well, Answers, Refuses
  <1>2. spent' = [spent EXCEPT !.flakes = spent.flakes + 1]
    BY <1>1 DEF ProbeFails, Flake
  <1> QED
    BY <1>2

(* A call that climbs, or stays, remains patient. *)
LEMMA PatientStep ==
  ASSUME PatientInv, [Next]_vars, NEW c \in Client, call'[c] \in CallRec,
         call'[c] = call[c] \/ Climbs(call[c], call'[c]),
         steady'[c] => Well(call[c].ep)' /\ (steady[c] \/ Returned(c))
  PROVE  Patient(c)'
  <1> DEFINE r == call[c]
             s == call'[c]
  <1>1. /\ spent.flakes \in Nat /\ spent'.flakes \in Nat /\ spent.flakes <= spent'.flakes
        /\ r.fails \in Nat /\ s.fails \in Nat
    <2>1. spent \in [flakes : Nat, faults : Nat]
      BY DEF PatientInv, Typed
    <2>2. spent' \in [flakes : Nat, faults : Nat] /\ spent.flakes <= spent'.flakes
      BY <2>1, SpentSteps, SpentGrows
    <2>3. r \in CallRec
      BY DEF PatientInv, Typed
    <2> QED
      BY <2>1, <2>2, <2>3 DEF CallRec
  <1>2. /\ steady[c] => Well(r.ep)
        /\ steady[c] /\ r.at \in Trying => r.fails <= spent.flakes
        /\ r.at = "kill" => Probes <= r.fails
    BY DEF PatientInv, Patient
  <1>3. CASE s = r
    BY <1>1, <1>2, <1>3, LaunchAssumption DEF Patient, Trying, Returned
  <1>4. CASE s.at \notin Trying
    BY <1>4 DEF Patient, Trying
  <1>5. CASE r.at \in {"served", "failed"} /\ s.at = "probe" /\ s.fails = 0
    BY <1>1, <1>5 DEF Patient
  <1>6. CASE /\ r.at = "probe" /\ ProbeFails(r.ep)
             /\ s.fails = r.fails + 1
             /\ s.at = "kill" => Probes <= s.fails
    <2>1. steady'[c] => steady[c]
      BY <1>6 DEF Returned
    <2>2. steady[c] => spent'.flakes = spent.flakes + 1 /\ r.fails <= spent.flakes
      <3>1. spent \in [flakes : Nat, faults : Nat]
        BY DEF PatientInv, Typed
      <3> QED
        BY <1>2, <1>6, <3>1, FailureCounted DEF Trying
    <2>3. steady'[c] => s.fails <= spent'.flakes
      BY <1>1, <1>6, <2>1, <2>2
    <2> QED
      BY <1>6, <2>3 DEF Patient
  <1>7. CASE r.at = "alive" /\ s.at = "probe" /\ s.fails = r.fails /\ spent' = spent
    BY <1>1, <1>2, <1>7 DEF Patient, Trying, Returned
  <1> QED
    BY <1>3, <1>4, <1>5, <1>6, <1>7 DEF Climbs

(* Nobody has called yet. *)
LEMMA PatientInitially == Init => PatientInv
  <1> SUFFICES ASSUME Init PROVE PatientInv
    OBVIOUS
  <1>1. NoCall \in CallRec /\ NoCall.at = "failed"
    BY DEF NoCall, CallRec, CallAt, Someone
  <1>2. Typed
    BY <1>1 DEF Init, Typed, Someone
  <1>3. \A c \in Client : Patient(c)
    BY <1>1 DEF Init, Patient, Trying
  <1> QED
    BY <1>2, <1>3 DEF PatientInv

(* Every step leaves every call patient. *)
LEMMA PatientPreserved == PatientInv /\ [Next]_vars => PatientInv'
  <1> SUFFICES ASSUME PatientInv, [Next]_vars PROVE PatientInv'
    OBVIOUS
  <1>1. file' \in Someone /\ spent' \in [flakes : Nat, faults : Nat]
    BY FileSteps, SpentSteps, SpentGrows DEF PatientInv, Typed
  <1>2. /\ call' \in [Client -> CallRec]
        /\ \A c \in Client : call'[c] = call[c] \/ Climbs(call[c], call'[c])
    <2>1. CASE call' = call
      BY <2>1 DEF PatientInv, Typed
    <2>2. CASE \E c \in Client : EnsureDaemon(c)
      <3> PICK c \in Client : EnsureDaemon(c)
        BY <2>2
      <3> PICK s \in CallRec : call' = [call EXCEPT ![c] = s] /\ Climbs(call[c], s)
        BY CallSteps DEF PatientInv
      <3> QED
        BY DEF PatientInv, Typed
    <2> QED
      BY <2>1, <2>2, Elsewhere
  <1>3. CASE UNCHANGED vars
    BY <1>3 DEF vars, PatientInv, Typed, Patient, Well, Answers
  <1>4. CASE History
    <2>1. ASSUME NEW c \in Client
          PROVE  steady'[c] => Well(call[c].ep)' /\ (steady[c] \/ Returned(c))
      BY <1>4 DEF History, Returned
    <2>2. \A c \in Client : Patient(c)'
      BY <1>2, <2>1, PatientStep
    <2> QED
      BY <1>1, <1>2, <2>2 DEF PatientInv, Typed
  <1> QED
    BY <1>3, <1>4, Elsewhere

(* A daemon that was well all through a call of ensure_daemon is not killed by it,   *)
(* for any number of command lines, processes and faults, as long as fewer probes    *)
(* fail by accident than the ladder of probes has.                                    *)
THEOREM InnocentSpared == Spec => NoInnocentKill
  <1>1. PatientInv => (spent.flakes < Probes => ~InnocentKilled)
    <2> SUFFICES ASSUME PatientInv, spent.flakes < Probes, NEW c \in Client,
                        call[c].at = "kill", steady[c]
                 PROVE  FALSE
      BY DEF InnocentKilled
    <2>1. Probes <= call[c].fails /\ call[c].fails <= spent.flakes
      BY DEF PatientInv, Patient, Trying
    <2>2. call[c].fails \in Nat /\ spent.flakes \in Nat
      BY DEF PatientInv, Typed, CallRec
    <2> QED
      BY <2>1, <2>2, LaunchAssumption
  <1> QED
    BY <1>1, PatientInitially, PatientPreserved, PTL DEF Spec, NoInnocentKill
=============================================================================
