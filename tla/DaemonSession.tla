----------------------------- MODULE DaemonSession -----------------------------
(***************************************************************************)
(* One daemon: its locked or unlocked vault, the session token and its     *)
(* file, the back-off after wrong passwords, the audit chain and the       *)
(* anchor that vouches for its tail (lk-daemon/src/daemon/{mod, vault_cmds,*)
(* session, lifecycle}.rs, lk-core/src/{session, audit, audit_anchor}.rs). *)
(*                                                                         *)
(* Commands hold the command lock from start to end.  What runs beside     *)
(* them is the anchor flusher, the keyring of the platform and the end of  *)
(* the process, so a command is cut into steps where those can show: when  *)
(* it appends, when it stores the anchor, when it hands out the token.     *)
(***************************************************************************)
EXTENDS Integers, Sequences

CONSTANTS
  Threshold,    \* failures from which on the daemon makes callers wait (5)
  Cap,          \* longest wait, in seconds (300)
  MaxKey,       \* bound: master keys ever derived
  MaxToken,     \* bound: session tokens ever issued
  MaxEvents,    \* bound: audit events ever appended
  MaxGuesses,   \* bound: wrong passwords and recovery codes
  MaxTime,      \* bound: seconds that matter to the back-off
  MaxFlaps,     \* bound: how often the keyring goes away or comes back
  MaxStops,     \* bound: exits and crashes
  MaxLosses     \* bound: losses of the tail of the audit log

ASSUME BackoffAssumption == Threshold \in Nat \ {0} /\ Cap \in Nat \ {0}
ASSUME SessionBounds ==
  /\ MaxKey \in Nat /\ MaxToken \in Nat /\ MaxEvents \in Nat /\ MaxGuesses \in Nat
  /\ MaxTime \in Nat /\ MaxFlaps \in Nat /\ MaxStops \in Nat /\ MaxLosses \in Nat

VARIABLES
  alive,      \* is the daemon running?
  header,     \* the master key the password on disk gives; 0: no vault
  vault,      \* the key of the unlocked vault; 0: locked
  session,    \* the valid token; 0: none
  tokenFile,  \* the token in session.token; 0: no file, or none in it
  issued,     \* the last token issued
  guard,      \* unlock_guard and recover_guard
  idle,       \* has the auto-lock time passed since the last command?
  chain,      \* the audit log: its events, oldest first
  events,     \* the last event appended: every event is another one
  platform,   \* the anchor in the keyring of the platform
  sidecar,    \* the anchor in the file beside the log
  up,         \* can the keyring be reached?
  degraded,   \* did the last access fall back on the file?
  anchorOk,   \* what vault.status says of the anchor
  flushed,    \* what the flusher has read and not yet stored
  op,         \* the command under way
  astray,     \* was session.token left as it was, by a crash, a failed write or a
              \* failed removal, since it was last written or removed? (history)
  spent       \* how much of the bounds on the environment is used up

lockVars   == <<header, vault, session, tokenFile, issued, astray>>
chainVars  == <<chain, events>>
anchorVars == <<platform, sidecar, degraded, anchorOk, flushed>>
vars == <<alive, lockVars, guard, idle, chainVars, anchorVars, up, op, spent>>

Door == {"unlock", "recover"}

(* failures and blocked_until; the wait last imposed; and, for the record, the *)
(* seconds since the last success.                                             *)
AuthGuard == [failures : Nat, wait : 0..Cap, blocked : 0..Cap, elapsed : Nat]
FreshGuard == [failures |-> 0, wait |-> 0, blocked |-> 0, elapsed |-> 0]

(* AuditAnchorValue: how many events the chain had, and its last one. *)
Anchor   == [ordinal : 0..MaxEvents, last : 0..MaxEvents]
NoAnchor == [ordinal |-> 0, last |-> MaxEvents + 1]

Last(c) == IF c = <<>> THEN 0 ELSE c[Len(c)]

(* anchor_from_chain *)
TailOf(c) == [ordinal |-> Len(c), last |-> Last(c)]

OpKind == {"none", "unlock", "lock", "recover", "exit"}
Op == [kind : OpKind, at : {"none", "anchor", "end"}, tail : Anchor]
NoOp == [kind |-> "none", at |-> "none", tail |-> TailOf(<<>>)]

-----------------------------------------------------------------------------
(***************************************************************************)
(* The back-off.                                                           *)
(***************************************************************************)
Allows(d) == guard[d].blocked = 0

(* Mutated form: the wait begins one failure after the threshold is passed, and *)
(* the failure that ends a wait starts none.                                    *)
LateWait(g) == IF g.failures < Threshold \/ g.wait > 0 THEN 0 ELSE 1

(* min(2^(failures - Threshold), Cap) seconds, by doubling. *)
NextWait(g) ==
  IF g.failures + 1 < Threshold THEN 0
  ELSE IF g.wait = 0 THEN 1
  ELSE IF 2 * g.wait > Cap THEN Cap ELSE 2 * g.wait

Failed(g) == [g EXCEPT !.failures = g.failures + 1, !.wait = NextWait(g),
                       !.blocked = NextWait(g)]

OnFailure(d) ==
  /\ spent.guesses < MaxGuesses
  /\ spent' = [spent EXCEPT !.guesses = spent.guesses + 1]
  /\ guard' = [guard EXCEPT ![d] = Failed(guard[d])]

OnSuccess(d) == guard' = [guard EXCEPT ![d] = FreshGuard]

-----------------------------------------------------------------------------
(***************************************************************************)
(* The audit chain and its anchor.                                         *)
(***************************************************************************)
Append1 ==
  /\ events < MaxEvents
  /\ events' = events + 1
  /\ chain' = Append(chain, events + 1)

Append2 ==
  /\ events + 1 < MaxEvents
  /\ events' = events + 2
  /\ chain' = chain \o <<events + 1, events + 2>>

NoEvent == UNCHANGED chainVars

(* Mutated form: an anchor that lags behind the chain is taken for a cut. *)
StrictCheck(a) ==
  IF a = NoAnchor THEN "missing"
  ELSE IF Len(chain) # a.ordinal THEN "truncated"
  ELSE IF a.ordinal = 0 \/ a.last = Last(chain) THEN "ok"
  ELSE "tampered"

(* check_anchor *)
Check(a) ==
  IF a = NoAnchor THEN "missing"
  ELSE IF Len(chain) < a.ordinal THEN "truncated"
  ELSE IF Len(chain) > a.ordinal THEN "behind"
  ELSE IF a.ordinal = 0 \/ a.last = Last(chain) THEN "ok"
  ELSE "tampered"

Clean(a) == Check(a) \in {"ok", "behind"}

(* CompositeAuditAnchor::load: the keyring, or the file when the keyring is *)
(* away or has nothing.                                                     *)
Loaded == IF up /\ platform # NoAnchor THEN platform ELSE sidecar
LoadDegrades == IF ~up THEN TRUE ELSE IF platform # NoAnchor THEN FALSE ELSE degraded

(* CompositeAuditAnchor::store *)
Store(a) ==
  IF up THEN platform' = a /\ degraded' = FALSE /\ UNCHANGED sidecar
        ELSE sidecar' = a /\ degraded' = TRUE /\ UNCHANGED platform

-----------------------------------------------------------------------------
(***************************************************************************)
(* Commands.                                                               *)
(***************************************************************************)

(* dispatch locks an idle vault before it does anything else. *)
Ready == alive /\ op = NoOp
Dispatch == Ready /\ ~(idle /\ vault # 0) /\ idle' = FALSE

(* remove_session_token: whether the file went, nobody asks. *)
RemoveToken ==
  \/ tokenFile' = 0 /\ astray' = FALSE
  \/ tokenFile # 0 /\ UNCHANGED tokenFile /\ astray' = TRUE

(* write_session_token: nor whether it could be opened, which empties it, or *)
(* written.                                                                  *)
WriteToken(t) ==
  \/ tokenFile' = t /\ astray' = FALSE
  \/ tokenFile' \in {0, tokenFile} /\ astray' = TRUE

(* Mutated form: the token file stays. *)
LocksInMemory ==
  /\ vault' = 0 /\ session' = 0
  /\ UNCHANGED <<tokenFile, astray>>

(* lock_internal_locked: an event if the vault was unlocked, then no key, no *)
(* session, no token file.                                                   *)
Locks ==
  /\ vault' = 0 /\ session' = 0
  /\ RemoveToken

LockEvent == IF vault # 0 THEN Append1 ELSE NoEvent

(* The command goes on to store the anchor of the chain as it is now. *)
ThenAnchor(kind) == op' = [kind |-> kind, at |-> "anchor", tail |-> TailOf(chain')]

LockNow ==
  /\ LockEvent /\ Locks
  /\ ThenAnchor("lock")
  /\ UNCHANGED <<alive, header, issued, guard, anchorVars, up, spent>>

VaultLock == Dispatch /\ LockNow
AutoLock  == Ready /\ idle /\ vault # 0 /\ LockNow /\ UNCHANGED idle

(* lock_with_reason: the screen was locked, or the tray menu was used. *)
DesktopLock == Ready /\ LockNow /\ UNCHANGED idle

(* vault.unlock, right password.  A vault may be unlocked again. *)
VaultUnlock ==
  /\ Dispatch /\ Allows("unlock") /\ header # 0
  /\ OnSuccess("unlock")
  /\ Append1
  /\ vault' = header
  /\ issued < MaxToken
  /\ ThenAnchor("unlock")
  /\ UNCHANGED <<alive, header, session, tokenFile, issued, astray, anchorVars, up, spent>>

(* The wrong password, or no vault. *)
UnlockFails ==
  /\ Dispatch /\ Allows("unlock")
  /\ OnFailure("unlock")
  /\ UNCHANGED <<alive, lockVars, chainVars, anchorVars, up, op>>

(* approval.result for a request made while the vault was locked: the password *)
(* opens a vault of the request's own.                                         *)
ApprovalUnlock ==
  /\ Dispatch /\ Allows("unlock") /\ header # 0
  /\ OnSuccess("unlock")
  /\ Append1
  /\ UNCHANGED <<alive, lockVars, anchorVars, up, op, spent>>

ApprovalUnlockFails ==
  /\ Dispatch /\ Allows("unlock")
  /\ OnFailure("unlock")
  /\ UNCHANGED <<alive, lockVars, chainVars, anchorVars, up, op>>

(* sync_anchor of the command under way: after the append, the store. *)
SyncAnchor ==
  /\ op.at = "anchor"
  /\ Store(op.tail)
  /\ anchorOk' = ~degraded'
  /\ op' = IF op.kind \in {"unlock", "exit"} THEN [op EXCEPT !.at = "end"] ELSE NoOp
  /\ UNCHANGED <<alive, lockVars, guard, idle, chainVars, flushed, up, spent>>

IssueToken ==
  /\ op.kind = "unlock" /\ op.at = "end"
  /\ issued' = issued + 1
  /\ session' = issued + 1
  /\ WriteToken(issued + 1)
  /\ op' = NoOp
  /\ UNCHANGED <<alive, header, vault, guard, idle, chainVars, anchorVars, up, spent>>

(* vault.recover with a valid code: locked first, then everything is sealed with *)
(* a new key and the rotation is recorded.                                       *)
VaultRecover ==
  /\ Dispatch /\ Allows("recover")
  /\ header # 0 /\ spent.keys < MaxKey
  /\ OnSuccess("recover")
  /\ IF vault # 0 THEN Append2 ELSE Append1
  /\ Locks
  /\ header' = spent.keys + 1
  /\ spent' = [spent EXCEPT !.keys = spent.keys + 1]
  /\ ThenAnchor("recover")
  /\ UNCHANGED <<alive, issued, anchorVars, up>>

(* A wrong code, or a new password that is too short: the vault is locked all *)
(* the same, and the anchor is not stored.                                    *)
RecoverFails ==
  /\ Dispatch /\ Allows("recover")
  /\ OnFailure("recover")
  /\ LockEvent /\ Locks
  /\ UNCHANGED <<alive, header, issued, anchorVars, up, op>>

(* vault.init; over an existing vault only with force, which locks first.  The *)
(* anchor is not stored.                                                       *)
VaultInit ==
  /\ Dispatch
  /\ spent.keys < MaxKey
  /\ IF header = 0
       THEN Append1 /\ UNCHANGED <<vault, session, tokenFile, astray>>
       ELSE Locks /\ IF vault # 0 THEN Append2 ELSE Append1
  /\ header' = spent.keys + 1
  /\ spent' = [spent EXCEPT !.keys = spent.keys + 1]
  /\ UNCHANGED <<alive, issued, guard, anchorVars, up, op>>

(* A call that needs the session, with whatever token the caller has. *)
Admitted(t) == vault # 0 /\ session # 0 /\ session = t

Call(t) ==
  /\ Dispatch
  /\ IF Admitted(t) THEN Append1 ELSE NoEvent
  /\ UNCHANGED <<alive, lockVars, guard, anchorVars, up, op, spent>>

(* audit.verify reads the anchor. *)
AuditVerify(t) ==
  /\ Dispatch /\ Admitted(t)
  /\ degraded' = LoadDegrades
  /\ UNCHANGED <<alive, lockVars, guard, chainVars, platform, sidecar, anchorOk, flushed,
                 up, op, spent>>

-----------------------------------------------------------------------------
(***************************************************************************)
(* The flusher thread, the start and the end of the process.               *)
(***************************************************************************)
(* Mutated form: the flusher stores an anchor only where there is none. *)
FlushOnce ==
  /\ alive
  /\ flushed = NoAnchor /\ platform = NoAnchor /\ sidecar = NoAnchor
  /\ flushed' = TailOf(chain)
  /\ UNCHANGED <<alive, lockVars, guard, idle, chainVars, platform, sidecar, degraded, anchorOk,
                 up, op, spent>>

FlushRead ==
  /\ alive
  /\ flushed = NoAnchor
  /\ flushed' = TailOf(chain)
  /\ UNCHANGED <<alive, lockVars, guard, idle, chainVars, platform, sidecar, degraded, anchorOk,
                 up, op, spent>>

FlushStore ==
  /\ alive
  /\ flushed # NoAnchor
  /\ Store(flushed)
  /\ flushed' = NoAnchor
  /\ UNCHANGED <<alive, lockVars, guard, idle, chainVars, anchorOk, up, op, spent>>

(* Daemon::start, with anchor_selfcheck. *)
Start ==
  /\ ~alive /\ alive' = TRUE
  /\ guard' = [d \in Door |-> FreshGuard]
  /\ idle' = FALSE
  /\ degraded' = ~up
  /\ anchorOk' = (Clean(Loaded) /\ up)
  /\ UNCHANGED <<lockVars, chainVars, platform, sidecar, flushed, up, op, spent>>

Stops == spent.stops < MaxStops /\ spent' = [spent EXCEPT !.stops = spent.stops + 1]

(* shutdown: the anchor is stored, then the session ends. *)
Shutdown ==
  /\ Ready
  /\ Stops
  /\ op' = [kind |-> "exit", at |-> "anchor", tail |-> TailOf(chain)]
  /\ UNCHANGED <<alive, lockVars, guard, idle, chainVars, anchorVars, up>>

Gone ==
  /\ alive' = FALSE
  /\ vault' = 0 /\ session' = 0
  /\ op' = NoOp
  /\ flushed' = NoAnchor

Exit ==
  /\ op.kind = "exit" /\ op.at = "end"
  /\ Gone
  /\ RemoveToken
  /\ UNCHANGED <<header, issued, guard, idle, chainVars, platform, sidecar, degraded, anchorOk,
                 up, spent>>

Crash ==
  /\ alive
  /\ Stops
  /\ Gone
  /\ astray' = (tokenFile # 0)
  /\ UNCHANGED <<header, tokenFile, issued, guard, idle, chainVars, platform, sidecar, degraded,
                 anchorOk, up>>

-----------------------------------------------------------------------------
(***************************************************************************)
(* Time and the environment.                                               *)
(***************************************************************************)
Waited(g) == [g EXCEPT !.blocked = IF g.blocked = 0 THEN 0 ELSE g.blocked - 1,
                       !.elapsed = g.elapsed + 1]

Tick ==
  /\ spent.time < MaxTime
  /\ spent' = [spent EXCEPT !.time = spent.time + 1]
  /\ guard' = [d \in Door |-> Waited(guard[d])]
  /\ UNCHANGED <<alive, lockVars, idle, chainVars, anchorVars, up, op>>

GoIdle ==
  /\ Ready /\ ~idle /\ vault # 0
  /\ idle' = TRUE
  /\ UNCHANGED <<alive, lockVars, guard, chainVars, anchorVars, up, op, spent>>

(* The keyring goes away or comes back. *)
Flap ==
  /\ spent.flaps < MaxFlaps
  /\ spent' = [spent EXCEPT !.flaps = spent.flaps + 1]
  /\ up' = ~up
  /\ UNCHANGED <<alive, lockVars, guard, idle, chainVars, anchorVars, op>>

(* While no daemon runs, the log loses its last events (an older copy is put back). *)
LoseTail ==
  /\ ~alive
  /\ spent.losses < MaxLosses
  /\ spent' = [spent EXCEPT !.losses = spent.losses + 1]
  /\ \E n \in 0..(Len(chain) - 1) : chain' = SubSeq(chain, 1, n)
  /\ UNCHANGED <<alive, lockVars, guard, idle, events, anchorVars, up, op>>

Init ==
  /\ alive = FALSE
  /\ header = 0 /\ vault = 0 /\ session = 0 /\ tokenFile = 0 /\ issued = 0
  /\ guard = [d \in Door |-> FreshGuard]
  /\ idle = FALSE
  /\ chain = <<>> /\ events = 0
  /\ platform = NoAnchor /\ sidecar = NoAnchor /\ up \in BOOLEAN
  /\ degraded = FALSE /\ anchorOk = FALSE /\ flushed = NoAnchor
  /\ op = NoOp
  /\ astray = FALSE
  /\ spent = [keys |-> 0, guesses |-> 0, time |-> 0, flaps |-> 0, stops |-> 0, losses |-> 0]

Calls == \E t \in 0..issued : Call(t) \/ AuditVerify(t)

Next ==
  \/ VaultLock \/ AutoLock \/ DesktopLock
  \/ VaultUnlock \/ UnlockFails \/ ApprovalUnlock \/ ApprovalUnlockFails
  \/ SyncAnchor \/ IssueToken
  \/ VaultRecover \/ RecoverFails \/ VaultInit \/ Calls
  \/ FlushRead \/ FlushStore
  \/ Start \/ Shutdown \/ Exit \/ Crash
  \/ Tick \/ GoIdle \/ Flap \/ LoseTail

Spec == Init /\ [][Next]_vars

(* A command that has begun goes on; the flusher wakes up every minute. *)
Fairness ==
  /\ WF_vars(SyncAnchor) /\ WF_vars(IssueToken) /\ WF_vars(Exit)
  /\ WF_vars(FlushRead) /\ WF_vars(FlushStore)

FairSpec == Spec /\ Fairness

-----------------------------------------------------------------------------
TypeOK ==
  /\ alive \in BOOLEAN
  /\ header \in 0..MaxKey /\ vault \in 0..MaxKey
  /\ session \in 0..MaxToken /\ tokenFile \in 0..MaxToken /\ issued \in 0..MaxToken
  /\ guard \in [Door -> AuthGuard]
  /\ idle \in BOOLEAN /\ up \in BOOLEAN /\ degraded \in BOOLEAN /\ anchorOk \in BOOLEAN
  /\ chain \in Seq(1..MaxEvents) /\ events \in 0..MaxEvents
  /\ platform \in Anchor \cup {NoAnchor} /\ sidecar \in Anchor \cup {NoAnchor}
  /\ flushed \in Anchor \cup {NoAnchor}
  /\ op \in Op
  /\ astray \in BOOLEAN
  /\ spent \in [keys : 0..MaxKey, guesses : 0..MaxGuesses, time : 0..MaxTime,
                flaps : 0..MaxFlaps, stops : 0..MaxStops, losses : 0..MaxLosses]

(* A valid session means a vault unlocked with the key of the present password,  *)
(* whatever locks, recoveries, resets and crashes came before, and it is always  *)
(* the last one issued: a token that a crash or a failed removal left on disk    *)
(* never opens anything again.  Unless it was left so, session.token holds just  *)
(* the session there is.                                                         *)
SessionSound ==
  /\ vault # 0 => vault = header
  /\ session # 0 => vault # 0 /\ session = issued
  /\ op = NoOp /\ vault # 0 => session # 0
  /\ tokenFile <= issued
  /\ ~ astray => tokenFile = session

(* However wrong passwords come in, through vault.unlock or through approvals, *)
(* there is one more than the threshold allows only after a second each.        *)
GuessesPaced == \A d \in Door : guard[d].failures <= Threshold + guard[d].elapsed

(* A chain that lost nothing is never reported truncated or tampered with,     *)
(* whichever of command and flusher stored the anchor last, where, and however  *)
(* the process ended.                                                           *)
NoFalseAlarm ==
  spent.losses = 0 => Check(Loaded) \in {"ok", "behind", "missing"}

(* While the daemon runs, the anchor catches up with the chain. *)
Covered == Check(Loaded) = "ok"
AnchorCatchesUp == []<>(Covered \/ ~alive)
=============================================================================
