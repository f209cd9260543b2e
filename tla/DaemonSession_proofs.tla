------------------------- MODULE DaemonSession_proofs -------------------------
(***************************************************************************)
(* What DaemonSession guarantees for any threshold, any cap and any bounds *)
(* on the environment: wrong guesses are slowed down, a session belongs to *)
(* the vault and the token file, and the anchor never cries wolf.  Guards, *)
(* chain, anchors and session change together in few ways, so each has an  *)
(* inductive invariant of its own; TypeCorrect puts them together.         *)
(***************************************************************************)
EXTENDS DaemonSession, TLAPS, SequenceTheorems

-----------------------------------------------------------------------------
(***************************************************************************)
(* The back-off.                                                           *)
(***************************************************************************)

(* A guard that may be tried now has a failure in hand. *)
Paced(g) ==
  /\ g.failures <= Threshold + g.elapsed
  /\ g.blocked = 0 => g.failures < Threshold + g.elapsed

GuardInv == guard \in [Door -> AuthGuard] /\ \A d \in Door : Paced(guard[d])

GuardShape ==
  \/ guard' = guard
  \/ guard' = [d \in Door |-> FreshGuard]
  \/ guard' = [d \in Door |-> Waited(guard[d])]
  \/ \E d \in Door : guard' = [guard EXCEPT ![d] = FreshGuard]
  \/ \E d \in Door : Allows(d) /\ guard' = [guard EXCEPT ![d] = Failed(guard[d])]

(* A fresh guard, at the start and after a success, is paced. *)
LEMMA FreshPaced == FreshGuard \in AuthGuard /\ Paced(FreshGuard)
  BY BackoffAssumption DEF FreshGuard, AuthGuard, Paced

(* The wait after a failure is none only below the threshold. *)
LEMMA NextWaitRange ==
  ASSUME NEW g \in AuthGuard
  PROVE  /\ NextWait(g) \in 0..Cap
         /\ NextWait(g) = 0 => g.failures + 1 < Threshold
  <1>1. g.wait \in 0..Cap /\ g.failures \in Nat
    BY DEF AuthGuard
  <1>2. CASE g.failures + 1 < Threshold
    BY <1>1, <1>2, BackoffAssumption DEF NextWait
  <1>3. CASE ~(g.failures + 1 < Threshold) /\ g.wait = 0
    BY <1>1, <1>3, BackoffAssumption DEF NextWait
  <1>4. CASE ~(g.failures + 1 < Threshold) /\ g.wait # 0
    BY <1>1, <1>4, BackoffAssumption DEF NextWait
  <1> QED
    BY <1>2, <1>3, <1>4

(* Failed and Waited name the fields they change. *)
WithGuess(g, f, w) == [g EXCEPT !.failures = f, !.wait = w, !.blocked = w]
WithTime(g, b, e) == [g EXCEPT !.blocked = b, !.elapsed = e]

(* What a counted failure changes, and what it leaves. *)
LEMMA WithGuessFields ==
  ASSUME NEW g \in AuthGuard, NEW f \in Nat, NEW w \in 0..Cap
  PROVE  /\ WithGuess(g, f, w) \in AuthGuard
         /\ WithGuess(g, f, w).failures = f
         /\ WithGuess(g, f, w).blocked = w
         /\ WithGuess(g, f, w).elapsed = g.elapsed
  BY DEF AuthGuard, WithGuess

(* What a second changes, and what it leaves. *)
LEMMA WithTimeFields ==
  ASSUME NEW g \in AuthGuard, NEW b \in 0..Cap, NEW e \in Nat
  PROVE  /\ WithTime(g, b, e) \in AuthGuard
         /\ WithTime(g, b, e).failures = g.failures
         /\ WithTime(g, b, e).blocked = b
         /\ WithTime(g, b, e).elapsed = e
  BY DEF AuthGuard, WithTime

(* A failure is only counted when the guard lets one try. *)
LEMMA FailedPaced ==
  ASSUME NEW g \in AuthGuard, Paced(g), g.blocked = 0
  PROVE  Failed(g) \in AuthGuard /\ Paced(Failed(g))
  <1>1. /\ g.failures \in Nat /\ g.elapsed \in Nat
        /\ g.failures < Threshold + g.elapsed
    BY DEF AuthGuard, Paced
  <1>2. /\ NextWait(g) \in 0..Cap
        /\ NextWait(g) = 0 => g.failures + 1 < Threshold
    BY NextWaitRange
  <1>3. g.failures + 1 \in Nat
    BY <1>1
  <1> HIDE DEF NextWait
  <1>4. Failed(g) = WithGuess(g, g.failures + 1, NextWait(g))
    BY DEF Failed, WithGuess
  <1>5. /\ Failed(g) \in AuthGuard
        /\ Failed(g).failures = g.failures + 1
        /\ Failed(g).blocked = NextWait(g)
        /\ Failed(g).elapsed = g.elapsed
    BY <1>2, <1>3, <1>4, WithGuessFields
  <1>6. Paced(Failed(g))
    BY <1>1, <1>2, <1>5, BackoffAssumption DEF Paced
  <1> QED
    BY <1>5, <1>6

(* A second of waiting gives back as much as it takes. *)
LEMMA WaitedPaced ==
  ASSUME NEW g \in AuthGuard, Paced(g)
  PROVE  Waited(g) \in AuthGuard /\ Paced(Waited(g))
  <1> DEFINE left == IF g.blocked = 0 THEN 0 ELSE g.blocked - 1
  <1>1. /\ g.failures \in Nat /\ g.elapsed \in Nat /\ g.blocked \in 0..Cap
        /\ g.failures <= Threshold + g.elapsed
    BY DEF AuthGuard, Paced
  <1>2. left \in 0..Cap
    BY <1>1, BackoffAssumption
  <1>3. g.elapsed + 1 \in Nat
    BY <1>1
  <1>4. Waited(g) = WithTime(g, left, g.elapsed + 1)
    BY DEF Waited, WithTime
  <1> HIDE DEF left
  <1>5. /\ Waited(g) \in AuthGuard
        /\ Waited(g).failures = g.failures
        /\ Waited(g).blocked = left
        /\ Waited(g).elapsed = g.elapsed + 1
    BY <1>2, <1>3, <1>4, WithTimeFields
  <1> USE DEF left
  <1>6. Paced(Waited(g))
    BY <1>1, <1>5, BackoffAssumption DEF Paced
  <1> QED
    BY <1>5, <1>6

(* The guards change in five ways: not at all, all fresh, a second older, one fresh *)
(* after a success, one with a failure more, counted only where one may be tried.   *)
LEMMA GuardSteps == [Next]_vars => GuardShape
  <1> SUFFICES ASSUME [Next]_vars PROVE GuardShape
    OBVIOUS
  <1> "unlock" \in Door /\ "recover" \in Door
    BY DEF Door
  <1>1. CASE VaultUnlock \/ ApprovalUnlock \/ VaultRecover
    BY <1>1 DEF VaultUnlock, ApprovalUnlock, VaultRecover, OnSuccess, GuardShape
  <1>2. CASE UnlockFails \/ ApprovalUnlockFails \/ RecoverFails
    BY <1>2 DEF UnlockFails, ApprovalUnlockFails, RecoverFails, OnFailure, GuardShape
  <1>3. CASE Start
    BY <1>3 DEF Start, GuardShape
  <1>4. CASE Tick
    BY <1>4 DEF Tick, GuardShape
  <1>5. CASE VaultLock \/ AutoLock \/ DesktopLock \/ SyncAnchor \/ IssueToken \/ VaultInit
    BY <1>5 DEF VaultLock, AutoLock, DesktopLock, LockNow, SyncAnchor, IssueToken, VaultInit,
                GuardShape
  <1>6. CASE Calls \/ FlushRead \/ FlushStore \/ Shutdown \/ Exit \/ Crash
    BY <1>6 DEF Calls, Call, AuditVerify, FlushRead, FlushStore, Shutdown, Exit, Crash,
                GuardShape
  <1>7. CASE GoIdle \/ Flap \/ LoseTail \/ UNCHANGED vars
    BY <1>7 DEF GoIdle, Flap, LoseTail, vars, GuardShape
  <1> QED
    BY <1>1, <1>2, <1>3, <1>4, <1>5, <1>6, <1>7 DEF Next

(* A step of a paced guard leaves it paced. *)
LEMMA GuardPreserved == GuardInv /\ [Next]_vars => GuardInv'
  <1> SUFFICES ASSUME GuardInv, GuardShape PROVE GuardInv'
    BY GuardSteps
  <1> USE DEF GuardInv
  <1>1. CASE guard' = guard
    BY <1>1 DEF Paced
  <1>2. CASE guard' = [d \in Door |-> FreshGuard]
    BY <1>2, FreshPaced DEF Paced
  <1>3. CASE guard' = [d \in Door |-> Waited(guard[d])]
    BY <1>3, WaitedPaced DEF Paced
  <1>4. CASE \E d \in Door : guard' = [guard EXCEPT ![d] = FreshGuard]
    BY <1>4, FreshPaced DEF Paced
  <1>5. CASE \E d \in Door : Allows(d) /\ guard' = [guard EXCEPT ![d] = Failed(guard[d])]
    <2> PICK d \in Door : Allows(d) /\ guard' = [guard EXCEPT ![d] = Failed(guard[d])]
      BY <1>5
    <2>1. Failed(guard[d]) \in AuthGuard /\ Paced(Failed(guard[d]))
      BY FailedPaced DEF Allows
    <2> QED
      BY <2>1 DEF Paced
  <1> QED
    BY <1>1, <1>2, <1>3, <1>4, <1>5 DEF GuardShape

(* However the two doors are tried, there is never more than one wrong guess per *)
(* second beyond the threshold (daemon/mod.rs, AuthGuard).                        *)
THEOREM GuessesArePaced == Spec => []GuessesPaced
  <1>1. Init => GuardInv
    BY FreshPaced DEF Init, GuardInv
  <1>2. GuardInv => GuessesPaced
    BY DEF GuardInv, GuessesPaced, Paced
  <1> QED
    BY <1>1, <1>2, GuardPreserved, PTL DEF Spec

-----------------------------------------------------------------------------
(***************************************************************************)
(* The session.                                                            *)
(***************************************************************************)

(* Between two steps of an unlock the vault is open; of a lock or a recovery, *)
(* locked.  The tail a command carries does not matter here.                  *)
SessionInv ==
  /\ SessionSound
  /\ issued \in Nat /\ tokenFile \in Nat
  /\ op = [kind |-> op.kind, at |-> op.at, tail |-> op.tail]
  /\ op # NoOp => op.kind \in {"unlock", "lock", "recover", "exit"}
  /\ op.kind = "unlock" => vault # 0
  /\ op.kind \in {"lock", "recover"} => vault = 0

(* There is no session and no command to begin with. *)
LEMMA SessionInitially == Init => SessionInv
  BY DEF Init, SessionInv, SessionSound, NoOp, lockVars, OpKind

(* A command is one of four kinds; no command is none of them. *)
LEMMA NewOp ==
  ASSUME NEW k \in {"unlock", "lock", "recover", "exit"}, NEW t,
         op' = [kind |-> k, at |-> "anchor", tail |-> t]
  PROVE  /\ op' # NoOp /\ op'.kind = k
         /\ op' = [kind |-> op'.kind, at |-> op'.at, tail |-> op'.tail]
  BY DEF NoOp

(* No command is a record like any other. *)
LEMMA NoOpShape ==
  /\ NoOp.kind = "none"
  /\ NoOp = [kind |-> NoOp.kind, at |-> NoOp.at, tail |-> NoOp.tail]
  BY DEF NoOp

(* The commands, begun while none is under way. *)
LEMMA SessionCommands ==
  ASSUME SessionInv, op = NoOp,
         \/ VaultLock \/ AutoLock \/ DesktopLock
         \/ VaultUnlock \/ VaultRecover \/ RecoverFails \/ VaultInit \/ Shutdown
  PROVE  SessionInv'
  <1> USE DEF SessionInv, SessionSound, RemoveToken, WriteToken
  <1>1. CASE VaultLock \/ AutoLock \/ DesktopLock
    <2>1. /\ op' = [kind |-> "lock", at |-> "anchor", tail |-> TailOf(chain')]
          /\ vault' = 0 /\ session' = 0 /\ RemoveToken /\ issued' = issued
      BY <1>1 DEF VaultLock, AutoLock, DesktopLock, LockNow, Locks, ThenAnchor
    <2> QED
      BY <2>1, NewOp
  <1>2. CASE VaultUnlock
    <2>1. /\ op' = [kind |-> "unlock", at |-> "anchor", tail |-> TailOf(chain')]
          /\ vault' = header /\ header # 0 /\ header' = header
          /\ UNCHANGED <<session, tokenFile, issued, astray>>
      BY <1>2 DEF VaultUnlock, ThenAnchor
    <2> QED
      BY <2>1, NewOp
  <1>3. CASE VaultRecover
    <2>1. /\ op' = [kind |-> "recover", at |-> "anchor", tail |-> TailOf(chain')]
          /\ vault' = 0 /\ session' = 0 /\ RemoveToken /\ issued' = issued
      BY <1>3 DEF VaultRecover, Locks, ThenAnchor
    <2> QED
      BY <2>1, NewOp
  <1>4. CASE RecoverFails
    <2>1. op' = op /\ vault' = 0 /\ session' = 0 /\ RemoveToken /\ issued' = issued
      BY <1>4 DEF RecoverFails, Locks
    <2> QED
      BY <2>1, NoOpShape
  <1>5. CASE VaultInit
    <2>1. /\ op' = op /\ issued' = issued
          /\ \/ header = 0 /\ UNCHANGED <<vault, session, tokenFile, astray>>
             \/ vault' = 0 /\ session' = 0 /\ RemoveToken
      BY <1>5 DEF VaultInit, Locks
    <2> QED
      BY <2>1, NoOpShape
  <1>6. CASE Shutdown
    <2>1. /\ op' = [kind |-> "exit", at |-> "anchor", tail |-> TailOf(chain)]
          /\ UNCHANGED <<header, vault, session, tokenFile, issued, astray>>
      BY <1>6 DEF Shutdown, lockVars
    <2> QED
      BY <2>1, NewOp
  <1> QED
    BY <1>1, <1>2, <1>3, <1>4, <1>5, <1>6

(* The steps of a command under way, and the ends of the process. *)
LEMMA SessionOngoing ==
  ASSUME SessionInv, SyncAnchor \/ IssueToken \/ Exit \/ Crash
  PROVE  SessionInv'
  <1> USE DEF SessionInv, SessionSound, RemoveToken, WriteToken
  <1>1. CASE SyncAnchor
    <2>1. /\ op.at = "anchor"
          /\ op' = IF op.kind \in {"unlock", "exit"} THEN [op EXCEPT !.at = "end"] ELSE NoOp
          /\ UNCHANGED <<header, vault, session, tokenFile, issued, astray>>
      BY <1>1 DEF SyncAnchor, lockVars
    <2>2. op # NoOp
      BY <2>1 DEF NoOp
    <2>3. CASE op.kind \in {"unlock", "exit"}
      <3>1. /\ op'.kind = op.kind /\ op' # NoOp
            /\ op' = [kind |-> op'.kind, at |-> op'.at, tail |-> op'.tail]
        BY <2>1, <2>3 DEF NoOp
      <3> QED
        BY <2>1, <2>3, <3>1
    <2>4. CASE op.kind \in {"lock", "recover"}
      <3>1. op' = NoOp /\ vault' = 0
        BY <2>1, <2>4
      <3> QED
        BY <2>1, <3>1, NoOpShape
    <2> QED
      BY <2>2, <2>3, <2>4
  <1>2. CASE IssueToken
    <2>1. /\ op' = NoOp /\ vault' = vault /\ vault # 0 /\ header' = header
          /\ session' = issued + 1 /\ WriteToken(issued + 1) /\ issued' = issued + 1
      BY <1>2 DEF IssueToken
    <2> QED
      BY <2>1, NoOpShape
  <1>3. CASE Exit
    <2>1. op' = NoOp /\ vault' = 0 /\ session' = 0 /\ RemoveToken /\ issued' = issued
      BY <1>3 DEF Exit, Gone
    <2> QED
      BY <2>1, NoOpShape
  <1>4. CASE Crash
    <2>1. op' = NoOp /\ vault' = 0 /\ session' = 0 /\ issued' = issued
          /\ tokenFile' = tokenFile /\ astray' = (tokenFile # 0)
      BY <1>4 DEF Crash, Gone
    <2> QED
      BY <2>1, NoOpShape
  <1> QED
    BY <1>1, <1>2, <1>3, <1>4

(* What the other steps do not touch. *)
LEMMA SessionUntouched ==
  ASSUME \/ UnlockFails \/ ApprovalUnlock \/ ApprovalUnlockFails \/ Calls
         \/ FlushRead \/ FlushStore \/ Start \/ Tick \/ GoIdle \/ Flap \/ LoseTail
         \/ UNCHANGED vars
  PROVE  UNCHANGED <<header, vault, session, tokenFile, issued, astray, op>>
  BY DEF UnlockFails, ApprovalUnlock, ApprovalUnlockFails, Calls, Call, AuditVerify, FlushRead,
         FlushStore, Start, Tick, GoIdle, Flap, LoseTail, vars, lockVars

(* Every step keeps session, vault and token file together. *)
LEMMA SessionPreserved == SessionInv /\ [Next]_vars => SessionInv'
  <1> SUFFICES ASSUME SessionInv, [Next]_vars PROVE SessionInv'
    OBVIOUS
  <1>1. CASE \/ VaultLock \/ AutoLock \/ DesktopLock
             \/ VaultUnlock \/ VaultRecover \/ RecoverFails \/ VaultInit \/ Shutdown
    <2>1. op = NoOp
      BY <1>1 DEF VaultLock, AutoLock, DesktopLock, VaultUnlock, VaultRecover, RecoverFails,
                  VaultInit, Shutdown, Dispatch, Ready
    <2> QED
      BY <1>1, <2>1, SessionCommands
  <1>2. CASE SyncAnchor \/ IssueToken \/ Exit \/ Crash
    BY <1>2, SessionOngoing
  <1>3. CASE \/ UnlockFails \/ ApprovalUnlock \/ ApprovalUnlockFails \/ Calls
             \/ FlushRead \/ FlushStore \/ Start \/ Tick \/ GoIdle \/ Flap \/ LoseTail
             \/ UNCHANGED vars
    BY <1>3, SessionUntouched DEF SessionInv, SessionSound, NoOp
  <1> QED
    BY <1>1, <1>2, <1>3 DEF Next

(* A session belongs to the unlocked vault, the vault to the present password, and *)
(* session.token to the session, whatever locks, recoveries, resets, crashes and   *)
(* failures to write or remove that file came before; a token that stays behind    *)
(* belongs to no session any more.                                                 *)
THEOREM SessionsSound == Spec => []SessionSound
  <1>1. SessionInv => SessionSound
    BY DEF SessionInv
  <1> QED
    BY <1>1, SessionInitially, SessionPreserved, PTL DEF Spec

-----------------------------------------------------------------------------
(***************************************************************************)
(* The chain and its anchors.                                              *)
(***************************************************************************)
ChainTyped ==
  chain \in Seq(1..MaxEvents) /\ events \in 0..MaxEvents /\ Len(chain) <= events

(* The chain only grows, unless its tail is lost. *)
Grows == Append1 \/ Append2 \/ NoEvent

(* Nothing else changes the chain. *)
LEMMA ChainSteps == [Next]_vars => Grows \/ LoseTail
  <1> SUFFICES ASSUME [Next]_vars PROVE Grows \/ LoseTail
    OBVIOUS
  <1> USE DEF Grows, NoEvent, LockEvent, chainVars
  <1>1. CASE VaultLock \/ AutoLock \/ DesktopLock
    BY <1>1 DEF VaultLock, AutoLock, DesktopLock, LockNow
  <1>2. CASE VaultUnlock \/ ApprovalUnlock
    BY <1>2 DEF VaultUnlock, ApprovalUnlock
  <1>3. CASE UnlockFails \/ ApprovalUnlockFails \/ RecoverFails
    BY <1>3 DEF UnlockFails, ApprovalUnlockFails, RecoverFails
  <1>4. CASE VaultRecover \/ VaultInit
    BY <1>4 DEF VaultRecover, VaultInit
  <1>5. CASE Calls
    BY <1>5 DEF Calls, Call, AuditVerify
  <1>6. CASE SyncAnchor \/ IssueToken \/ FlushRead \/ FlushStore
    BY <1>6 DEF SyncAnchor, IssueToken, FlushRead, FlushStore
  <1>7. CASE Start \/ Shutdown \/ Exit \/ Crash
    BY <1>7 DEF Start, Shutdown, Exit, Crash
  <1>8. CASE Tick \/ GoIdle \/ Flap \/ LoseTail \/ UNCHANGED vars
    BY <1>8 DEF Tick, GoIdle, Flap, vars
  <1> QED
    BY <1>1, <1>2, <1>3, <1>4, <1>5, <1>6, <1>7, <1>8 DEF Next

(* Appending keeps what was there in its place. *)
LEMMA GrowthKeeps ==
  ASSUME ChainTyped, Grows
  PROVE  /\ ChainTyped'
         /\ Len(chain') >= Len(chain)
         /\ \A i \in 1..Len(chain) : chain'[i] = chain[i]
  <1> USE DEF ChainTyped
  <1>1. CASE Append1
    BY <1>1, SessionBounds DEF Append1
  <1>2. CASE Append2
    <2> DEFINE two == <<events + 1, events + 2>>
    <2>1. /\ two \in Seq(1..MaxEvents) /\ Len(two) = 2
          /\ events' = events + 2 /\ chain' = chain \o two /\ events + 1 < MaxEvents
      BY <1>2, SessionBounds DEF Append2
    <2> HIDE DEF two
    <2>2. /\ chain' \in Seq(1..MaxEvents) /\ Len(chain') = Len(chain) + 2
          /\ \A i \in 1..Len(chain) : chain'[i] = chain[i]
      <3>1. /\ chain \o two \in Seq(1..MaxEvents)
            /\ Len(chain \o two) = Len(chain) + Len(two)
            /\ \A i \in 1..Len(chain) + Len(two) :
                 (chain \o two)[i] = IF i <= Len(chain) THEN chain[i] ELSE two[i - Len(chain)]
        <4> HIDE DEF ChainTyped
        <4>1. chain \in Seq(1..MaxEvents)
          BY DEF ChainTyped
        <4> QED
          BY <2>1, <4>1, ConcatProperties, Zenon
      <3>2. Len(chain) \in Nat
        OBVIOUS
      <3> QED
        BY <2>1, <3>1, <3>2
    <2> QED
      BY <2>1, <2>2, SessionBounds
  <1>3. CASE NoEvent
    BY <1>3 DEF NoEvent, chainVars
  <1> QED
    BY <1>1, <1>2, <1>3 DEF Grows

(* A cut keeps the first n events. *)
LEMMA Prefix ==
  ASSUME NEW S, NEW s \in Seq(S), NEW n \in 0..(Len(s) - 1)
  PROVE  SubSeq(s, 1, n) \in Seq(S) /\ Len(SubSeq(s, 1, n)) = n
  <1>1. 1 \in Int /\ n \in Nat /\ n \in Int /\ n < Len(s) /\ Len(s) \in Nat
    OBVIOUS
  <1>2. \A i \in 1..n : s[i] \in S
    BY <1>1
  <1>3. /\ SubSeq(s, 1, n) \in Seq(S)
        /\ Len(SubSeq(s, 1, n)) = IF 1 <= n THEN n - 1 + 1 ELSE 0
    BY <1>1, <1>2
  <1> QED
    BY <1>1, <1>3

(* The chain is never longer than the number of events there were. *)
LEMMA ChainPreserved == ChainTyped /\ [Next]_vars => ChainTyped'
  <1> SUFFICES ASSUME ChainTyped, [Next]_vars PROVE ChainTyped'
    OBVIOUS
  <1>1. CASE Grows
    BY <1>1, GrowthKeeps
  <1>2. CASE LoseTail
    <2> PICK n \in 0..(Len(chain) - 1) : chain' = SubSeq(chain, 1, n) /\ events' = events
      BY <1>2 DEF LoseTail
    <2>1. /\ n \in Nat /\ n < Len(chain) /\ Len(chain) \in Nat
      BY DEF ChainTyped
    <2>2. SubSeq(chain, 1, n) \in Seq(1..MaxEvents) /\ Len(SubSeq(chain, 1, n)) = n
      BY Prefix DEF ChainTyped
    <2> QED
      BY <2>1, <2>2 DEF ChainTyped
  <1> QED
    BY <1>1, <1>2, ChainSteps

(* The anchor a vouches for the chain c: no more events than c has, and the last *)
(* of them is the one found there.                                               *)
Vouches(a, c) ==
  \/ a = NoAnchor
  \/ /\ a.ordinal \in 0..Len(c)
     /\ a.ordinal # 0 => a.last = c[a.ordinal]

(* The tail of a chain vouches for it. *)
LEMMA TailVouches ==
  ASSUME NEW c \in Seq(1..MaxEvents)
  PROVE  Vouches(TailOf(c), c)
  BY DEF TailOf, Last, Vouches

(* What vouches for a chain vouches for it when it has grown. *)
LEMMA VouchesOn ==
  ASSUME ChainTyped, Grows, NEW a, Vouches(a, chain)
  PROVE  Vouches(a, chain')
  BY GrowthKeeps DEF Vouches, ChainTyped

(* What vouches for the chain is no reason for an alarm. *)
LEMMA VouchedIsQuiet ==
  ASSUME ChainTyped, NEW a, Vouches(a, chain)
  PROVE  Check(a) \in {"ok", "behind", "missing"}
  BY DEF Check, Vouches, Last, ChainTyped

(***************************************************************************)
(* Where anchors come from.                                                *)
(***************************************************************************)

(* An anchor stored, read or carried by a command was one before, or is the tail *)
(* of the chain.                                                                 *)
Sources ==
  {platform, sidecar, flushed, NoAnchor, TailOf(chain')}
    \cup (IF op.at = "anchor" THEN {op.tail} ELSE {})

AnchorMoves ==
  /\ platform' \in Sources /\ sidecar' \in Sources /\ flushed' \in Sources
  /\ op'.at = "anchor" => op'.tail \in Sources

(* No step makes an anchor up. *)
LEMMA AnchorSteps ==
  ASSUME op \in Op, [Next]_vars
  PROVE  AnchorMoves
  <1> USE DEF AnchorMoves, Sources, anchorVars
  <1>1. CASE VaultLock \/ AutoLock \/ DesktopLock \/ VaultUnlock \/ VaultRecover
    BY <1>1 DEF VaultLock, AutoLock, DesktopLock, LockNow, VaultUnlock, VaultRecover, ThenAnchor
  <1>2. CASE UnlockFails \/ ApprovalUnlock \/ ApprovalUnlockFails \/ RecoverFails \/ VaultInit
    BY <1>2 DEF UnlockFails, ApprovalUnlock, ApprovalUnlockFails, RecoverFails, VaultInit
  <1>3. CASE SyncAnchor
    <2>1. op'.at # "anchor"
      <3>1. op' = [op EXCEPT !.at = "end"] \/ op' = NoOp
        BY <1>3 DEF SyncAnchor
      <3>2. [op EXCEPT !.at = "end"].at = "end" /\ NoOp.at = "none"
        BY DEF Op, NoOp
      <3> QED
        BY <3>1, <3>2
    <2> QED
      BY <1>3, <2>1 DEF SyncAnchor, Store
  <1>4. CASE IssueToken \/ Exit \/ Crash
    BY <1>4 DEF IssueToken, Exit, Crash, Gone, NoOp
  <1>5. CASE FlushRead \/ FlushStore
    BY <1>5 DEF FlushRead, FlushStore, Store, chainVars
  <1>6. CASE Start \/ Shutdown
    BY <1>6 DEF Start, Shutdown, chainVars
  <1>7. CASE Calls
    BY <1>7 DEF Calls, Call, AuditVerify
  <1>8. CASE Tick \/ GoIdle \/ Flap \/ LoseTail \/ UNCHANGED vars
    BY <1>8 DEF Tick, GoIdle, Flap, LoseTail, vars
  <1> QED
    BY <1>1, <1>2, <1>3, <1>4, <1>5, <1>6, <1>7, <1>8 DEF Next

(* The anchors are typed, and so is what a command carries. *)
AnchorsTyped ==
  /\ platform \in Anchor \cup {NoAnchor} /\ sidecar \in Anchor \cup {NoAnchor}
  /\ flushed \in Anchor \cup {NoAnchor}
  /\ op \in Op

(* The tail of a chain is an anchor. *)
LEMMA TailTyped ==
  ASSUME NEW c \in Seq(1..MaxEvents), NEW n \in 0..MaxEvents, Len(c) <= n
  PROVE  TailOf(c) \in Anchor
  BY SessionBounds DEF TailOf, Last, Anchor

(* No command is a value op may take. *)
LEMMA NoOpTyped == NoOp \in Op
  BY SessionBounds DEF NoOp, Op, OpKind, TailOf, Last, Anchor

(* op keeps its type, the tail it carries included. *)
LEMMA OpPreserved ==
  ASSUME op \in Op, ChainTyped', [Next]_vars
  PROVE  op' \in Op
  <1>1. TailOf(chain') \in Anchor
    BY TailTyped DEF ChainTyped
  <1>2. CASE \E k \in {"unlock", "lock", "recover", "exit"} :
               op' = [kind |-> k, at |-> "anchor", tail |-> TailOf(chain')]
    BY <1>1, <1>2 DEF Op, OpKind
  <1>3. CASE op' = op \/ op' = NoOp \/ op' = [op EXCEPT !.at = "end"]
    BY <1>3, NoOpTyped DEF Op
  <1>4. CASE VaultLock \/ AutoLock \/ DesktopLock \/ VaultUnlock \/ VaultRecover \/ Shutdown
    BY <1>2, <1>4 DEF VaultLock, AutoLock, DesktopLock, LockNow, VaultUnlock, VaultRecover,
                      ThenAnchor, Shutdown, chainVars
  <1>5. CASE SyncAnchor \/ IssueToken \/ Exit \/ Crash
    BY <1>3, <1>5 DEF SyncAnchor, IssueToken, Exit, Crash, Gone
  <1>6. CASE UnlockFails \/ ApprovalUnlock \/ ApprovalUnlockFails \/ RecoverFails \/ VaultInit
    BY <1>3, <1>6 DEF UnlockFails, ApprovalUnlock, ApprovalUnlockFails, RecoverFails, VaultInit
  <1>7. CASE Calls \/ FlushRead \/ FlushStore \/ Start
    BY <1>3, <1>7 DEF Calls, Call, AuditVerify, FlushRead, FlushStore, Start
  <1>8. CASE Tick \/ GoIdle \/ Flap \/ LoseTail \/ UNCHANGED vars
    BY <1>3, <1>8 DEF Tick, GoIdle, Flap, LoseTail, vars
  <1> QED
    BY <1>4, <1>5, <1>6, <1>7, <1>8 DEF Next

(* The anchors keep their type. *)
LEMMA AnchorsPreserved ==
  ASSUME AnchorsTyped, ChainTyped, [Next]_vars
  PROVE  AnchorsTyped'
  <1>1. ChainTyped'
    BY ChainPreserved
  <1>2. op' \in Op
    BY <1>1, OpPreserved DEF AnchorsTyped
  <1>3. Sources \subseteq Anchor \cup {NoAnchor}
    <2>1. TailOf(chain') \in Anchor /\ op.tail \in Anchor
      BY <1>1, TailTyped DEF AnchorsTyped, Op, ChainTyped
    <2> QED
      BY <2>1 DEF Sources, AnchorsTyped
  <1> QED
    BY <1>2, <1>3, AnchorSteps DEF AnchorMoves, AnchorsTyped

(***************************************************************************)
(* No false alarm.                                                         *)
(***************************************************************************)
Spent == [keys : 0..MaxKey, guesses : 0..MaxGuesses, time : 0..MaxTime,
          flaps : 0..MaxFlaps, stops : 0..MaxStops, losses : 0..MaxLosses]

(* What is used up stays used up: only LoseTail counts a loss. *)
LEMMA SpentSteps ==
  ASSUME spent \in Spent, [Next]_vars
  PROVE  /\ spent' \in Spent
         /\ spent'.losses = spent.losses \/ (LoseTail /\ spent'.losses # 0)
  <1>1. CASE UnlockFails \/ ApprovalUnlockFails \/ RecoverFails
    <2>1. spent.guesses < MaxGuesses /\ spent' = [spent EXCEPT !.guesses = spent.guesses + 1]
      BY <1>1 DEF UnlockFails, ApprovalUnlockFails, RecoverFails, OnFailure
    <2>2. spent.guesses + 1 \in 1..MaxGuesses
      BY <2>1, SessionBounds DEF Spent
    <2>3. spent' \in Spent /\ spent'.losses = spent.losses
      BY <2>1, <2>2 DEF Spent
    <2> QED
      BY <1>1, <2>3
  <1>2. CASE VaultRecover \/ VaultInit
    <2>1. spent.keys < MaxKey /\ spent' = [spent EXCEPT !.keys = spent.keys + 1]
      BY <1>2 DEF VaultRecover, VaultInit
    <2>2. spent.keys + 1 \in 1..MaxKey
      BY <2>1, SessionBounds DEF Spent
    <2>3. spent' \in Spent /\ spent'.losses = spent.losses
      BY <2>1, <2>2 DEF Spent
    <2> QED
      BY <1>2, <2>3
  <1>3. CASE Shutdown \/ Crash
    <2>1. spent.stops < MaxStops /\ spent' = [spent EXCEPT !.stops = spent.stops + 1]
      BY <1>3 DEF Shutdown, Crash, Stops
    <2>2. spent.stops + 1 \in 1..MaxStops
      BY <2>1, SessionBounds DEF Spent
    <2>3. spent' \in Spent /\ spent'.losses = spent.losses
      BY <2>1, <2>2 DEF Spent
    <2> QED
      BY <1>3, <2>3
  <1>4. CASE Tick
    <2>1. spent.time < MaxTime /\ spent' = [spent EXCEPT !.time = spent.time + 1]
      BY <1>4 DEF Tick
    <2>2. spent.time + 1 \in 1..MaxTime
      BY <2>1, SessionBounds DEF Spent
    <2>3. spent' \in Spent /\ spent'.losses = spent.losses
      BY <2>1, <2>2 DEF Spent
    <2> QED
      BY <1>4, <2>3
  <1>5. CASE Flap
    <2>1. spent.flaps < MaxFlaps /\ spent' = [spent EXCEPT !.flaps = spent.flaps + 1]
      BY <1>5 DEF Flap
    <2>2. spent.flaps + 1 \in 1..MaxFlaps
      BY <2>1, SessionBounds DEF Spent
    <2>3. spent' \in Spent /\ spent'.losses = spent.losses
      BY <2>1, <2>2 DEF Spent
    <2> QED
      BY <1>5, <2>3
  <1>6. CASE LoseTail
    <2>1. spent.losses < MaxLosses /\ spent' = [spent EXCEPT !.losses = spent.losses + 1]
      BY <1>6 DEF LoseTail
    <2>2. spent.losses + 1 \in 1..MaxLosses /\ spent.losses + 1 # 0
      BY <2>1, SessionBounds DEF Spent
    <2>3. spent' \in Spent /\ spent'.losses = spent.losses + 1
      BY <2>1, <2>2 DEF Spent
    <2> QED
      BY <1>6, <2>2, <2>3
  <1>7. CASE \/ VaultLock \/ AutoLock \/ DesktopLock \/ VaultUnlock \/ ApprovalUnlock
             \/ SyncAnchor \/ IssueToken \/ Calls \/ FlushRead \/ FlushStore \/ Start \/ Exit
             \/ GoIdle \/ UNCHANGED vars
    BY <1>7 DEF VaultLock, AutoLock, DesktopLock, LockNow, VaultUnlock, ApprovalUnlock,
                SyncAnchor, IssueToken, Calls, Call, AuditVerify, FlushRead, FlushStore,
                Start, Exit, GoIdle, vars
  <1> QED
    BY <1>1, <1>2, <1>3, <1>4, <1>5, <1>6, <1>7 DEF Next

(* A log that lost nothing has only grown. *)
LEMMA OnlyGrows ==
  ASSUME spent \in Spent, [Next]_vars, spent'.losses = 0
  PROVE  Grows /\ spent.losses = 0
  <1>1. CASE LoseTail
    <2>1. spent.losses < MaxLosses /\ spent' = [spent EXCEPT !.losses = spent.losses + 1]
      BY <1>1 DEF LoseTail
    <2>2. spent.losses + 1 # 0
      BY SessionBounds DEF Spent
    <2>3. spent'.losses = spent.losses + 1
      BY <2>1 DEF Spent
    <2> QED
      BY <2>2, <2>3
  <1>2. CASE ~LoseTail
    BY <1>2, SpentSteps, ChainSteps
  <1> QED
    BY <1>1, <1>2

Vouched ==
  spent.losses = 0 =>
    /\ Vouches(platform, chain) /\ Vouches(sidecar, chain) /\ Vouches(flushed, chain)
    /\ op.at = "anchor" => Vouches(op.tail, chain)

AnchorInv == ChainTyped /\ AnchorsTyped /\ spent \in Spent /\ Vouched

(* With no event and no anchor there is nothing to alarm about. *)
LEMMA AnchorInitially == Init => AnchorInv
  <1> SUFFICES ASSUME Init PROVE AnchorInv
    OBVIOUS
  <1>1. ChainTyped
    BY SessionBounds DEF Init, ChainTyped
  <1>2. AnchorsTyped
    BY NoOpTyped DEF Init, AnchorsTyped
  <1>3. spent \in Spent
    BY SessionBounds DEF Init, Spent
  <1>4. Vouched
    BY DEF Init, Vouched, Vouches, NoOp
  <1> QED
    BY <1>1, <1>2, <1>3, <1>4 DEF AnchorInv

(* Anchors that vouch for a chain still do after any step that loses nothing. *)
LEMMA AnchorPreserved == AnchorInv /\ [Next]_vars => AnchorInv'
  <1> SUFFICES ASSUME AnchorInv, [Next]_vars PROVE AnchorInv'
    OBVIOUS
  <1>1. ChainTyped' /\ AnchorsTyped' /\ spent' \in Spent
    BY ChainPreserved, AnchorsPreserved, SpentSteps DEF AnchorInv
  <1>2. Vouched'
    <2> SUFFICES ASSUME spent'.losses = 0
                 PROVE  /\ Vouches(platform', chain') /\ Vouches(sidecar', chain')
                        /\ Vouches(flushed', chain')
                        /\ op'.at = "anchor" => Vouches(op'.tail, chain')
      BY DEF Vouched
    <2>1. Grows /\ spent.losses = 0
      BY OnlyGrows DEF AnchorInv
    <2>2. \A a \in Sources : Vouches(a, chain')
      <3>1. Vouches(TailOf(chain'), chain') /\ Vouches(NoAnchor, chain')
        BY <1>1, TailVouches DEF ChainTyped, Vouches
      <3>2. /\ Vouches(platform, chain') /\ Vouches(sidecar, chain') /\ Vouches(flushed, chain')
            /\ op.at = "anchor" => Vouches(op.tail, chain')
        BY <2>1, VouchesOn DEF AnchorInv, Vouched
      <3> QED
        BY <3>1, <3>2 DEF Sources
    <2> QED
      BY <2>2, AnchorSteps DEF AnchorMoves, AnchorInv, AnchorsTyped
  <1> QED
    BY <1>1, <1>2 DEF AnchorInv

(* A log that lost nothing is never reported cut or tampered with, however commands, *)
(* flusher, keyring and crashes interleave.                                           *)
THEOREM AnchorNeverCriesWolf == Spec => []NoFalseAlarm
  <1>1. AnchorInv => NoFalseAlarm
    <2> SUFFICES ASSUME AnchorInv, spent.losses = 0
                 PROVE  Check(Loaded) \in {"ok", "behind", "missing"}
      BY DEF NoFalseAlarm
    <2>1. Vouches(Loaded, chain)
      BY DEF AnchorInv, Vouched, Loaded
    <2> QED
      BY <2>1, VouchedIsQuiet DEF AnchorInv
  <1> QED
    BY <1>1, AnchorInitially, AnchorPreserved, PTL DEF Spec

-----------------------------------------------------------------------------
(***************************************************************************)
(* Types.                                                                  *)
(***************************************************************************)

SwitchesTyped ==
  /\ alive \in BOOLEAN /\ idle \in BOOLEAN /\ up \in BOOLEAN
  /\ degraded \in BOOLEAN /\ anchorOk \in BOOLEAN /\ astray \in BOOLEAN

(* A token is promised to an unlock when it begins. *)
KeysTyped ==
  /\ header \in 0..MaxKey /\ vault \in 0..MaxKey
  /\ session \in 0..MaxToken /\ tokenFile \in 0..MaxToken /\ issued \in 0..MaxToken
  /\ op.kind = "unlock" => issued < MaxToken

TypeInv ==
  SwitchesTyped /\ KeysTyped /\ GuardInv /\ ChainTyped /\ AnchorsTyped /\ spent \in Spent

(* The flags stay Boolean. *)
LEMMA SwitchesPreserved == SwitchesTyped /\ [Next]_vars => SwitchesTyped'
  <1> SUFFICES ASSUME SwitchesTyped, [Next]_vars PROVE SwitchesTyped'
    OBVIOUS
  <1> USE DEF SwitchesTyped, lockVars, anchorVars, RemoveToken, WriteToken
  <1>1. CASE VaultLock \/ AutoLock \/ DesktopLock
    BY <1>1 DEF VaultLock, AutoLock, DesktopLock, Dispatch, LockNow, Locks
  <1>2. CASE VaultUnlock \/ VaultRecover \/ VaultInit
    BY <1>2 DEF VaultUnlock, VaultRecover, VaultInit, Dispatch, Locks
  <1>3. CASE UnlockFails \/ ApprovalUnlock \/ ApprovalUnlockFails \/ RecoverFails
    BY <1>3 DEF UnlockFails, ApprovalUnlock, ApprovalUnlockFails, RecoverFails, Dispatch, Locks
  <1>4. CASE SyncAnchor
    BY <1>4 DEF SyncAnchor, Store
  <1>5. CASE IssueToken \/ FlushRead
    BY <1>5 DEF IssueToken, FlushRead
  <1>6. CASE FlushStore
    BY <1>6 DEF FlushStore, Store
  <1>7. CASE Calls
    BY <1>7 DEF Calls, Call, AuditVerify, Dispatch, LoadDegrades
  <1>8. CASE Start \/ Shutdown
    BY <1>8 DEF Start, Shutdown
  <1>9. CASE Exit \/ Crash
    BY <1>9 DEF Exit, Crash, Gone
  <1>10. CASE Tick \/ GoIdle \/ Flap \/ LoseTail \/ UNCHANGED vars
    BY <1>10 DEF Tick, GoIdle, Flap, LoseTail, vars
  <1> QED
    BY <1>1, <1>2, <1>3, <1>4, <1>5, <1>6, <1>7, <1>8, <1>9, <1>10 DEF Next

(* Keys and tokens stay within their bounds. *)
LEMMA KeysPreserved ==
  ASSUME KeysTyped, op \in Op, spent \in Spent, [Next]_vars
  PROVE  KeysTyped'
  <1> USE SessionBounds DEF KeysTyped, lockVars, RemoveToken, WriteToken
  <1>1. CASE VaultLock \/ AutoLock \/ DesktopLock
    <2>1. /\ header' = header /\ issued' = issued
          /\ vault' = 0 /\ session' = 0 /\ RemoveToken
          /\ op' = [kind |-> "lock", at |-> "anchor", tail |-> TailOf(chain')]
      BY <1>1 DEF VaultLock, AutoLock, DesktopLock, LockNow, Locks, ThenAnchor
    <2> QED
      BY <2>1
  <1>2. CASE VaultUnlock
    BY <1>2 DEF VaultUnlock
  <1>3. CASE VaultRecover \/ VaultInit
    <2>1. /\ spent.keys < MaxKey /\ header' = spent.keys + 1 /\ issued' = issued
          /\ vault' \in {0, vault} /\ session' \in {0, session}
          /\ tokenFile' \in {0, tokenFile}
          /\ op' = op \/ op' = [kind |-> "recover", at |-> "anchor", tail |-> TailOf(chain')]
      BY <1>3 DEF VaultRecover, VaultInit, Locks, ThenAnchor
    <2>2. header' \in 0..MaxKey
      BY <2>1 DEF Spent
    <2>3. op'.kind = "unlock" => op.kind = "unlock"
      BY <2>1
    <2> QED
      BY <2>1, <2>2, <2>3
  <1>4. CASE UnlockFails \/ ApprovalUnlock \/ ApprovalUnlockFails
    BY <1>4 DEF UnlockFails, ApprovalUnlock, ApprovalUnlockFails
  <1>5. CASE RecoverFails
    BY <1>5 DEF RecoverFails, Locks
  <1>6. CASE SyncAnchor
    <2>1. op'.kind = "unlock" => op.kind = "unlock"
      <3>1. op' = [op EXCEPT !.at = "end"] \/ op' = NoOp
        BY <1>6 DEF SyncAnchor
      <3> QED
        BY <3>1 DEF Op, NoOp
    <2> QED
      BY <1>6, <2>1 DEF SyncAnchor
  <1>7. CASE IssueToken
    BY <1>7 DEF IssueToken, NoOp
  <1>8. CASE Calls \/ FlushRead \/ FlushStore \/ Start
    BY <1>8 DEF Calls, Call, AuditVerify, FlushRead, FlushStore, Start
  <1>9. CASE Shutdown
    BY <1>9 DEF Shutdown
  <1>10. CASE Exit \/ Crash
    <2>1. /\ header' = header /\ issued' = issued /\ op' = NoOp
          /\ vault' = 0 /\ session' = 0 /\ tokenFile' \in {0, tokenFile}
      BY <1>10 DEF Exit, Crash, Gone
    <2> QED
      BY <2>1 DEF NoOp
  <1>11. CASE Tick \/ GoIdle \/ Flap \/ LoseTail \/ UNCHANGED vars
    BY <1>11 DEF Tick, GoIdle, Flap, LoseTail, vars
  <1> QED
    BY <1>1, <1>2, <1>3, <1>4, <1>5, <1>6, <1>7, <1>8, <1>9, <1>10, <1>11 DEF Next

(* The type invariant holds to begin with. *)
LEMMA TypeInitially == Init => TypeInv
  <1>1. Init => KeysTyped
    BY SessionBounds DEF Init, KeysTyped, NoOp
  <1>2. Init => GuardInv
    BY FreshPaced DEF Init, GuardInv
  <1>3. Init => SwitchesTyped
    BY DEF Init, SwitchesTyped
  <1> QED
    BY <1>1, <1>2, <1>3, AnchorInitially DEF AnchorInv, TypeInv

(* Every variable keeps its type, for any bounds. *)
THEOREM TypeCorrect == Spec => []TypeOK
  <1>1. TypeInv /\ [Next]_vars => TypeInv'
    BY SwitchesPreserved, KeysPreserved, GuardPreserved, ChainPreserved, AnchorsPreserved,
       SpentSteps DEF TypeInv, AnchorsTyped
  <1>2. TypeInv => TypeOK
    BY DEF TypeInv, SwitchesTyped, KeysTyped, GuardInv, ChainTyped, AnchorsTyped, Spent, TypeOK
  <1> QED
    BY <1>1, <1>2, TypeInitially, PTL DEF Spec
=============================================================================
