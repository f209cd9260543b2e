---------------------------- MODULE ApprovalGate ----------------------------
(***************************************************************************)
(* The approval gates of the daemon: requests that inject or disclose      *)
(* secrets, write items or change rules, and that need the consent of the  *)
(* person at the desktop (lk-daemon: router.rs, daemon/gate_kit.rs,        *)
(* authz.rs, disclosure.rs, write.rs, rules.rs, session.rs).               *)
(*                                                                         *)
(* A request runs in three phases (router.rs, run_deferred): begin, under  *)
(* the command lock, registers an approval; await blocks without that      *)
(* lock; finalize takes it again and acts.  In between answers arrive, the *)
(* approval expires, the vault is locked, unlocked or recovered, and the   *)
(* sync thread, which does not take the command lock, changes the vault.   *)
(*                                                                         *)
(* An action is what happens under one hold of the command lock, or of the *)
(* mutex of the registry; the removal of an item or of a rule has two,     *)
(* because it releases the vault between the check and the removal.        *)
(***************************************************************************)
EXTENDS Naturals

CONSTANTS
  Call,       \* requests of clients, each made once
  Object,     \* items and rules that requests refer to
  Methods,    \* the methods that the requests of an instance have
  MaxEpoch,   \* bound: generations of the vault key (recoveries + 1)
  MaxDeaths   \* bound: deletions of one object that the sync thread applies

Op       == {"inject", "disclose", "put", "delete", "rule.add", "rule.remove"}
UnlockOp == {"inject", "disclose"}     \* may unlock inside the approval
RuleOp   == {"rule.add", "rule.remove"}
RemoveOp == {"delete", "rule.remove"}

ASSUME BoundAssumption ==
  MaxEpoch \in Nat \ {0} /\ MaxDeaths \in Nat /\ Methods \subseteq Op

Phase   == {"idle", "waiting", "answered", "removing", "done"}
Outcome == {"none", "executed", "denied", "sessionInvalid",
            "executionDenied", "error"}

VARIABLES
  op, target,      \* the method of each call, and the object it names
  ruleAuto,        \* test mode: rule operations approve themselves
  pc,              \* phase of each call
  asked,           \* approvals registered for each call so far
  decision,        \* what await returned to each call
  outcome,         \* the reply to each call
  registry,        \* pending approvals
  open,            \* is the shared vault unlocked?
  epoch,           \* generation of the vault key
  ui,              \* is the desktop subscribed to approval requests?
  live,            \* objects that are not deleted
  accepted,        \* history: accepted answers that had the right challenge
  deaths, removed, \* history: deletions, and approved removals, per object
  chainOk          \* history: does the audit log verify with the current key?

given     == <<op, target, ruleAuto>>      \* chosen at the start
callVars  == <<pc, asked, decision, outcome>>
vaultVars == <<open, epoch, ui>>
dataVars  == <<live, deaths, removed, chainOk>>
vars      == <<given, callVars, registry, vaultVars, dataVars, accepted>>

---------------------------------------------------------------------------
\* The registry

(***************************************************************************)
(* Request ids are fresh random numbers, so here the n-th approval of call *)
(* c has the id <<c, n>>.  The challenge is as random as the id: an answer *)
(* carries the right one or it does not.  A workspace is the vault that an *)
(* answer unlocked, with the generation of its keys (0: there is none).    *)
(***************************************************************************)
Workspace   == [key : 0 .. MaxEpoch, adjudicated : BOOLEAN]
NoWorkspace == [key |-> 0, adjudicated |-> FALSE]

Entry == [verdict : {"none", "allowed", "denied"}, expired : BOOLEAN,
          needsUnlock : BOOLEAN, workspace : Workspace]

Current(c) == <<c, asked[c]>>

\* Mutant: an approval that nobody answered stays in the registry.
WithoutDecided(id) ==
  [i \in DOMAIN registry \ {j \in {id} : registry[j].verdict # "none"}
     |-> registry[i]]

\* The registry when the entry has been consumed.
Without(id) == [i \in DOMAIN registry \ {id} |-> registry[i]]

\* Registers the next approval of call c in the registry "entries".
OpenGateApproval(c, entries, needsUnlock, workspace) ==
  LET id   == <<c, asked[c] + 1>>
      auto == ruleAuto /\ op[c] \in RuleOp
      new  == [verdict |-> IF auto THEN "allowed" ELSE "none",
               expired |-> FALSE, needsUnlock |-> needsUnlock,
               workspace |-> workspace]
  IN  /\ registry' = [i \in DOMAIN entries \cup {id} |->
                        IF i = id THEN new ELSE entries[i]]
      /\ accepted' = accepted \cup (IF auto THEN {<<id, "allowed">>} ELSE {})
      /\ asked' = [asked EXCEPT ![c] = @ + 1]
      /\ decision' = [decision EXCEPT ![c] = "none"]
      /\ pc' = [pc EXCEPT ![c] = "waiting"]

\* Mutant: the challenge is not compared.
AcceptsAnyChallenge(id, right) == ~registry[id].expired

\* Mutant: the expiry is not compared.
AcceptsLate(id, right) == right

\* An answer counts before the expiry and with the right challenge.
Accepts(id, right) == ~registry[id].expired /\ right

CommandFree == \A c \in Call : pc[c] # "removing"

---------------------------------------------------------------------------
\* The vault

Lock ==
  /\ CommandFree /\ open
  /\ open' = FALSE
  /\ UNCHANGED <<given, callVars, registry, epoch, ui, dataVars, accepted>>

Unlock ==
  /\ CommandFree /\ ~open
  /\ open' = TRUE
  /\ UNCHANGED <<given, callVars, registry, epoch, ui, dataVars, accepted>>

\* Recovery locks the vault and replaces its keys.
Recover ==
  /\ CommandFree /\ epoch < MaxEpoch
  /\ open' = FALSE
  /\ epoch' = epoch + 1
  /\ UNCHANGED <<given, callVars, registry, ui, dataVars, accepted>>

\* The desktop subscribes, or its connection ends.
ToggleUi ==
  /\ ui' = ~ui
  /\ UNCHANGED <<given, callVars, registry, open, epoch, dataVars, accepted>>

\* The object is deleted (again).
Kill(o) ==
  /\ live' = [live EXCEPT ![o] = FALSE]
  /\ deaths' = [deaths EXCEPT ![o] = @ + (IF live[o] THEN 1 ELSE 0)]

\* A sync round deletes or restores an object of the unlocked vault.
SyncApply(o) ==
  /\ open
  /\ IF live[o] THEN deaths[o] < MaxDeaths /\ Kill(o)
                ELSE live' = [live EXCEPT ![o] = TRUE] /\ UNCHANGED deaths
  /\ UNCHANGED <<given, callVars, registry, vaultVars, removed, chainOk,
                 accepted>>

---------------------------------------------------------------------------
\* Begin

Starts(c) == CommandFree /\ pc[c] = "idle" /\ UNCHANGED given

Reply(c, result) ==
  /\ pc' = [pc EXCEPT ![c] = "done"]
  /\ outcome' = [outcome EXCEPT ![c] = result]

\* What a put of an item or a removal does to its object.
Perform(c) ==
  CASE op[c] = "put" -> /\ live' \in {live, [live EXCEPT ![target[c]] = TRUE]}
                        /\ UNCHANGED deaths
    [] op[c] \in RemoveOp -> Kill(target[c])
    [] OTHER -> UNCHANGED <<live, deaths>>

(***************************************************************************)
(* No session, no such object, an unknown program, nobody to ask.  On a    *)
(* locked vault only inject and disclose get beyond the session check, and *)
(* only with the desktop there.                                            *)
(***************************************************************************)
BeginRefused(c) ==
  /\ Starts(c)
  /\ \E result \in {"sessionInvalid"} \cup
         (IF open \/ (op[c] \in UnlockOp /\ ui)
            THEN {"denied", "error"} ELSE {}) : Reply(c, result)
  /\ UNCHANGED <<asked, decision, registry, vaultVars, dataVars, accepted>>

\* A rule matches, or the request comes from the desktop itself.
BeginServed(c) ==
  /\ Starts(c)
  /\ open
  /\ \/ Reply(c, "executed") /\ Perform(c)
     \/ Reply(c, "error") /\ UNCHANGED <<live, deaths>>
  /\ UNCHANGED <<asked, decision, registry, vaultVars, removed, chainOk,
                 accepted>>

\* The person at the desktop is asked.
BeginAsked(c) ==
  /\ Starts(c)
  /\ open
  /\ ui \/ (ruleAuto /\ op[c] \in RuleOp)
  /\ OpenGateApproval(c, registry, FALSE, NoWorkspace)
  /\ UNCHANGED <<outcome, vaultVars, dataVars>>

\* The same on a locked vault: the approval will unlock one of its own.
BeginLocked(c) ==
  /\ Starts(c)
  /\ ~open /\ ui
  /\ op[c] \in UnlockOp
  /\ OpenGateApproval(c, registry, TRUE, NoWorkspace)
  /\ UNCHANGED <<outcome, vaultVars, dataVars>>

---------------------------------------------------------------------------
\* Await

\* Mutant: no vault is unlocked for the approval when the shared one is open.
UnlockedIfLocked(id, verdict) ==
  [registry[id].workspace EXCEPT
     !.key = IF registry[id].needsUnlock /\ verdict = "allowed" /\ ~open
               THEN epoch ELSE @]

\* Mutant: unlocking again forgets that the fingerprint has been judged.
UnlockedAnew(id, verdict) ==
  IF registry[id].needsUnlock /\ verdict = "allowed"
    THEN [key |-> epoch, adjudicated |-> FALSE] ELSE registry[id].workspace

\* The workspace after an answer: a new vault, the same adjudication.
Unlocked(id, verdict) ==
  [registry[id].workspace EXCEPT
     !.key = IF registry[id].needsUnlock /\ verdict = "allowed"
               THEN epoch ELSE @]

(***************************************************************************)
(* approval.result from the desktop.  Consent to a request on a locked     *)
(* vault brings the master password, and stores the vault it unlocks in    *)
(* the entry before the answer is judged; a wrong password changes         *)
(* nothing.  Otherwise the desktop needs a session.                        *)
(***************************************************************************)
Answer(id, right, verdict) ==
  /\ CommandFree
  /\ id \in DOMAIN registry
  /\ registry[id].needsUnlock \/ open
  /\ registry' = [registry EXCEPT ![id] = [registry[id] EXCEPT
       !.verdict = IF Accepts(id, right) THEN verdict ELSE @,
       !.workspace = Unlocked(id, verdict)]]
  /\ accepted' = accepted \cup
       (IF Accepts(id, right) /\ right THEN {<<id, verdict>>} ELSE {})
  /\ UNCHANGED <<given, callVars, vaultVars, dataVars>>

\* The time for an answer ends.
Expire(c) ==
  /\ pc[c] = "waiting"
  /\ Current(c) \in DOMAIN registry
  /\ ~registry[Current(c)].expired
  /\ registry' = [registry EXCEPT ![Current(c)].expired = TRUE]
  /\ UNCHANGED <<given, callVars, vaultVars, dataVars, accepted>>

\* What the waiting thread takes from a registry entry.
Awaited(id) ==
  CASE id \notin DOMAIN registry -> "denied"
    [] id \in DOMAIN registry /\ registry[id].verdict # "none"
         -> registry[id].verdict
    [] OTHER -> "timeout"

\* Mutant: only an answer wakes the waiting thread.
AwaitAnswer(c) ==
  /\ pc[c] = "waiting"
  /\ Current(c) \in DOMAIN registry => registry[Current(c)].verdict # "none"
  /\ decision' = [decision EXCEPT ![c] = Awaited(Current(c))]
  /\ pc' = [pc EXCEPT ![c] = "answered"]
  /\ UNCHANGED <<given, asked, outcome, registry, vaultVars, dataVars,
                 accepted>>

\* The waiting thread returns.
Await(c) ==
  /\ pc[c] = "waiting"
  /\ Current(c) \in DOMAIN registry =>
       registry[Current(c)].verdict # "none" \/ registry[Current(c)].expired
  /\ decision' = [decision EXCEPT ![c] = Awaited(Current(c))]
  /\ pc' = [pc EXCEPT ![c] = "answered"]
  /\ UNCHANGED <<given, asked, outcome, registry, vaultVars, dataVars,
                 accepted>>

---------------------------------------------------------------------------
\* Finalize: the entry is taken out of the registry, then the gate decides.

\* Mutant: what was not refused is allowed.
ConsentedUnlessDenied(c) ==
  /\ CommandFree
  /\ pc[c] = "answered" /\ decision[c] # "denied"
  /\ Current(c) \in DOMAIN registry

\* The decision is to allow, and the entry is there.
Consented(c) ==
  /\ CommandFree
  /\ pc[c] = "answered" /\ decision[c] = "allowed"
  /\ Current(c) \in DOMAIN registry

Mine(c) == registry[Current(c)]

Finish(c, result) ==
  /\ Reply(c, result)
  /\ registry' = Without(Current(c))
  /\ UNCHANGED <<given, asked, decision, vaultVars, removed, accepted>>

\* Refused, timed out, or the entry is gone.
FinalizeDenied(c) ==
  /\ CommandFree /\ pc[c] = "answered"
  /\ decision[c] = "allowed" => Current(c) \notin DOMAIN registry
  /\ Finish(c, "denied")
  /\ UNCHANGED <<live, deaths, chainOk>>

\* Inject with the shared vault.
AuthzFinalize(c) ==
  /\ Consented(c) /\ op[c] = "inject" /\ ~Mine(c).needsUnlock
  /\ Finish(c, IF open THEN "executed" ELSE "sessionInvalid")
  /\ UNCHANGED <<live, deaths, chainOk>>

\* The event is signed with the keys of the workspace.
AuditWith(key) == chainOk' = (chainOk /\ key = epoch)

(***************************************************************************)
(* Inject with the vault of the workspace, whatever the shared one is.     *)
(* With keys from before a recovery no rule or secret can be read, and the *)
(* rules deny.                                                             *)
(***************************************************************************)
AuthzFinalizeUnlock(c) ==
  LET key == Mine(c).workspace.key
  IN  /\ Consented(c) /\ op[c] = "inject" /\ Mine(c).needsUnlock
      /\ IF key = 0
           THEN Finish(c, "executionDenied") /\ UNCHANGED chainOk
           ELSE /\ \/ Finish(c, "denied")
                   \/ key = epoch /\ Finish(c, "executed")
                /\ AuditWith(key)
      /\ UNCHANGED <<live, deaths>>

(***************************************************************************)
(* The first look into the unlocked vault shows that the program is not    *)
(* the one a rule is bound to: ask again, once, with the same workspace.   *)
(***************************************************************************)
AuthzFinalizeReopen(c) ==
  LET workspace == Mine(c).workspace
  IN  /\ Consented(c) /\ op[c] = "inject" /\ Mine(c).needsUnlock
      /\ workspace.key = epoch /\ ~workspace.adjudicated
      /\ IF ui
           THEN /\ OpenGateApproval(c, Without(Current(c)), TRUE,
                     [workspace EXCEPT !.adjudicated = TRUE])
                /\ UNCHANGED <<given, outcome, vaultVars, removed>>
           ELSE Finish(c, "executionDenied")
      /\ UNCHANGED <<live, deaths, chainOk>>

\* Disclosure: the shared vault if it is open by now, else the workspace.
DisclosureFinalize(c) ==
  LET key == Mine(c).workspace.key
  IN  /\ Consented(c) /\ op[c] = "disclose"
      /\ \E result \in
           IF open THEN {"executed", "error"}
           ELSE IF ~Mine(c).needsUnlock THEN {"sessionInvalid"}
           ELSE IF key = 0 THEN {"executionDenied"}
           ELSE IF key = epoch THEN {"executed", "error"} ELSE {"error"} :
             Finish(c, result)
      /\ UNCHANGED <<live, deaths, chainOk>>

\* item.put and rule.add.
PutFinalize(c) ==
  /\ Consented(c) /\ op[c] \in {"put", "rule.add"}
  /\ IF open
       THEN \/ Finish(c, "executed") /\ Perform(c)
            \/ Finish(c, "error") /\ UNCHANGED <<live, deaths>>
       ELSE Finish(c, "sessionInvalid") /\ UNCHANGED <<live, deaths>>
  /\ UNCHANGED chainOk

\* Mutant: the object is not looked at again.
RemovalUnchecked(c) ==
  /\ Consented(c) /\ op[c] \in RemoveOp
  /\ IF open
       THEN /\ pc' = [pc EXCEPT ![c] = "removing"]
            /\ registry' = Without(Current(c))
            /\ UNCHANGED <<given, asked, decision, outcome, vaultVars,
                           removed, accepted>>
       ELSE Finish(c, "sessionInvalid")
  /\ UNCHANGED <<live, deaths, chainOk>>

\* item.delete and rule.remove, first part: is the object still there?
RemovalRecheck(c) ==
  /\ Consented(c) /\ op[c] \in RemoveOp
  /\ IF open /\ live[target[c]]
       THEN /\ pc' = [pc EXCEPT ![c] = "removing"]
            /\ registry' = Without(Current(c))
            /\ UNCHANGED <<given, asked, decision, outcome, vaultVars,
                           removed, accepted>>
       ELSE Finish(c, IF open THEN "executionDenied" ELSE "sessionInvalid")
  /\ UNCHANGED <<live, deaths, chainOk>>

\* Second part: the write lock is taken anew; a deleted object is no error.
Remove(c) ==
  /\ pc[c] = "removing"
  /\ Reply(c, "executed")
  /\ Kill(target[c])
  /\ removed' = [removed EXCEPT ![target[c]] = @ + 1]
  /\ UNCHANGED <<given, asked, decision, registry, vaultVars, chainOk,
                 accepted>>

---------------------------------------------------------------------------
\* Specification

Init ==
  /\ op \in [Call -> Methods] /\ target \in [Call -> Object]
  /\ ruleAuto \in BOOLEAN
  /\ pc = [c \in Call |-> "idle"]
  /\ asked = [c \in Call |-> 0]
  /\ decision = [c \in Call |-> "none"]
  /\ outcome = [c \in Call |-> "none"]
  /\ registry = [id \in {} |-> NoWorkspace]
  /\ open \in BOOLEAN /\ epoch = 1 /\ ui = FALSE
  /\ live = [o \in Object |-> TRUE]
  /\ deaths = [o \in Object |-> 0]
  /\ removed = [o \in Object |-> 0]
  /\ chainOk = TRUE /\ accepted = {}

Begin(c) == BeginRefused(c) \/ BeginServed(c) \/ BeginAsked(c) \/ BeginLocked(c)

Finalize(c) ==
  \/ FinalizeDenied(c)
  \/ AuthzFinalize(c)
  \/ AuthzFinalizeUnlock(c)
  \/ AuthzFinalizeReopen(c)
  \/ DisclosureFinalize(c)
  \/ PutFinalize(c)
  \/ RemovalRecheck(c)

VaultStep == Lock \/ Unlock \/ Recover \/ ToggleUi \/ \E o \in Object : SyncApply(o)

Answers == \E id \in DOMAIN registry, right \in BOOLEAN,
              verdict \in {"allowed", "denied"} : Answer(id, right, verdict)

Next ==
  \/ VaultStep
  \/ Answers
  \/ \E c \in Call : Begin(c) \/ Expire(c) \/ Await(c) \/ Finalize(c) \/ Remove(c)

(***************************************************************************)
(* Time passes, the condition variable wakes the waiting thread, and a     *)
(* thread that waits for the command lock gets it: every holder releases   *)
(* it without waiting for anything but the vault.                          *)
(***************************************************************************)
Fairness == \A c \in Call :
  /\ WF_vars(Expire(c)) /\ WF_vars(Await(c))
  /\ WF_vars(Finalize(c)) /\ WF_vars(Remove(c))

Spec == Init /\ [][Next]_vars /\ Fairness

---------------------------------------------------------------------------
\* Properties

(***************************************************************************)
(* Every variable has its type.                                            *)
(***************************************************************************)
TypeOK ==
  /\ op \in [Call -> Op] /\ target \in [Call -> Object] /\ ruleAuto \in BOOLEAN
  /\ pc \in [Call -> Phase] /\ asked \in [Call -> Nat]
  /\ decision \in [Call -> {"none", "allowed", "denied", "timeout"}]
  /\ outcome \in [Call -> Outcome]
  /\ DOMAIN registry \subseteq Call \X Nat
  /\ registry \in [DOMAIN registry -> Entry]
  /\ open \in BOOLEAN /\ epoch \in 1 .. MaxEpoch /\ ui \in BOOLEAN
  /\ live \in [Object -> BOOLEAN] /\ deaths \in [Object -> Nat]
  /\ removed \in [Object -> Nat] /\ chainOk \in BOOLEAN
  /\ accepted \subseteq (Call \X Nat) \X {"allowed", "denied"}

(***************************************************************************)
(* A request that was put to the person at the desktop is carried out only *)
(* when each approval it needed, the first one and the one after a changed *)
(* program was noticed, had its own consent with its own challenge         *)
(* (gate_kit.rs, write_decision_locked and await_decision).                *)
(***************************************************************************)
ApprovedExecution == \A c \in Call :
  outcome[c] = "executed" =>
    \A n \in 1 .. asked[c] : <<<<c, n>>, "allowed">> \in accepted

(***************************************************************************)
(* An answer that comes after the client has been told that time is up is  *)
(* refused: nobody at the desktop sees "accepted" for a request that       *)
(* failed with a timeout (gate_kit.rs, resolve).                           *)
(***************************************************************************)
LateAnswerRefused == \A c \in Call : decision[c] = "timeout" =>
  \A verdict \in {"allowed", "denied"} : <<Current(c), verdict>> \notin accepted

(***************************************************************************)
(* Once a request on a locked vault has its consent, there is a vault to   *)
(* carry it out on: the finalizers never find the entry without workspace  *)
(* (gate_kit.rs, store_workspace_and_resolve in one critical section).     *)
(***************************************************************************)
ApprovedIsUnlocked == \A id \in DOMAIN registry :
  registry[id].needsUnlock /\ registry[id].verdict = "allowed"
    => registry[id].workspace.key # 0

(***************************************************************************)
(* The fingerprint of the program is judged once: no request is put to the *)
(* person a third time, even if the second answer unlocks the vault again  *)
(* (the loop of issue #140, gate_kit.rs:325-336).                          *)
(***************************************************************************)
OneReopening == \A c \in Call : asked[c] <= 2

(***************************************************************************)
(* Every entry of the registry belongs to a request that still waits for   *)
(* it or is about to take it: no approval can be answered that nobody will *)
(* act on, and no unlocked vault stays behind in one (gate_kit.rs, remove).*)
(***************************************************************************)
NothingLeftBehind == \A id \in DOMAIN registry :
  \E c \in Call : id = Current(c) /\ pc[c] \in {"waiting", "answered"}

(***************************************************************************)
(* Approved removals of an object that report success are not more than    *)
(* its deletions: two approvals for the same deletion never both succeed,  *)
(* although a removal of a deleted object is no error (write.rs:276-311).  *)
(***************************************************************************)
NoPhantomRemoval == \A o \in Object : removed[o] <= deaths[o]

(***************************************************************************)
(* Every request that waits for an approval gets its reply, whatever the   *)
(* person, the lock and the other requests do (router.rs, run_deferred).   *)
(***************************************************************************)
EveryCallAnswered == \A c \in Call : pc[c] = "waiting" ~> pc[c] = "done"

\* What a verdict or a decision means to the one who asks.
Meaning(verdict) == CASE verdict = "allowed" -> "granted"
                      [] verdict = "denied"  -> "refused"
                      [] verdict = "timeout" -> "lapsed"
                      [] OTHER -> "asked"

StageOf(c) ==
  CASE pc[c] = "idle" -> "idle"
    [] pc[c] = "waiting" -> Meaning(registry[Current(c)].verdict)
    [] pc[c] = "done" -> IF outcome[c] = "executed" THEN "executed" ELSE "rejected"
    [] OTHER -> Meaning(decision[c])

C == INSTANCE Consent WITH stage <- [c \in Call |-> StageOf(c)]

(***************************************************************************)
(* The gates keep the promise of module Consent: with registry, expiry,    *)
(* locks and second approvals, each request still goes from asking through *)
(* a consent to execution, and a refused or lapsed one is never carried    *)
(* out (router.rs, run_deferred).                                          *)
(***************************************************************************)
ImplementsConsent == C!Spec

(***************************************************************************)
(* The audit log can be verified across a change of keys: "the new key     *)
(* verifies the new events after the rotation" (docs/audit.md:73).         *)
(***************************************************************************)
ChainVerifies == chainOk
=============================================================================
