------------------------- MODULE ApprovalGate_proofs -------------------------
(***************************************************************************)
(* What ApprovalGate guarantees for any number of requests and objects and *)
(* any bounds.  A step moves at most one request, in one of ten ways       *)
(* (StepShape); each theorem looks at those ten.                           *)
(***************************************************************************)
EXTENDS ApprovalGate, TLAPS

---------------------------------------------------------------------------
\* The ways a step moves the requests and the registry.

Quiet == UNCHANGED <<callVars, registry, accepted>>

Settled(c, from) ==
  /\ pc[c] = from
  /\ \E result \in Outcome \ {"none"} : Reply(c, result)
  /\ UNCHANGED <<asked, decision, registry, accepted>>

Asked(c) ==
  /\ pc[c] = "idle"
  /\ \E unlock \in BOOLEAN :
       /\ unlock => op[c] \in UnlockOp
       /\ OpenGateApproval(c, registry, unlock, NoWorkspace)
  /\ UNCHANGED outcome

AskedAgain(c) ==
  /\ Consented(c)
  /\ op[c] = "inject" /\ Mine(c).needsUnlock
  /\ Mine(c).workspace.key = epoch /\ ~Mine(c).workspace.adjudicated
  /\ OpenGateApproval(c, Without(Current(c)), TRUE,
       [Mine(c).workspace EXCEPT !.adjudicated = TRUE])
  /\ UNCHANGED outcome

Answered == \E id \in DOMAIN registry, right \in BOOLEAN,
               verdict \in {"allowed", "denied"} : Answer(id, right, verdict)

Finished(c) ==
  /\ pc[c] = "answered"
  /\ \E result \in Outcome \ {"none"} :
       /\ result = "executed" => decision[c] = "allowed"
       /\ Reply(c, result)
  /\ registry' = Without(Current(c))
  /\ UNCHANGED <<asked, decision, accepted>>

Rechecked(c) ==
  /\ CommandFree
  /\ pc[c] = "answered" /\ decision[c] = "allowed"
  /\ pc' = [pc EXCEPT ![c] = "removing"]
  /\ registry' = Without(Current(c))
  /\ UNCHANGED <<asked, decision, outcome, accepted>>

Shape ==
  /\ UNCHANGED given
  /\ \/ Quiet
     \/ Answered
     \/ \E c \in Call :
          \/ Settled(c, "idle") \/ Asked(c) \/ AskedAgain(c)
          \/ Expire(c) \/ Await(c) \/ Finished(c) \/ Rechecked(c)
          \/ Settled(c, "removing")

LEMMA StepShape == ASSUME [Next]_vars PROVE Shape
<1>1. CASE UNCHANGED vars
  BY <1>1 DEF vars, Shape, Quiet
<1>2. CASE VaultStep
  BY <1>2 DEF VaultStep, Lock, Unlock, Recover, ToggleUi, SyncApply, Shape, Quiet
<1>3. CASE Answers
  BY <1>3 DEF Answers, Answer, Shape, Answered
<1>4. ASSUME NEW c \in Call, Begin(c) PROVE Shape
  <2>1. CASE BeginRefused(c)
    <3>1. \E result \in Outcome \ {"none"} : Reply(c, result)
      BY <2>1 DEF BeginRefused, Outcome
    <3> QED
      BY <2>1, <3>1 DEF BeginRefused, Starts, Shape, Settled
  <2>2. CASE BeginServed(c)
    <3>1. \E result \in Outcome \ {"none"} : Reply(c, result)
      BY <2>2 DEF BeginServed, Outcome
    <3> QED
      BY <2>2, <3>1 DEF BeginServed, Starts, Shape, Settled
  <2>3. CASE BeginAsked(c)
    BY <2>3 DEF BeginAsked, Starts, Shape, Asked
  <2>4. CASE BeginLocked(c)
    BY <2>4 DEF BeginLocked, Starts, Shape, Asked
  <2> QED
    BY <1>4, <2>1, <2>2, <2>3, <2>4 DEF Begin
<1>5. ASSUME NEW c \in Call, Finalize(c) PROVE Shape
  <2> DEFINE Ends(result) == Finish(c, result) /\ pc[c] = "answered"
                             /\ (result = "executed" => decision[c] = "allowed")
  <2>0. ASSUME NEW result \in Outcome \ {"none"}, Ends(result) PROVE Shape
    BY <2>0 DEF Finish, Finished, Shape
  <2>1. CASE FinalizeDenied(c)
    <3>1. Ends("denied")
      BY <2>1 DEF FinalizeDenied
    <3> QED
      BY <3>1, <2>0 DEF Outcome
  <2>2. CASE AuthzFinalize(c)
    <3>1. Ends("executed") \/ Ends("sessionInvalid")
      BY <2>2 DEF AuthzFinalize, Consented
    <3> QED
      BY <3>1, <2>0 DEF Outcome
  <2>3. CASE AuthzFinalizeUnlock(c)
    <3>1. Ends("executed") \/ Ends("denied") \/ Ends("executionDenied")
      BY <2>3 DEF AuthzFinalizeUnlock, Consented
    <3> QED
      BY <3>1, <2>0 DEF Outcome
  <2>4. CASE AuthzFinalizeReopen(c)
    <3>1. CASE ui
      BY <2>4, <3>1 DEF AuthzFinalizeReopen, Shape, AskedAgain
    <3>2. CASE ~ui
      <4>1. Ends("executionDenied")
        BY <2>4, <3>2 DEF AuthzFinalizeReopen, Consented
      <4> QED
        BY <4>1, <2>0 DEF Outcome
    <3> QED
      BY <3>1, <3>2
  <2>5. CASE DisclosureFinalize(c)
    <3>1. PICK result \in {"executed", "error", "sessionInvalid", "executionDenied"} :
            Finish(c, result)
      BY <2>5 DEF DisclosureFinalize
    <3>2. Ends(result)
      BY <2>5, <3>1 DEF DisclosureFinalize, Consented
    <3> QED
      BY <3>1, <3>2, <2>0 DEF Outcome
  <2>6. CASE PutFinalize(c)
    <3>1. Ends("executed") \/ Ends("error") \/ Ends("sessionInvalid")
      BY <2>6 DEF PutFinalize, Consented
    <3> QED
      BY <3>1, <2>0 DEF Outcome
  <2>7. CASE RemovalRecheck(c)
    <3>1. CASE open /\ live[target[c]]
      BY <2>7, <3>1 DEF RemovalRecheck, Consented, Shape, Rechecked
    <3>2. CASE ~(open /\ live[target[c]])
      <4>1. Ends("executionDenied") \/ Ends("sessionInvalid")
        BY <2>7, <3>2 DEF RemovalRecheck, Consented
      <4> QED
        BY <4>1, <2>0 DEF Outcome
    <3> QED
      BY <3>1, <3>2
  <2> QED
    BY <1>5, <2>1, <2>2, <2>3, <2>4, <2>5, <2>6, <2>7 DEF Finalize
<1>6. ASSUME NEW c \in Call, Expire(c) \/ Await(c) PROVE Shape
  BY <1>6 DEF Expire, Await, Shape
<1>7. ASSUME NEW c \in Call, Remove(c) PROVE Shape
  <2>1. Settled(c, "removing")
    BY <1>7 DEF Remove, Settled, Outcome
  <2> QED
    BY <1>7, <2>1 DEF Remove, Shape
<1> QED
  BY <1>1, <1>2, <1>3, <1>4, <1>5, <1>6, <1>7 DEF Next

---------------------------------------------------------------------------
\* Types

RegistryType ==
  /\ DOMAIN registry \subseteq Call \X Nat
  /\ registry \in [DOMAIN registry -> Entry]

CallType ==
  /\ op \in [Call -> Op] /\ target \in [Call -> Object] /\ ruleAuto \in BOOLEAN
  /\ pc \in [Call -> Phase] /\ asked \in [Call -> Nat]
  /\ decision \in [Call -> {"none", "allowed", "denied", "timeout"}]
  /\ outcome \in [Call -> Outcome]
  /\ RegistryType
  /\ accepted \subseteq (Call \X Nat) \X {"allowed", "denied"}

DataType ==
  /\ open \in BOOLEAN /\ epoch \in 1 .. MaxEpoch /\ ui \in BOOLEAN
  /\ live \in [Object -> BOOLEAN] /\ deaths \in [Object -> Nat]
  /\ removed \in [Object -> Nat] /\ chainOk \in BOOLEAN

LEMMA TypeParts == TypeOK <=> CallType /\ DataType
  BY DEF TypeOK, CallType, DataType, RegistryType

\* An approval is registered with a well-formed entry, the others stay.
LEMMA OpensTyped ==
  ASSUME CallType, NEW c \in Call,
         NEW entries, DOMAIN entries \subseteq Call \X Nat,
         entries \in [DOMAIN entries -> Entry],
         NEW unlock \in BOOLEAN, NEW workspace \in Workspace,
         OpenGateApproval(c, entries, unlock, workspace),
         UNCHANGED <<given, outcome>>
  PROVE  CallType'
<1> DEFINE id  == <<c, asked[c] + 1>>
           new == [verdict |-> IF ruleAuto /\ op[c] \in RuleOp THEN "allowed" ELSE "none",
                   expired |-> FALSE, needsUnlock |-> unlock, workspace |-> workspace]
<1>1. id \in Call \X Nat
  BY DEF CallType
<1>2. new \in Entry
  BY DEF Entry
<1>3. registry' = [i \in DOMAIN entries \cup {id} |-> IF i = id THEN new ELSE entries[i]]
  BY DEF OpenGateApproval
<1>4. RegistryType'
  <2> HIDE DEF new, id
  <2> QED
    BY <1>1, <1>2, <1>3 DEF RegistryType
<1>5. accepted' \subseteq (Call \X Nat) \X {"allowed", "denied"}
  BY <1>1 DEF OpenGateApproval, CallType
<1>6. pc' \in [Call -> Phase] /\ asked' \in [Call -> Nat]
      /\ decision' \in [Call -> {"none", "allowed", "denied", "timeout"}]
  BY DEF OpenGateApproval, CallType, Phase
<1> QED
  BY <1>4, <1>5, <1>6 DEF CallType, given

LEMMA WithoutTyped ==
  ASSUME RegistryType, NEW id
  PROVE  /\ DOMAIN Without(id) = DOMAIN registry \ {id}
         /\ DOMAIN Without(id) \subseteq Call \X Nat
         /\ Without(id) \in [DOMAIN Without(id) -> Entry]
  BY DEF RegistryType, Without

LEMMA CallTypeStep == ASSUME CallType, DataType, Shape PROVE CallType'
<1>1. CASE Quiet
  BY <1>1 DEF Shape, Quiet, given, callVars, CallType, RegistryType
<1>2. CASE Answered
  <2>1. PICK id \in DOMAIN registry, right \in BOOLEAN, verdict \in {"allowed", "denied"} :
          Answer(id, right, verdict)
    BY <1>2 DEF Answered
  <2>2. registry[id] \in Entry /\ id \in Call \X Nat
    BY DEF CallType, RegistryType
  <2>3. Unlocked(id, verdict) \in Workspace
    BY <2>2 DEF Unlocked, Entry, Workspace, DataType
  <2> DEFINE new == [registry[id] EXCEPT
                 !.verdict = IF Accepts(id, right) THEN verdict ELSE @,
                 !.workspace = Unlocked(id, verdict)]
  <2>4. new \in Entry
    BY <2>2, <2>3 DEF Entry
  <2>5. registry' = [registry EXCEPT ![id] = new]
    BY <2>1 DEF Answer
  <2>6. RegistryType'
    <3> HIDE DEF new
    <3> QED
      BY <2>4, <2>5 DEF CallType, RegistryType
  <2>7. accepted' \subseteq (Call \X Nat) \X {"allowed", "denied"}
    BY <2>1, <2>2 DEF Answer, CallType
  <2> QED
    BY <2>1, <2>6, <2>7 DEF Answer, given, callVars, CallType
<1>3. ASSUME NEW c \in Call, Settled(c, "idle") \/ Settled(c, "removing") PROVE CallType'
  BY <1>3 DEF Shape, Settled, Reply, given, CallType, RegistryType, Phase
<1>4. ASSUME NEW c \in Call, Asked(c) PROVE CallType'
  <2>1. PICK unlock \in BOOLEAN : OpenGateApproval(c, registry, unlock, NoWorkspace)
    BY <1>4 DEF Asked
  <2>2. NoWorkspace \in Workspace
    BY BoundAssumption DEF NoWorkspace, Workspace
  <2> QED
    BY <1>4, <2>1, <2>2, OpensTyped DEF Asked, Shape, CallType, RegistryType
<1>5. ASSUME NEW c \in Call, AskedAgain(c) PROVE CallType'
  <2> DEFINE workspace == [Mine(c).workspace EXCEPT !.adjudicated = TRUE]
  <2>1. Mine(c) \in Entry
    BY <1>5 DEF AskedAgain, Consented, Mine, CallType, RegistryType
  <2>2. workspace \in Workspace
    BY <2>1 DEF Entry, Workspace
  <2>3. OpenGateApproval(c, Without(Current(c)), TRUE, workspace)
    BY <1>5 DEF AskedAgain
  <2>4. UNCHANGED <<given, outcome>>
    BY <1>5 DEF AskedAgain, Shape
  <2>5. RegistryType
    BY DEF CallType
  <2> HIDE DEF workspace
  <2> QED
    BY <2>2, <2>3, <2>4, <2>5, WithoutTyped, OpensTyped
<1>6. ASSUME NEW c \in Call, Expire(c) PROVE CallType'
  <2> DEFINE new == [registry[Current(c)] EXCEPT !.expired = TRUE]
  <2>1. new \in Entry
    BY <1>6 DEF Expire, CallType, RegistryType, Entry
  <2>2. registry' = [registry EXCEPT ![Current(c)] = new]
    BY <1>6 DEF Expire
  <2>3. RegistryType'
    <3> HIDE DEF new
    <3> QED
      BY <2>1, <2>2 DEF CallType, RegistryType
  <2> QED
    BY <1>6, <2>3 DEF Expire, given, callVars, CallType
<1>7. ASSUME NEW c \in Call, Await(c) PROVE CallType'
  <2>1. Awaited(Current(c)) \in {"allowed", "denied", "timeout"}
    BY DEF Awaited, CallType, RegistryType, Entry
  <2> QED
    BY <1>7, <2>1 DEF Await, given, CallType, RegistryType, Phase
<1>8. ASSUME NEW c \in Call, Finished(c) \/ Rechecked(c) PROVE CallType'
  <2>1. RegistryType'
    <3>1. registry' = Without(Current(c))
      BY <1>8 DEF Finished, Rechecked
    <3>2. RegistryType
      BY DEF CallType
    <3> QED
      BY <3>1, <3>2, WithoutTyped DEF RegistryType
  <2> QED
    BY <1>8, <2>1 DEF Finished, Rechecked, Reply, Shape, given, CallType, Phase
<1> QED
  BY <1>1, <1>2, <1>3, <1>4, <1>5, <1>6, <1>7, <1>8 DEF Shape

LEMMA KillTyped ==
  ASSUME DataType, NEW o \in Object, Kill(o)
  PROVE  live' \in [Object -> BOOLEAN] /\ deaths' \in [Object -> Nat]
  BY DEF DataType, Kill

LEMMA DataTypeStep == ASSUME CallType, DataType, [Next]_vars PROVE DataType'
<1> USE BoundAssumption
<1>1. CASE UNCHANGED vars
  BY <1>1 DEF vars, vaultVars, dataVars, DataType
<1>2. CASE VaultStep
  <2>1. ASSUME NEW o \in Object, SyncApply(o) PROVE DataType'
    <3>1. live' \in [Object -> BOOLEAN] /\ deaths' \in [Object -> Nat]
      <4>1. CASE Kill(o)
        BY <4>1, KillTyped
      <4>2. CASE ~Kill(o)
        BY <2>1, <4>2 DEF SyncApply, DataType
      <4> QED
        BY <4>1, <4>2
    <3> QED
      BY <2>1, <3>1 DEF SyncApply, vaultVars, DataType
  <2>2. CASE Lock \/ Unlock \/ Recover
    <3>1. open' \in BOOLEAN
      BY <2>2 DEF Lock, Unlock, Recover
    <3>2. epoch' \in 1 .. MaxEpoch
      BY <2>2 DEF Lock, Unlock, Recover, DataType
    <3>3. UNCHANGED <<ui, dataVars>>
      BY <2>2 DEF Lock, Unlock, Recover
    <3> QED
      BY <3>1, <3>2, <3>3 DEF dataVars, DataType
  <2>3. CASE ToggleUi
    <3>1. ui' \in BOOLEAN
      BY <2>3 DEF ToggleUi
    <3> QED
      BY <2>3, <3>1 DEF ToggleUi, dataVars, DataType
  <2> QED
    BY <1>2, <2>1, <2>2, <2>3 DEF VaultStep
<1>3. CASE Answers
  BY <1>3 DEF Answers, Answer, vaultVars, dataVars, DataType
<1>4. ASSUME NEW c \in Call, Perform(c)
      PROVE  live' \in [Object -> BOOLEAN] /\ deaths' \in [Object -> Nat]
  <2>1. target[c] \in Object
    BY DEF CallType
  <2>2. CASE Kill(target[c])
    BY <2>1, <2>2, KillTyped
  <2>3. CASE ~Kill(target[c])
    BY <1>4, <2>1, <2>3 DEF Perform, DataType
  <2> QED
    BY <2>2, <2>3
<1>5. ASSUME NEW c \in Call, Begin(c) PROVE DataType'
  <2>1. CASE BeginServed(c)
    <3>1. live' \in [Object -> BOOLEAN] /\ deaths' \in [Object -> Nat]
      BY <2>1, <1>4 DEF BeginServed, DataType
    <3> QED
      BY <2>1, <3>1 DEF BeginServed, vaultVars, DataType
  <2>2. CASE BeginRefused(c) \/ BeginAsked(c) \/ BeginLocked(c)
    BY <2>2 DEF BeginRefused, BeginAsked, BeginLocked, vaultVars, dataVars, DataType
  <2> QED
    BY <1>5, <2>1, <2>2 DEF Begin
<1>6. ASSUME NEW c \in Call, Finalize(c) PROVE DataType'
  <2>1. UNCHANGED <<vaultVars, removed>>
    BY <1>6 DEF Finalize, FinalizeDenied, AuthzFinalize, AuthzFinalizeUnlock,
         AuthzFinalizeReopen, DisclosureFinalize, PutFinalize, RemovalRecheck, Finish
  <2>2. chainOk' \in BOOLEAN
    BY <1>6 DEF Finalize, FinalizeDenied, AuthzFinalize, AuthzFinalizeUnlock,
         AuthzFinalizeReopen, DisclosureFinalize, PutFinalize, RemovalRecheck,
         AuditWith, DataType
  <2>3. CASE PutFinalize(c)
    <3>1. live' \in [Object -> BOOLEAN] /\ deaths' \in [Object -> Nat]
      BY <2>3, <1>4 DEF PutFinalize, DataType
    <3> QED
      BY <2>1, <2>2, <3>1 DEF vaultVars, DataType
  <2>4. CASE ~PutFinalize(c)
    <3>1. UNCHANGED <<live, deaths>>
      BY <1>6, <2>4 DEF Finalize, FinalizeDenied, AuthzFinalize,
           AuthzFinalizeUnlock, AuthzFinalizeReopen, DisclosureFinalize, RemovalRecheck
    <3> QED
      BY <2>1, <2>2, <3>1 DEF vaultVars, DataType
  <2> QED
    BY <2>3, <2>4
<1>7. ASSUME NEW c \in Call, Expire(c) \/ Await(c) PROVE DataType'
  BY <1>7 DEF Expire, Await, vaultVars, dataVars, DataType
<1>8. ASSUME NEW c \in Call, Remove(c) PROVE DataType'
  <2>1. target[c] \in Object
    BY DEF CallType
  <2>2. live' \in [Object -> BOOLEAN] /\ deaths' \in [Object -> Nat]
    BY <1>8, <2>1, KillTyped DEF Remove
  <2>3. removed' \in [Object -> Nat] /\ UNCHANGED <<open, epoch, ui, chainOk>>
    BY <1>8, <2>1 DEF Remove, vaultVars, DataType
  <2> QED
    BY <2>2, <2>3 DEF DataType
<1> QED
  BY <1>1, <1>2, <1>3, <1>5, <1>6, <1>7, <1>8 DEF Next

(***************************************************************************)
(* Every variable keeps its type.                                          *)
(***************************************************************************)
THEOREM TypeCorrect == Spec => []TypeOK
<1>1. Init => TypeOK
  <2> SUFFICES ASSUME Init PROVE CallType /\ DataType
    BY TypeParts
  <2>1. DOMAIN registry = {} /\ registry \in [{} -> Entry]
    BY DEF Init
  <2>2. op \in [Call -> Op]
    BY BoundAssumption DEF Init
  <2>3. RegistryType /\ accepted = {}
    BY <2>1 DEF Init, RegistryType
  <2>4. pc \in [Call -> Phase] /\ outcome \in [Call -> Outcome]
        /\ decision \in [Call -> {"none", "allowed", "denied", "timeout"}]
    BY DEF Init, Phase, Outcome
  <2>5. asked \in [Call -> Nat] /\ target \in [Call -> Object] /\ ruleAuto \in BOOLEAN
    BY DEF Init
  <2>6. CallType
    BY <2>2, <2>3, <2>4, <2>5 DEF CallType
  <2>7. epoch \in 1 .. MaxEpoch
    BY BoundAssumption DEF Init
  <2>8. live \in [Object -> BOOLEAN] /\ deaths \in [Object -> Nat]
        /\ removed \in [Object -> Nat]
    BY DEF Init
  <2>9. open \in BOOLEAN /\ ui \in BOOLEAN /\ chainOk \in BOOLEAN
    BY DEF Init
  <2> QED
    BY <2>6, <2>7, <2>8, <2>9 DEF DataType
<1>2. TypeOK /\ [Next]_vars => TypeOK'
  <2> SUFFICES ASSUME TypeOK, [Next]_vars PROVE CallType' /\ DataType'
    BY DEF TypeOK, CallType, DataType, RegistryType
  <2>1. CallType /\ DataType
    BY TypeParts
  <2> QED
    BY <2>1, StepShape, CallTypeStep, DataTypeStep
<1> QED
  BY <1>1, <1>2, PTL DEF Spec
---------------------------------------------------------------------------
\* Bookkeeping: the registry holds the approvals that calls wait for

InRegistry == \A c \in Call :
  pc[c] \in {"waiting", "answered"} => Current(c) \in DOMAIN registry

Fresh == \A c \in Call :
  /\ pc[c] = "idle" => asked[c] = 0
  /\ pc[c] \in {"idle", "waiting"} => decision[c] = "none"
  /\ pc[c] \in {"answered", "removing"} => decision[c] # "none"
  /\ pc[c] # "done" => outcome[c] = "none"

Bookkeeping == InRegistry /\ NothingLeftBehind /\ Fresh

\* An approval belongs to the call that its id names.
LEMMA OwnApproval ==
  ASSUME Bookkeeping, NEW c \in Call, NEW id \in DOMAIN registry
  PROVE  /\ id # Current(c) => id[1] # c
         /\ id = Current(c) => pc[c] \in {"waiting", "answered"}
  BY DEF Bookkeeping, NothingLeftBehind, Current

\* What registering an approval, the first one or another, does.
Opens(c) ==
  LET id == <<c, asked[c] + 1>>
  IN  /\ pc[c] \in {"idle", "answered"}
      /\ pc' = [pc EXCEPT ![c] = "waiting"]
      /\ asked' = [asked EXCEPT ![c] = asked[c] + 1]
      /\ decision' = [decision EXCEPT ![c] = "none"]
      /\ outcome' = outcome
      /\ Current(c)' = id
      /\ DOMAIN registry' = (DOMAIN registry \ {Current(c)}) \cup {id}
      /\ \A i \in DOMAIN registry \ {Current(c)} : registry'[i] = registry[i]
      /\ registry'[id].verdict \in {"none", "allowed"}
      /\ registry'[id].verdict = "allowed" => ~registry'[id].needsUnlock
      /\ accepted' = accepted \cup
           (IF registry'[id].verdict = "allowed" THEN {<<id, "allowed">>} ELSE {})

LEMMA Opened ==
  ASSUME CallType, Bookkeeping, NEW c \in Call,
         NEW entries, NEW unlock \in BOOLEAN, NEW workspace,
         OpenGateApproval(c, entries, unlock, workspace), UNCHANGED outcome,
         unlock => op[c] \in UnlockOp, pc[c] \in {"idle", "answered"},
         DOMAIN entries = DOMAIN registry \ {Current(c)},
         \A i \in DOMAIN entries : entries[i] = registry[i]
  PROVE  Opens(c)
<1> DEFINE id == <<c, asked[c] + 1>>
           auto == ruleAuto /\ op[c] \in RuleOp
           new == [verdict |-> IF auto THEN "allowed" ELSE "none",
                   expired |-> FALSE, needsUnlock |-> unlock, workspace |-> workspace]
<1>2. registry' = [i \in DOMAIN entries \cup {id} |-> IF i = id THEN new ELSE entries[i]]
  BY DEF OpenGateApproval
<1>3. id \notin DOMAIN registry
  <2>1. id # Current(c) /\ id[1] = c
    BY DEF Current, CallType
  <2> QED
    BY <2>1, OwnApproval
<1>4. DOMAIN registry' = (DOMAIN registry \ {Current(c)}) \cup {id}
      /\ registry'[id] = new
      /\ \A i \in DOMAIN registry \ {Current(c)} : registry'[i] = registry[i]
  BY <1>2, <1>3
<1>5. new.verdict = (IF auto THEN "allowed" ELSE "none") /\ new.needsUnlock = unlock
  OBVIOUS
<1>6. auto => ~unlock
  BY DEF UnlockOp, RuleOp
<1>7. accepted' = accepted \cup (IF auto THEN {<<id, "allowed">>} ELSE {})
      /\ asked' = [asked EXCEPT ![c] = asked[c] + 1]
      /\ decision' = [decision EXCEPT ![c] = "none"]
      /\ pc' = [pc EXCEPT ![c] = "waiting"]
  BY DEF OpenGateApproval
<1>8. Current(c)' = id
  BY <1>7 DEF Current, CallType
<1> HIDE DEF new, auto
<1> QED
  BY <1>4, <1>5, <1>6, <1>7, <1>8 DEF Opens

LEMMA AskedOpens ==
  ASSUME CallType, Bookkeeping, NEW c \in Call, Asked(c) \/ AskedAgain(c)
  PROVE  Opens(c)
<1>1. CASE Asked(c)
  <2>1. PICK unlock \in BOOLEAN : /\ unlock => op[c] \in UnlockOp
                                  /\ OpenGateApproval(c, registry, unlock, NoWorkspace)
    BY <1>1 DEF Asked
  <2>2. Current(c) \notin DOMAIN registry
    BY <1>1, OwnApproval DEF Asked
  <2>3. pc[c] \in {"idle", "answered"} /\ UNCHANGED outcome
    BY <1>1 DEF Asked
  <2> QED
    BY <2>1, <2>2, <2>3, Opened
<1>2. CASE AskedAgain(c)
  <2>1. DOMAIN Without(Current(c)) = DOMAIN registry \ {Current(c)}
        /\ \A i \in DOMAIN Without(Current(c)) : Without(Current(c))[i] = registry[i]
    BY DEF Without
  <2>2. OpenGateApproval(c, Without(Current(c)), TRUE,
          [Mine(c).workspace EXCEPT !.adjudicated = TRUE])
    BY <1>2 DEF AskedAgain
  <2>3. op[c] \in UnlockOp /\ pc[c] \in {"idle", "answered"} /\ UNCHANGED outcome
    BY <1>2 DEF AskedAgain, Consented, UnlockOp
  <2> QED
    BY <2>1, <2>2, <2>3, Opened
<1> QED
  BY <1>1, <1>2

\* What taking an approval out of the registry does.
LEMMA Taken ==
  ASSUME CallType, NEW c \in Call, registry' = Without(Current(c))
  PROVE  /\ DOMAIN registry' = DOMAIN registry \ {Current(c)}
         /\ \A i \in DOMAIN registry' : registry'[i] = registry[i]
  BY DEF Without

LEMMA BookkeepingStep ==
  ASSUME CallType, CallType', Bookkeeping, Shape PROVE Bookkeeping'
<1>1. CASE Quiet
  BY <1>1 DEF Quiet, callVars, Bookkeeping, InRegistry, NothingLeftBehind, Fresh, Current
<1>2. CASE Answered
  <2>1. UNCHANGED callVars /\ DOMAIN registry' = DOMAIN registry
    BY <1>2 DEF Answered, Answer
  <2> QED
    BY <2>1 DEF callVars, Bookkeeping, InRegistry, NothingLeftBehind, Fresh, Current
<1>3. ASSUME NEW c \in Call, Expire(c) PROVE Bookkeeping'
  <2>1. UNCHANGED callVars /\ DOMAIN registry' = DOMAIN registry
    BY <1>3 DEF Expire
  <2> QED
    BY <2>1 DEF callVars, Bookkeeping, InRegistry, NothingLeftBehind, Fresh, Current
<1>4. ASSUME NEW c \in Call, Await(c) PROVE Bookkeeping'
  <2>1. Awaited(Current(c)) # "none"
    BY DEF Awaited
  <2> QED
    BY <1>4, <2>1 DEF Await, CallType, Bookkeeping, InRegistry, NothingLeftBehind,
      Fresh, Current
<1>5. ASSUME NEW c \in Call, Settled(c, "idle") \/ Settled(c, "removing") PROVE Bookkeeping'
  BY <1>5 DEF Settled, Reply, CallType, Bookkeeping, InRegistry, NothingLeftBehind,
    Fresh, Current
<1>6. ASSUME NEW c \in Call, Asked(c) \/ AskedAgain(c) PROVE Bookkeeping'
  <2>0. Opens(c)
    BY <1>6, AskedOpens
  <2>1. \A d \in Call \ {c} : /\ pc'[d] = pc[d] /\ Current(d)' = Current(d)
                              /\ decision'[d] = decision[d] /\ outcome'[d] = outcome[d]
                              /\ asked'[d] = asked[d]
    BY <2>0 DEF Opens, Current, CallType
  <2>2. pc'[c] = "waiting" /\ decision'[c] = "none"
    BY <2>0 DEF Opens, CallType
  <2>3. outcome'[c] = "none"
    BY <2>0 DEF Opens, Bookkeeping, Fresh
  <2>4. Current(c)' = <<c, asked[c] + 1>>
        /\ DOMAIN registry' = (DOMAIN registry \ {Current(c)}) \cup {<<c, asked[c] + 1>>}
    BY <2>0 DEF Opens
  <2>5. \A d \in Call \ {c} : Current(d) # Current(c)
    BY DEF Current
  <2>6. InRegistry'
    BY <2>1, <2>2, <2>4, <2>5 DEF Bookkeeping, InRegistry
  <2>7. NothingLeftBehind'
    BY <2>1, <2>2, <2>4 DEF Bookkeeping, NothingLeftBehind
  <2>8. Fresh'
    BY <2>1, <2>2, <2>3 DEF Bookkeeping, Fresh
  <2> QED
    BY <2>6, <2>7, <2>8 DEF Bookkeeping
<1>7. ASSUME NEW c \in Call, Finished(c) \/ Rechecked(c) PROVE Bookkeeping'
  <2>1. DOMAIN registry' = DOMAIN registry \ {Current(c)}
    BY <1>7, Taken DEF Finished, Rechecked
  <2>2. /\ \A d \in Call \ {c} : pc'[d] = pc[d] /\ outcome'[d] = outcome[d]
        /\ asked' = asked /\ decision' = decision
        /\ pc'[c] = "done" \/ (pc'[c] = "removing" /\ outcome'[c] = outcome[c])
        /\ pc[c] = "answered"
    BY <1>7 DEF Finished, Rechecked, Reply, CallType
  <2>3. \A d \in Call : Current(d)' = Current(d) /\ (d # c => Current(d) # Current(c))
    BY <2>2 DEF Current
  <2> QED
    BY <2>1, <2>2, <2>3 DEF Bookkeeping, InRegistry, NothingLeftBehind, Fresh
<1> QED
  BY <1>1, <1>2, <1>3, <1>4, <1>5, <1>6, <1>7 DEF Shape

LEMMA Booked == Spec => [](TypeOK /\ Bookkeeping)
<1>1. Init => Bookkeeping
  BY DEF Init, Bookkeeping, InRegistry, NothingLeftBehind, Fresh
<1>2. TypeOK /\ TypeOK' /\ Bookkeeping /\ [Next]_vars => Bookkeeping'
  <2> SUFFICES ASSUME TypeOK, TypeOK', Bookkeeping, [Next]_vars PROVE Bookkeeping'
    OBVIOUS
  <2>1. CallType /\ CallType'
    BY DEF TypeOK, CallType, RegistryType
  <2> QED
    BY <2>1, StepShape, BookkeepingStep
<1> QED
  BY <1>1, <1>2, TypeCorrect, PTL DEF Spec

(***************************************************************************)
(* No approval that nobody waits for stays in the registry.                *)
(***************************************************************************)
THEOREM RegistryConsumed == Spec => []NothingLeftBehind
  BY Booked, PTL DEF Bookkeeping
---------------------------------------------------------------------------
\* Consents: what the registry and the calls say about the answers

\* An answer that counted was for an approval that had been registered.
Registered == \A a \in accepted : a[1][2] <= asked[a[1][1]]

\* The registry remembers whether an answer counted, and a consent.
Recorded == \A id \in DOMAIN registry :
  /\ registry[id].verdict = "none" =>
       \A verdict \in {"allowed", "denied"} : <<id, verdict>> \notin accepted
  /\ registry[id].verdict = "allowed" => <<id, "allowed">> \in accepted

\* What a call has been told.
Told(c) ==
  /\ decision[c] = "allowed" => <<Current(c), "allowed">> \in accepted
  /\ decision[c] = "timeout" =>
       /\ \A verdict \in {"allowed", "denied"} : <<Current(c), verdict>> \notin accepted
       /\ Current(c) \in DOMAIN registry => registry[Current(c)].expired
  /\ \A n \in 1 .. asked[c] : n < asked[c] => <<<<c, n>>, "allowed">> \in accepted
  /\ pc[c] = "removing" => decision[c] = "allowed"
  /\ outcome[c] = "executed" => asked[c] = 0 \/ decision[c] = "allowed"

Consents == Registered /\ Recorded /\ \A c \in Call : Told(c)

\* Steps that answer nothing and register nothing.
LEMMA ConsentsKept ==
  ASSUME CallType, CallType', Consents, UNCHANGED <<asked, accepted>>,
         DOMAIN registry' \subseteq DOMAIN registry,
         \A id \in DOMAIN registry' :
           /\ registry'[id].verdict = registry[id].verdict
           /\ registry[id].expired => registry'[id].expired,
         \A c \in Call : Told(c)'
  PROVE  Consents'
  BY DEF Consents, Registered, Recorded

LEMMA ConsentsStep ==
  ASSUME CallType, CallType', Bookkeeping, Consents, Shape PROVE Consents'
<1>1. CASE Quiet
  BY <1>1 DEF Quiet, callVars, Consents, Registered, Recorded, Told, Current
<1>2. CASE Answered
  <2>1. PICK id \in DOMAIN registry, right \in BOOLEAN, verdict \in {"allowed", "denied"} :
          Answer(id, right, verdict)
    BY <1>2 DEF Answered
  <2>2. UNCHANGED callVars /\ DOMAIN registry' = DOMAIN registry
        /\ \A i \in DOMAIN registry \ {id} : registry'[i] = registry[i]
    BY <2>1 DEF Answer
  <2>3. /\ registry'[id].verdict = IF Accepts(id, right) THEN verdict ELSE registry[id].verdict
        /\ registry'[id].expired = registry[id].expired
    <3>1. registry[id] \in Entry
      BY DEF CallType, RegistryType
    <3> DEFINE new == [registry[id] EXCEPT
                   !.verdict = IF Accepts(id, right) THEN verdict ELSE @,
                   !.workspace = Unlocked(id, verdict)]
    <3>2. new.verdict = (IF Accepts(id, right) THEN verdict ELSE registry[id].verdict)
          /\ new.expired = registry[id].expired
      BY <3>1 DEF Entry
    <3>3. registry'[id] = new
      BY <2>1 DEF Answer
    <3> QED
      BY <3>2, <3>3
  <2>4. accepted' = accepted \cup (IF Accepts(id, right) THEN {<<id, verdict>>} ELSE {})
        /\ (Accepts(id, right) => ~registry[id].expired)
    BY <2>1 DEF Answer, Accepts
  <2>5. PICK d \in Call : id = Current(d) /\ pc[d] \in {"waiting", "answered"}
    BY DEF Bookkeeping, NothingLeftBehind
  <2>6. \A c \in Call : Current(c)' = Current(c)
    BY <2>2 DEF callVars, Current
  <2>7. Registered'
    <3>1. <<id, verdict>>[1][2] <= asked[<<id, verdict>>[1][1]]
      BY <2>5 DEF Current, CallType
    <3> QED
      BY <2>2, <2>4, <3>1 DEF callVars, Consents, Registered
  <2>8. Recorded'
    BY <2>2, <2>3, <2>4 DEF Consents, Recorded
  <2>9. ASSUME NEW c \in Call PROVE Told(c)'
    BY <2>2, <2>3, <2>4, <2>6 DEF callVars, Consents, Told
  <2> QED
    BY <2>7, <2>8, <2>9 DEF Consents
<1>3. ASSUME NEW c \in Call, Expire(c) PROVE Consents'
  <2>1. UNCHANGED <<callVars, accepted>> /\ DOMAIN registry' = DOMAIN registry
    BY <1>3 DEF Expire
  <2>2. \A id \in DOMAIN registry :
          /\ registry'[id].verdict = registry[id].verdict
          /\ registry[id].expired => registry'[id].expired
    BY <1>3 DEF Expire, CallType, RegistryType, Entry
  <2>3. ASSUME NEW d \in Call PROVE Told(d)'
    BY <2>1, <2>2 DEF callVars, Consents, Told, Current
  <2> QED
    BY <2>1, <2>2, <2>3, ConsentsKept DEF callVars
<1>4. ASSUME NEW c \in Call, Await(c) PROVE Consents'
  <2>1. UNCHANGED <<asked, outcome, registry, accepted>>
        /\ decision' = [decision EXCEPT ![c] = Awaited(Current(c))]
        /\ pc' = [pc EXCEPT ![c] = "answered"] /\ pc[c] = "waiting"
    BY <1>4 DEF Await
  <2>2. Current(c) \in DOMAIN registry /\ outcome[c] = "none"
    BY <2>1 DEF Bookkeeping, InRegistry, Fresh
  <2>3. ASSUME NEW d \in Call, d # c PROVE Told(d)'
    BY <2>1, <2>3 DEF Consents, Told, Current, CallType
  <2>4. Told(c)'
    <3>1. decision'[c] = Awaited(Current(c)) /\ pc'[c] = "answered" /\ Current(c)' = Current(c)
      BY <2>1 DEF CallType, Current
    <3>2. Awaited(Current(c)) = "allowed" => <<Current(c), "allowed">> \in accepted
      BY <2>2 DEF Awaited, Consents, Recorded
    <3>3. Awaited(Current(c)) = "timeout" => registry[Current(c)].verdict = "none"
      BY <2>2 DEF Awaited, CallType, RegistryType, Entry
    <3>4. registry[Current(c)].verdict = "none" => registry[Current(c)].expired
      BY <1>4, <2>2 DEF Await
    <3> QED
      BY <2>1, <2>2, <3>1, <3>2, <3>3, <3>4 DEF Consents, Recorded, Told
  <2> QED
    BY <2>1, <2>3, <2>4, ConsentsKept
<1>5. ASSUME NEW c \in Call, Settled(c, "idle") \/ Settled(c, "removing") PROVE Consents'
  <2>1. UNCHANGED <<asked, decision, registry, accepted>>
        /\ pc[c] \in {"idle", "removing"} /\ pc'[c] = "done"
        /\ \A d \in Call \ {c} : pc'[d] = pc[d] /\ outcome'[d] = outcome[d]
    BY <1>5 DEF Settled, Reply, CallType
  <2>2. ASSUME NEW d \in Call PROVE Told(d)'
    <3>1. CASE d = c
      BY <2>1, <3>1 DEF Consents, Told, Current, Bookkeeping, Fresh
    <3>2. CASE d # c
      BY <2>1, <3>2 DEF Consents, Told, Current
    <3> QED
      BY <3>1, <3>2
  <2> QED
    BY <2>1, <2>2, ConsentsKept
<1>6. ASSUME NEW c \in Call, Asked(c) \/ AskedAgain(c) PROVE Consents'
  <2> DEFINE id == <<c, asked[c] + 1>>
  <2>1. Opens(c)
    BY <1>6, AskedOpens
  <2>2. /\ \A i \in DOMAIN registry' \ {id} : i \in DOMAIN registry /\ registry'[i] = registry[i]
        /\ registry'[id].verdict \in {"none", "allowed"}
        /\ accepted \subseteq accepted'
        /\ \A a \in accepted' : a \in accepted
             \/ (a = <<id, "allowed">> /\ registry'[id].verdict = "allowed")
        /\ registry'[id].verdict = "allowed" => <<id, "allowed">> \in accepted'
    BY <2>1 DEF Opens
  <2>3. asked'[c] = asked[c] + 1 /\ asked[c] \in Nat
        /\ \A d \in Call \ {c} : asked'[d] = asked[d]
    BY <2>1 DEF Opens, CallType
  <2>4. \A a \in accepted : a[1] # id
    BY <2>3 DEF Consents, Registered, CallType
  <2>5. Registered'
    <3>1. ASSUME NEW a \in accepted PROVE a[1][2] <= asked'[a[1][1]]
      <4>1. a[1][1] \in Call /\ a[1][2] \in Nat /\ a[1][2] <= asked[a[1][1]]
        BY DEF Consents, Registered, CallType
      <4> QED
        BY <4>1, <2>3 DEF CallType
    <3>2. <<id, "allowed">>[1][2] <= asked'[<<id, "allowed">>[1][1]]
      BY <2>3
    <3> QED
      BY <2>2, <3>1, <3>2 DEF Registered
  <2>6. Recorded'
    <3> SUFFICES ASSUME NEW i \in DOMAIN registry'
        PROVE /\ registry'[i].verdict = "none" =>
                   \A verdict \in {"allowed", "denied"} : <<i, verdict>> \notin accepted'
              /\ registry'[i].verdict = "allowed" => <<i, "allowed">> \in accepted'
      BY DEF Recorded
    <3>1. CASE i = id
      BY <2>2, <2>4, <3>1
    <3>2. CASE i # id
      BY <2>2, <3>2 DEF Consents, Recorded
    <3> QED
      BY <3>1, <3>2
  <2>7. ASSUME NEW d \in Call, d # c PROVE Told(d)'
    <3>1. Current(d)' = Current(d) /\ Current(d) # id /\ Current(d) # Current(c)
      BY <2>3, <2>7 DEF Current
    <3>2. pc'[d] = pc[d] /\ decision'[d] = decision[d] /\ outcome'[d] = outcome[d]
          /\ asked'[d] = asked[d]
      BY <2>1, <2>7 DEF Opens, CallType
    <3>3. \A verdict \in {"allowed", "denied"} :
            <<Current(d), verdict>> \in accepted' => <<Current(d), verdict>> \in accepted
      BY <2>2, <3>1
    <3>4. Current(d) \in DOMAIN registry' =>
            Current(d) \in DOMAIN registry /\ registry'[Current(d)] = registry[Current(d)]
      BY <2>2, <3>1
    <3> QED
      BY <2>2, <3>1, <3>2, <3>3, <3>4 DEF Consents, Told
  <2>8. Told(c)'
    <3>1. decision'[c] = "none" /\ pc'[c] = "waiting"
      BY <2>1 DEF Opens, CallType
    <3>2. outcome'[c] = "none"
      BY <2>1 DEF Opens, Bookkeeping, Fresh
    <3>3. ASSUME NEW n \in 1 .. asked[c] PROVE <<<<c, n>>, "allowed">> \in accepted
      <4>0. asked[c] # 0
        BY <2>3
      <4>1. decision[c] = "allowed"
        <5>1. ~Asked(c)
          BY <4>0 DEF Asked, Bookkeeping, Fresh
        <5> QED
          BY <1>6, <5>1 DEF AskedAgain, Consented
      <4>2. CASE n = asked[c]
        BY <4>1, <4>2 DEF Consents, Told, Current
      <4>3. CASE n < asked[c]
        BY <4>3 DEF Consents, Told
      <4> QED
        BY <4>2, <4>3, <2>3
    <3>4. \A n \in 1 .. asked'[c] : n < asked'[c] => n \in 1 .. asked[c]
      BY <2>3
    <3> QED
      BY <2>2, <3>1, <3>2, <3>3, <3>4 DEF Told
  <2> QED
    BY <2>5, <2>6, <2>7, <2>8 DEF Consents
<1>7. ASSUME NEW c \in Call, Finished(c) \/ Rechecked(c) PROVE Consents'
  <2>1. DOMAIN registry' \subseteq DOMAIN registry
        /\ \A i \in DOMAIN registry' : registry'[i] = registry[i]
    BY <1>7, Taken DEF Finished, Rechecked
  <2>2. /\ UNCHANGED <<asked, decision, accepted>>
        /\ \A d \in Call \ {c} : pc'[d] = pc[d] /\ outcome'[d] = outcome[d]
        /\ pc'[c] = "done" \/ (pc'[c] = "removing" /\ decision[c] = "allowed")
        /\ outcome'[c] = "executed" => decision[c] = "allowed" \/ outcome[c] = "executed"
    BY <1>7 DEF Finished, Rechecked, Reply, CallType
  <2>3. ASSUME NEW d \in Call PROVE Told(d)'
    <3>1. CASE d = c
      BY <2>1, <2>2, <3>1 DEF Consents, Told, Current
    <3>2. CASE d # c
      BY <2>1, <2>2, <3>2 DEF Consents, Told, Current
    <3> QED
      BY <3>1, <3>2
  <2> QED
    BY <2>1, <2>2, <2>3, ConsentsKept
<1> QED
  BY <1>1, <1>2, <1>3, <1>4, <1>5, <1>6, <1>7 DEF Shape

LEMMA Consenting == Spec => [](TypeOK /\ Bookkeeping /\ Consents)
<1>1. Init => Consents
  BY DEF Init, Consents, Registered, Recorded, Told
<1>2. TypeOK /\ TypeOK' /\ Bookkeeping /\ Consents /\ [Next]_vars => Consents'
  <2> SUFFICES ASSUME TypeOK, TypeOK', Bookkeeping, Consents, [Next]_vars PROVE Consents'
    OBVIOUS
  <2>1. CallType /\ CallType'
    BY DEF TypeOK, CallType, RegistryType
  <2> QED
    BY <2>1, StepShape, ConsentsStep
<1> QED
  BY <1>1, <1>2, Booked, PTL DEF Spec

(***************************************************************************)
(* Nothing is carried out without a consent to each of its approvals.      *)
(***************************************************************************)
THEOREM ExecutionApproved == Spec => []ApprovedExecution
<1>1. TypeOK /\ Consents => ApprovedExecution
  <2> SUFFICES ASSUME TypeOK, Consents, NEW c \in Call, outcome[c] = "executed",
                      NEW n \in 1 .. asked[c]
      PROVE <<<<c, n>>, "allowed">> \in accepted
    BY DEF ApprovedExecution
  <2>1. asked[c] \in Nat /\ asked[c] # 0
    BY DEF TypeOK
  <2>2. CASE n < asked[c]
    BY <2>2 DEF Consents, Told
  <2>3. CASE n = asked[c]
    <3>1. Told(c)
      BY DEF Consents
    <3> QED
      BY <2>1, <2>3, <3>1 DEF Told, Current
  <2> QED
    BY <2>1, <2>2, <2>3
<1> QED
  BY <1>1, Consenting, PTL

(***************************************************************************)
(* No answer counts after its call was told that time is up.               *)
(***************************************************************************)
THEOREM LateRefused == Spec => []LateAnswerRefused
<1>1. Consents => LateAnswerRefused
  BY DEF Consents, Told, LateAnswerRefused
<1> QED
  BY <1>1, Consenting, PTL
---------------------------------------------------------------------------
\* Workspaces

\* A second approval carries the mark of the adjudication.
Marked(c) ==
  /\ asked[c] <= 2
  /\ asked[c] = 2 /\ Current(c) \in DOMAIN registry
       => registry[Current(c)].workspace.adjudicated

Workspaces == ApprovedIsUnlocked /\ \A c \in Call : Marked(c)

\* An answer keeps the mark, and leaves a vault behind if it is a consent.
LEMMA AnswerUnlocks ==
  ASSUME CallType, NEW id \in DOMAIN registry, NEW right, NEW verdict,
         Answer(id, right, verdict)
  PROVE  /\ DOMAIN registry' = DOMAIN registry
         /\ \A i \in DOMAIN registry \ {id} : registry'[i] = registry[i]
         /\ registry'[id].needsUnlock = registry[id].needsUnlock
         /\ registry'[id].workspace = Unlocked(id, verdict)
         /\ registry'[id].verdict \in {registry[id].verdict, verdict}
<1> DEFINE workspace == Unlocked(id, verdict)
           new == [registry[id] EXCEPT
                    !.verdict = IF Accepts(id, right) THEN verdict ELSE @,
                    !.workspace = workspace]
<1>1. registry[id] \in Entry
  BY DEF CallType, RegistryType
<1>2. new.needsUnlock = registry[id].needsUnlock /\ new.workspace = workspace
      /\ new.verdict \in {registry[id].verdict, verdict}
  <2> HIDE DEF workspace
  <2> QED
    BY <1>1 DEF Entry
<1>3. registry' = [registry EXCEPT ![id] = new]
  BY DEF Answer
<1> HIDE DEF new, workspace
<1>4. registry'[id] = new /\ DOMAIN registry' = DOMAIN registry
      /\ \A i \in DOMAIN registry \ {id} : registry'[i] = registry[i]
  BY <1>3
<1> QED
  BY <1>2, <1>4 DEF workspace

LEMMA WorkspacesStep ==
  ASSUME CallType, DataType, CallType', Bookkeeping, Workspaces, Shape
  PROVE  Workspaces'
<1>1. CASE Quiet
  BY <1>1 DEF Quiet, callVars, Workspaces, ApprovedIsUnlocked, Marked, Current
<1>2. CASE Answered
  <2>1. PICK id \in DOMAIN registry, right \in BOOLEAN, verdict \in {"allowed", "denied"} :
          Answer(id, right, verdict)
    BY <1>2 DEF Answered
  <2>2. registry[id] \in Entry /\ asked' = asked
    BY <2>1 DEF CallType, RegistryType, Answer, callVars
  <2>3. /\ Unlocked(id, verdict).adjudicated = registry[id].workspace.adjudicated
        /\ Unlocked(id, verdict).key \in {registry[id].workspace.key, epoch}
        /\ registry[id].needsUnlock /\ verdict = "allowed"
             => Unlocked(id, verdict).key = epoch
    BY <2>2 DEF Unlocked, Entry, Workspace
  <2>4. epoch # 0
    BY BoundAssumption DEF DataType
  <2>5. ApprovedIsUnlocked'
    <3> SUFFICES ASSUME NEW i \in DOMAIN registry', registry'[i].needsUnlock,
                        registry'[i].verdict = "allowed"
        PROVE registry'[i].workspace.key # 0
      BY DEF ApprovedIsUnlocked
    <3>1. CASE i # id
      BY <2>1, <3>1, AnswerUnlocks DEF Workspaces, ApprovedIsUnlocked
    <3>2. CASE i = id
      <4>1. /\ registry[id].needsUnlock
            /\ registry[id].verdict = "allowed" \/ verdict = "allowed"
            /\ registry'[i].workspace = Unlocked(id, verdict)
        BY <2>1, <3>2, AnswerUnlocks
      <4> QED
        BY <2>3, <2>4, <4>1 DEF Workspaces, ApprovedIsUnlocked
    <3> QED
      BY <3>1, <3>2
  <2>6. ASSUME NEW c \in Call PROVE Marked(c)'
    <3>1. Current(c)' = Current(c)
      BY <2>2 DEF Current
    <3>2. CASE Current(c) = id
      BY <2>1, <2>2, <2>3, <3>1, <3>2, AnswerUnlocks DEF Workspaces, Marked
    <3>3. CASE Current(c) # id
      BY <2>1, <2>2, <3>1, <3>3, AnswerUnlocks DEF Workspaces, Marked
    <3> QED
      BY <3>2, <3>3
  <2> QED
    BY <2>5, <2>6 DEF Workspaces
<1>3. ASSUME NEW c \in Call, Expire(c) PROVE Workspaces'
  <2>1. asked' = asked /\ DOMAIN registry' = DOMAIN registry
    BY <1>3 DEF Expire, callVars
  <2>2. \A id \in DOMAIN registry :
          /\ registry'[id].verdict = registry[id].verdict
          /\ registry'[id].needsUnlock = registry[id].needsUnlock
          /\ registry'[id].workspace = registry[id].workspace
    BY <1>3 DEF Expire, CallType, RegistryType, Entry
  <2> QED
    BY <2>1, <2>2 DEF Workspaces, ApprovedIsUnlocked, Marked, Current
<1>4. ASSUME NEW c \in Call, Await(c) PROVE Workspaces'
  BY <1>4 DEF Await, Workspaces, ApprovedIsUnlocked, Marked, Current
<1>5. ASSUME NEW c \in Call, Settled(c, "idle") \/ Settled(c, "removing") PROVE Workspaces'
  BY <1>5 DEF Settled, Workspaces, ApprovedIsUnlocked, Marked, Current
<1>6. ASSUME NEW c \in Call, Asked(c) \/ AskedAgain(c) PROVE Workspaces'
  <2> DEFINE id == <<c, asked[c] + 1>>
  <2>1. Opens(c)
    BY <1>6, AskedOpens
  <2>2. \A i \in DOMAIN registry' \ {id} : i \in DOMAIN registry /\ registry'[i] = registry[i]
    BY <2>1 DEF Opens
  <2>3. ApprovedIsUnlocked'
    <3>1. registry'[id].verdict = "allowed" => ~registry'[id].needsUnlock
      BY <2>1 DEF Opens
    <3> QED
      BY <2>2, <3>1 DEF Workspaces, ApprovedIsUnlocked
  <2>4. asked'[c] = asked[c] + 1 /\ asked[c] \in Nat /\ Current(c)' = id
        /\ \A d \in Call \ {c} : asked'[d] = asked[d]
    BY <2>1 DEF Opens, CallType
  <2>5. ASSUME NEW d \in Call, d # c PROVE Marked(d)'
    <3>1. Current(d)' = Current(d) /\ Current(d) # id
      BY <2>4, <2>5 DEF Current
    <3> QED
      BY <2>2, <2>4, <2>5, <3>1 DEF Workspaces, Marked
  <2>6. Marked(c)'
    <3>1. CASE Asked(c)
      BY <2>4, <3>1 DEF Asked, Bookkeeping, Fresh, Marked
    <3>2. CASE AskedAgain(c)
      <4>1. Mine(c) = registry[Current(c)] /\ Mine(c) \in Entry
            /\ ~Mine(c).workspace.adjudicated /\ Current(c) \in DOMAIN registry
        BY <3>2 DEF AskedAgain, Consented, Mine, CallType, RegistryType
      <4>2. asked[c] \in {0, 1}
        BY <2>4, <4>1 DEF Workspaces, Marked
      <4> DEFINE workspace == [Mine(c).workspace EXCEPT !.adjudicated = TRUE]
      <4>3. workspace.adjudicated
        BY <4>1 DEF Entry, Workspace
      <4>4. registry'[id].workspace = workspace
        <5>1. OpenGateApproval(c, Without(Current(c)), TRUE, workspace)
          BY <3>2 DEF AskedAgain
        <5> HIDE DEF workspace
        <5> QED
          BY <5>1 DEF OpenGateApproval
      <4> QED
        BY <2>4, <4>2, <4>3, <4>4 DEF Marked
    <3> QED
      BY <1>6, <3>1, <3>2
  <2> QED
    BY <2>3, <2>5, <2>6 DEF Workspaces
<1>7. ASSUME NEW c \in Call, Finished(c) \/ Rechecked(c) PROVE Workspaces'
  <2>1. DOMAIN registry' \subseteq DOMAIN registry /\ asked' = asked
        /\ \A i \in DOMAIN registry' : registry'[i] = registry[i]
    BY <1>7, Taken DEF Finished, Rechecked
  <2> QED
    BY <2>1 DEF Workspaces, ApprovedIsUnlocked, Marked, Current
<1> QED
  BY <1>1, <1>2, <1>3, <1>4, <1>5, <1>6, <1>7 DEF Shape

LEMMA WorkspacesKept == Spec => []Workspaces
<1>1. Init => Workspaces
  BY DEF Init, Workspaces, ApprovedIsUnlocked, Marked
<1>2. TypeOK /\ TypeOK' /\ Bookkeeping /\ Workspaces /\ [Next]_vars => Workspaces'
  <2> SUFFICES ASSUME TypeOK, TypeOK', Bookkeeping, Workspaces, [Next]_vars
      PROVE Workspaces'
    OBVIOUS
  <2>1. CallType /\ DataType /\ CallType'
    BY DEF TypeOK, CallType, DataType, RegistryType
  <2> QED
    BY <2>1, StepShape, WorkspacesStep
<1> QED
  BY <1>1, <1>2, Booked, PTL DEF Spec

(***************************************************************************)
(* A consent to a request on a locked vault always has its unlocked vault. *)
(***************************************************************************)
THEOREM ConsentUnlocks == Spec => []ApprovedIsUnlocked
  BY WorkspacesKept, PTL DEF Workspaces

(***************************************************************************)
(* Nobody is asked a third time for one request.                           *)
(***************************************************************************)
THEOREM AskedTwiceAtMost == Spec => []OneReopening
<1>1. Workspaces => OneReopening
  BY DEF Workspaces, Marked, OneReopening
<1> QED
  BY <1>1, WorkspacesKept, PTL
---------------------------------------------------------------------------
\* Removals

\* The removal of an object that went away meanwhile has a deletion to spare.
Spare == \A c \in Call : pc[c] = "removing" /\ ~live[target[c]] =>
           removed[target[c]] < deaths[target[c]]

OneRemoving == \A c, d \in Call :
  pc[c] = "removing" /\ pc[d] = "removing" => c = d

Removals == NoPhantomRemoval /\ Spare /\ OneRemoving

LEMMA KillCounts ==
  ASSUME DataType, NEW o \in Object, Kill(o)
  PROVE  /\ ~live'[o] /\ deaths'[o] = deaths[o] + (IF live[o] THEN 1 ELSE 0)
         /\ \A p \in Object \ {o} : live'[p] = live[p] /\ deaths'[p] = deaths[p]
         /\ \A p \in Object : deaths[p] <= deaths'[p]
<1>1. deaths \in [Object -> Nat] /\ live \in [Object -> BOOLEAN]
  BY DEF DataType
<1>2. deaths' = [deaths EXCEPT ![o] = deaths[o] + (IF live[o] THEN 1 ELSE 0)]
      /\ live' = [live EXCEPT ![o] = FALSE]
  BY DEF Kill
<1>3. ~live'[o] /\ \A p \in Object \ {o} : live'[p] = live[p]
  BY <1>1, <1>2
<1>4. deaths'[o] = deaths[o] + (IF live[o] THEN 1 ELSE 0)
      /\ \A p \in Object \ {o} : deaths'[p] = deaths[p]
  BY <1>1, <1>2
<1> QED
  BY <1>1, <1>3, <1>4

\* While the command lock is free, deletions can only help.
LEMMA FreeStep ==
  ASSUME DataType, DataType', Removals, CommandFree', UNCHANGED removed,
         \A o \in Object : deaths[o] <= deaths'[o]
  PROVE  Removals'
<1>1. NoPhantomRemoval'
  BY DEF Removals, NoPhantomRemoval, DataType
<1> QED
  BY <1>1 DEF Removals, Spare, OneRemoving, CommandFree

LEMMA RemovalsStep ==
  ASSUME CallType, DataType, DataType', Removals, [Next]_vars PROVE Removals'
<1>1. CASE UNCHANGED <<target, pc, live, deaths, removed>>
  BY <1>1 DEF Removals, NoPhantomRemoval, Spare, OneRemoving
<1>2. CASE VaultStep
  <2>1. ASSUME NEW o \in Object, SyncApply(o) PROVE Removals'
    <3>1. UNCHANGED <<target, pc, removed>>
      BY <2>1 DEF SyncApply, given, callVars
    <3>2. CASE Kill(o)
      <4>1. NoPhantomRemoval'
        BY <3>1, <3>2, KillCounts DEF Removals, NoPhantomRemoval, DataType
      <4>2. Spare'
        <5> SUFFICES ASSUME NEW c \in Call, pc[c] = "removing", ~live'[target[c]]
            PROVE removed[target[c]] < deaths'[target[c]]
          BY <3>1 DEF Spare
        <5>0. target[c] \in Object
          BY DEF CallType
        <5>1. CASE live[target[c]]
          <6>1. target[c] = o
            BY <5>0, <5>1, <3>2, KillCounts
          <6>2. deaths'[o] = deaths[o] + 1
            BY <5>1, <6>1, <3>2, KillCounts
          <6> QED
            BY <5>0, <6>1, <6>2 DEF Removals, NoPhantomRemoval, DataType
        <5>2. CASE ~live[target[c]]
          <6>1. deaths[target[c]] <= deaths'[target[c]]
            BY <5>0, <3>2, KillCounts
          <6>2. removed[target[c]] < deaths[target[c]]
            BY <5>2 DEF Removals, Spare
          <6> QED
            BY <5>0, <6>1, <6>2 DEF DataType
        <5> QED
          BY <5>1, <5>2
      <4> QED
        BY <3>1, <4>1, <4>2 DEF Removals, OneRemoving
    <3>3. CASE ~Kill(o)
      <4>1. live' = [live EXCEPT ![o] = TRUE] /\ UNCHANGED deaths
        BY <2>1, <3>3 DEF SyncApply
      <4>2. \A p \in Object : live[p] => live'[p]
        BY <4>1 DEF DataType
      <4>3. \A c \in Call : target[c] \in Object
        BY DEF CallType
      <4> QED
        BY <3>1, <4>1, <4>2, <4>3 DEF Removals, NoPhantomRemoval, Spare, OneRemoving
    <3> QED
      BY <3>2, <3>3
  <2>2. CASE Lock \/ Unlock \/ Recover \/ ToggleUi
    BY <1>1, <2>2 DEF Lock, Unlock, Recover, ToggleUi, given, callVars, dataVars
  <2> QED
    BY <1>2, <2>1, <2>2 DEF VaultStep
<1>3. CASE Answers
  BY <1>1, <1>3 DEF Answers, Answer, given, callVars, dataVars
<1>4. ASSUME NEW c \in Call, NEW to \in Phase \ {"removing"},
             CommandFree, pc' = [pc EXCEPT ![c] = to]
      PROVE  CommandFree'
  BY <1>4 DEF CommandFree, CallType
<1>5. ASSUME NEW c \in Call, Perform(c) \/ UNCHANGED <<live, deaths>>
      PROVE  \A o \in Object : deaths[o] <= deaths'[o]
  <2>1. target[c] \in Object
    BY DEF CallType
  <2>2. CASE Kill(target[c])
    BY <2>1, <2>2, KillCounts
  <2>3. CASE ~Kill(target[c])
    <3>1. UNCHANGED deaths
      BY <1>5, <2>3 DEF Perform
    <3> QED
      BY <3>1 DEF DataType
  <2> QED
    BY <2>2, <2>3
<1>6. ASSUME NEW c \in Call, Begin(c) PROVE Removals'
  <2>1. CommandFree /\ UNCHANGED removed
        /\ (Perform(c) \/ UNCHANGED <<live, deaths>>)
    BY <1>6 DEF Begin, BeginRefused, BeginServed, BeginAsked, BeginLocked, Starts, dataVars
  <2>2. PICK to \in Phase \ {"removing"} : pc' = [pc EXCEPT ![c] = to]
    BY <1>6 DEF Begin, BeginRefused, BeginServed, BeginAsked, BeginLocked,
      OpenGateApproval, Reply, Phase
  <2> QED
    BY <2>1, <2>2, <1>4, <1>5, FreeStep
<1>7. ASSUME NEW c \in Call, Finalize(c) PROVE Removals'
  <2>1. CASE RemovalRecheck(c) /\ pc' = [pc EXCEPT ![c] = "removing"]
    <3>1. UNCHANGED <<target, live, deaths, removed>> /\ CommandFree
      BY <2>1 DEF RemovalRecheck, Consented, Finish, given
    <3>2. \A d \in Call : pc'[d] = "removing" => d = c
      BY <2>1, <3>1 DEF CommandFree, CallType
    <3>3. live[target[c]]
      <4>1. pc[c] = "answered"
        BY <2>1 DEF RemovalRecheck, Consented
      <4>2. pc'[c] # "done"
        BY <2>1 DEF CallType
      <4> QED
        BY <2>1, <4>2 DEF RemovalRecheck, Finish, Reply, CallType
    <3> QED
      BY <3>1, <3>2, <3>3 DEF Removals, NoPhantomRemoval, Spare, OneRemoving
  <2>2. CASE ~(RemovalRecheck(c) /\ pc' = [pc EXCEPT ![c] = "removing"])
    <3>1. CommandFree /\ UNCHANGED removed
          /\ (Perform(c) \/ UNCHANGED <<live, deaths>>)
      BY <1>7 DEF Finalize, FinalizeDenied, AuthzFinalize, AuthzFinalizeUnlock,
        AuthzFinalizeReopen, DisclosureFinalize, PutFinalize, RemovalRecheck,
        Consented, Finish
    <3>2. PICK to \in Phase \ {"removing"} : pc' = [pc EXCEPT ![c] = to]
      BY <1>7, <2>2 DEF Finalize, FinalizeDenied, AuthzFinalize, AuthzFinalizeUnlock,
        AuthzFinalizeReopen, DisclosureFinalize, PutFinalize, RemovalRecheck,
        Finish, Reply, OpenGateApproval, Phase
    <3> QED
      BY <3>1, <3>2, <1>4, <1>5, FreeStep
  <2> QED
    BY <2>1, <2>2
<1>8. ASSUME NEW c \in Call, Expire(c) PROVE Removals'
  BY <1>1, <1>8 DEF Expire, given, callVars, dataVars
<1>9. ASSUME NEW c \in Call, Await(c) PROVE Removals'
  <2>1. UNCHANGED <<target, live, deaths, removed>>
        /\ pc' = [pc EXCEPT ![c] = "answered"]
    BY <1>9 DEF Await, given, dataVars
  <2>2. \A d \in Call : pc'[d] = "removing" => pc[d] = "removing"
    BY <2>1 DEF CallType
  <2> QED
    BY <2>1, <2>2 DEF Removals, NoPhantomRemoval, Spare, OneRemoving
<1>10. ASSUME NEW c \in Call, Remove(c) PROVE Removals'
  <2> DEFINE o == target[c]
  <2>1. o \in Object /\ Kill(o) /\ removed' = [removed EXCEPT ![o] = removed[o] + 1]
    BY <1>10 DEF Remove, CallType
  <2>2. CommandFree'
    <3>1. pc' = [pc EXCEPT ![c] = "done"] /\ pc[c] = "removing"
      BY <1>10 DEF Remove, Reply
    <3> QED
      BY <3>1 DEF CommandFree, CallType, Removals, OneRemoving
  <2>3. NoPhantomRemoval'
    <3> SUFFICES ASSUME NEW p \in Object PROVE removed'[p] <= deaths'[p]
      BY DEF NoPhantomRemoval
    <3>0. removed[p] \in Nat /\ deaths[p] \in Nat /\ removed[p] <= deaths[p]
      BY DEF DataType, Removals, NoPhantomRemoval
    <3>1. CASE p # o
      <4>1. removed'[p] = removed[p] /\ deaths[p] <= deaths'[p]
        BY <2>1, <3>1, KillCounts DEF DataType
      <4>2. deaths'[p] = deaths[p]
        BY <2>1, <3>1, KillCounts
      <4> QED
        BY <3>0, <4>1, <4>2
    <3>2. CASE p = o
      <4>1. removed'[o] = removed[o] + 1
        BY <2>1 DEF DataType
      <4>2. deaths'[o] = deaths[o] + (IF live[o] THEN 1 ELSE 0)
        BY <2>1, KillCounts
      <4>3. ~live[o] => removed[o] < deaths[o]
        BY <1>10 DEF Remove, Removals, Spare
      <4> HIDE DEF o
      <4> QED
        BY <3>0, <3>2, <4>1, <4>2, <4>3
    <3> QED
      BY <3>1, <3>2
  <2> QED
    BY <2>2, <2>3 DEF Removals, Spare, OneRemoving, CommandFree
<1>11. CASE UNCHANGED vars
  BY <1>1, <1>11 DEF vars, given, callVars, dataVars
<1> QED
  BY <1>2, <1>3, <1>6, <1>7, <1>8, <1>9, <1>10, <1>11 DEF Next

(***************************************************************************)
(* An approved removal that reports success never shares its deletion.     *)
(***************************************************************************)
THEOREM RemovalsReal == Spec => []NoPhantomRemoval
<1>1. Init => Removals
  BY DEF Init, Removals, NoPhantomRemoval, Spare, OneRemoving
<1>2. TypeOK /\ TypeOK' /\ Removals /\ [Next]_vars => Removals'
  <2> SUFFICES ASSUME TypeOK, TypeOK', Removals, [Next]_vars PROVE Removals'
    OBVIOUS
  <2>1. CallType /\ DataType /\ DataType'
    BY DEF TypeOK, CallType, DataType, RegistryType
  <2> QED
    BY <2>1, RemovalsStep
<1>3. Removals => NoPhantomRemoval
  BY DEF Removals
<1> QED
  BY <1>1, <1>2, <1>3, TypeCorrect, PTL DEF Spec
---------------------------------------------------------------------------
\* The gates implement Consent

\* The stage of one call moves, those of the others stay.
Moves(c, from, to) ==
  /\ StageOf(c) \in from /\ StageOf(c)' = to
  /\ \A d \in Call \ {c} : StageOf(d)' = StageOf(d)

LEMMA MovesMove ==
  ASSUME NEW c \in Call, NEW from, NEW to, Moves(c, from, to)
  PROVE  C!Move(c, from, to)
  BY DEF Moves, C!Move

Still == \A c \in Call : StageOf(c)' = StageOf(c)

LEMMA StillStutters ==
  ASSUME Still PROVE UNCHANGED [c \in Call |-> StageOf(c)]
  BY DEF Still

\* A call whose variables and approval do not change stays in its stage.
LEMMA StageKept ==
  ASSUME CallType, Bookkeeping, NEW c \in Call,
         pc'[c] = pc[c], decision'[c] = decision[c], outcome'[c] = outcome[c],
         asked'[c] = asked[c],
         Current(c) \in DOMAIN registry =>
           registry'[Current(c)].verdict = registry[Current(c)].verdict
  PROVE  StageOf(c)' = StageOf(c)
<1>1. Current(c)' = Current(c)
  BY DEF Current
<1>2. CASE pc[c] = "waiting"
  BY <1>1, <1>2 DEF StageOf, Bookkeeping, InRegistry
<1>3. CASE pc[c] # "waiting"
  BY <1>3 DEF StageOf
<1> QED
  BY <1>2, <1>3

\* In the abstract specification a step is a move of one call or none at all.
AbstractStep ==
  \/ Still
  \/ \E c \in Call :
       \/ Moves(c, {"idle"}, "executed")
       \/ \E to \in {"asked", "granted"} : Moves(c, {"idle"}, to)
       \/ \E to \in {"granted", "refused"} : Moves(c, C!Open, to)
       \/ Moves(c, {"asked"}, "lapsed")
       \/ Moves(c, {"granted"}, "asked")
       \/ Moves(c, {"granted"}, "executed")
       \/ Moves(c, {"idle", "granted", "refused", "lapsed"}, "rejected")

LEMMA AbstractStepRefines ==
  ASSUME AbstractStep PROVE [C!Next]_[c \in Call |-> StageOf(c)]
<1>1. CASE Still
  BY <1>1, StillStutters
<1>2. ASSUME NEW c \in Call, Moves(c, {"idle"}, "executed") PROVE C!Next
  BY <1>2, MovesMove DEF C!Next, C!Serve
<1>3. ASSUME NEW c \in Call, NEW to \in {"asked", "granted"}, Moves(c, {"idle"}, to)
      PROVE C!Next
  BY <1>3, MovesMove DEF C!Next, C!Ask
<1>4. ASSUME NEW c \in Call, NEW to \in {"granted", "refused"}, Moves(c, C!Open, to)
      PROVE C!Next
  BY <1>4, MovesMove DEF C!Next, C!Decide
<1>5. ASSUME NEW c \in Call, Moves(c, {"asked"}, "lapsed") PROVE C!Next
  BY <1>5, MovesMove DEF C!Next, C!Lapse
<1>6. ASSUME NEW c \in Call, Moves(c, {"granted"}, "asked") PROVE C!Next
  BY <1>6, MovesMove DEF C!Next, C!AskAgain
<1>7. ASSUME NEW c \in Call, Moves(c, {"granted"}, "executed") PROVE C!Next
  BY <1>7, MovesMove DEF C!Next, C!Execute
<1>8. ASSUME NEW c \in Call,
             Moves(c, {"idle", "granted", "refused", "lapsed"}, "rejected")
      PROVE C!Next
  BY <1>8, MovesMove DEF C!Next, C!Reject
<1> QED
  BY <1>1, <1>2, <1>3, <1>4, <1>5, <1>6, <1>7, <1>8 DEF AbstractStep

LEMMA Simulation ==
  ASSUME CallType, Bookkeeping, Bookkeeping', Consents, Shape PROVE AbstractStep
<1>1. CASE Quiet
  <2>1. Still
    BY <1>1, StageKept DEF Quiet, callVars, Still
  <2> QED
    BY <2>1 DEF AbstractStep
<1>2. CASE Answered
  <2>1. PICK id \in DOMAIN registry, right \in BOOLEAN, verdict \in {"allowed", "denied"} :
          Answer(id, right, verdict)
    BY <1>2 DEF Answered
  <2>2. UNCHANGED callVars
    BY <2>1 DEF Answer
  <2>3. PICK c \in Call : id = Current(c) /\ pc[c] \in {"waiting", "answered"}
    BY DEF Bookkeeping, NothingLeftBehind
  <2>4. ASSUME NEW d \in Call \ {c} PROVE StageOf(d)' = StageOf(d)
    <3>1. Current(d) # id
      BY <2>3 DEF Current
    <3>2. Current(d) \in DOMAIN registry => registry'[Current(d)] = registry[Current(d)]
      BY <2>1, <3>1, AnswerUnlocks
    <3> QED
      BY <2>2, <3>2, StageKept DEF callVars
  <2>5. CASE pc[c] = "answered"
    <3>1. StageOf(c)' = StageOf(c)
      BY <2>2, <2>5 DEF StageOf, callVars
    <3> QED
      BY <2>4, <3>1 DEF AbstractStep, Still
  <2>6. CASE pc[c] = "waiting" /\ registry'[id].verdict = registry[id].verdict
    <3>1. StageOf(c)' = StageOf(c)
      BY <2>2, <2>3, <2>6, StageKept DEF callVars
    <3> QED
      BY <2>4, <3>1 DEF AbstractStep, Still
  <2>7. CASE pc[c] = "waiting" /\ registry'[id].verdict # registry[id].verdict
    <3>1. Current(c)' = Current(c) /\ pc' = pc
      BY <2>2 DEF callVars, Current
    <3>2. registry'[id].verdict = verdict
      BY <2>1, <2>7, AnswerUnlocks
    <3>3. registry[id].verdict \in {"none", "allowed", "denied"}
      BY DEF CallType, RegistryType, Entry
    <3>4. StageOf(c) \in C!Open
      BY <2>3, <2>7, <3>3 DEF StageOf, Meaning, C!Open
    <3>5. StageOf(c)' = Meaning(verdict)
      BY <2>3, <2>7, <3>1, <3>2 DEF StageOf, Meaning
    <3>6. Meaning(verdict) \in {"granted", "refused"}
      BY DEF Meaning
    <3> QED
      BY <2>4, <3>4, <3>5, <3>6 DEF AbstractStep, Moves
  <2> QED
    BY <2>3, <2>5, <2>6, <2>7
<1>3. ASSUME NEW c \in Call, Settled(c, "idle") \/ Settled(c, "removing") PROVE AbstractStep
  <2>1. PICK result \in Outcome \ {"none"} : Reply(c, result)
    BY <1>3 DEF Settled
  <2>2. pc[c] \in {"idle", "removing"} /\ UNCHANGED <<asked, decision, registry>>
    BY <1>3 DEF Settled
  <2>3. ASSUME NEW d \in Call \ {c} PROVE StageOf(d)' = StageOf(d)
    BY <2>1, <2>2, StageKept DEF Reply, CallType
  <2>4. StageOf(c)' = IF result = "executed" THEN "executed" ELSE "rejected"
    BY <2>1 DEF Reply, StageOf, CallType
  <2>5. StageOf(c) \in {"idle", "granted"}
    BY <2>2 DEF StageOf, Consents, Told, Meaning
  <2> QED
    BY <2>3, <2>4, <2>5 DEF AbstractStep, Moves
<1>4. ASSUME NEW c \in Call, Asked(c) \/ AskedAgain(c) PROVE AbstractStep
  <2> DEFINE id == <<c, asked[c] + 1>>
  <2>1. Opens(c)
    BY <1>4, AskedOpens
  <2>2. ASSUME NEW d \in Call \ {c} PROVE StageOf(d)' = StageOf(d)
    <3>1. Current(d) # Current(c)
      BY DEF Current
    <3>2. Current(d) \in DOMAIN registry => registry'[Current(d)] = registry[Current(d)]
      BY <2>1, <3>1 DEF Opens
    <3>3. pc'[d] = pc[d] /\ decision'[d] = decision[d] /\ outcome'[d] = outcome[d]
          /\ asked'[d] = asked[d]
      BY <2>1 DEF Opens, CallType
    <3> QED
      BY <3>2, <3>3, StageKept
  <2>3. StageOf(c)' \in {"asked", "granted"}
    <3>1. Current(c)' = id /\ registry'[id].verdict \in {"none", "allowed"}
          /\ pc'[c] = "waiting"
      BY <2>1 DEF Opens, CallType
    <3>2. StageOf(c)' = Meaning(registry'[id].verdict)
      BY <3>1 DEF StageOf, Meaning
    <3> QED
      BY <3>1, <3>2 DEF Meaning
  <2>4. CASE Asked(c)
    <3>1. StageOf(c) = "idle"
      BY <2>4 DEF Asked, StageOf
    <3> QED
      BY <2>2, <2>3, <3>1 DEF AbstractStep, Moves
  <2>5. CASE AskedAgain(c)
    <3>1. StageOf(c) = "granted"
      BY <2>5 DEF AskedAgain, Consented, StageOf, Meaning
    <3> QED
      BY <2>2, <2>3, <3>1 DEF AbstractStep, Moves, Still
  <2> QED
    BY <1>4, <2>4, <2>5
<1>5. ASSUME NEW c \in Call, Expire(c) PROVE AbstractStep
  <2>1. UNCHANGED callVars
        /\ \A id \in DOMAIN registry : registry'[id].verdict = registry[id].verdict
    BY <1>5 DEF Expire, CallType, RegistryType, Entry
  <2>2. Still
    BY <2>1, StageKept DEF callVars, Still
  <2> QED
    BY <2>2 DEF AbstractStep
<1>6. ASSUME NEW c \in Call, Await(c) PROVE AbstractStep
  <2>1. UNCHANGED <<asked, outcome, registry>> /\ pc[c] = "waiting"
        /\ pc' = [pc EXCEPT ![c] = "answered"]
        /\ decision' = [decision EXCEPT ![c] = Awaited(Current(c))]
    BY <1>6 DEF Await
  <2>2. ASSUME NEW d \in Call \ {c} PROVE StageOf(d)' = StageOf(d)
    BY <2>1, StageKept DEF CallType
  <2>3. StageOf(c)' = Meaning(Awaited(Current(c)))
    BY <2>1 DEF StageOf, CallType, Meaning
  <2>4. StageOf(c) = Meaning(registry[Current(c)].verdict)
    BY <2>1 DEF StageOf
  <2>5. Current(c) \in DOMAIN registry
    BY <2>1 DEF Bookkeeping, InRegistry
  <2>6. CASE registry[Current(c)].verdict # "none"
    <3>1. Awaited(Current(c)) = registry[Current(c)].verdict
      BY <2>5, <2>6 DEF Awaited
    <3> QED
      BY <2>2, <2>3, <2>4, <3>1 DEF AbstractStep, Still
  <2>7. CASE registry[Current(c)].verdict = "none"
    <3>1. StageOf(c) = "asked" /\ StageOf(c)' = "lapsed"
      BY <2>3, <2>4, <2>5, <2>7 DEF Awaited, Meaning
    <3> QED
      BY <2>2, <3>1 DEF AbstractStep, Moves
  <2> QED
    BY <2>6, <2>7
<1>7. ASSUME NEW c \in Call, Finished(c) PROVE AbstractStep
  <2>1. PICK result \in Outcome \ {"none"} :
          Reply(c, result) /\ (result = "executed" => decision[c] = "allowed")
    BY <1>7 DEF Finished
  <2>2. pc[c] = "answered" /\ UNCHANGED <<asked, decision>>
        /\ registry' = Without(Current(c))
    BY <1>7 DEF Finished
  <2>3. ASSUME NEW d \in Call \ {c} PROVE StageOf(d)' = StageOf(d)
    <3>1. Current(d) # Current(c)
      BY DEF Current
    <3>2. Current(d) \in DOMAIN registry => registry'[Current(d)] = registry[Current(d)]
      BY <2>2, <3>1, Taken
    <3> QED
      BY <2>1, <2>2, <3>2, StageKept DEF Reply, CallType
  <2>4. StageOf(c)' = IF result = "executed" THEN "executed" ELSE "rejected"
    BY <2>1 DEF Reply, StageOf, CallType
  <2>5. decision[c] \in {"allowed", "denied", "timeout"}
    BY <2>2 DEF Bookkeeping, Fresh, CallType
  <2>6. StageOf(c) = Meaning(decision[c])
    BY <2>2 DEF StageOf
  <2>7. CASE result = "executed"
    <3>1. StageOf(c) = "granted"
      BY <2>1, <2>6, <2>7 DEF Meaning
    <3> QED
      BY <2>3, <2>4, <2>7, <3>1 DEF AbstractStep, Moves
  <2>8. CASE result # "executed"
    <3>1. StageOf(c) \in {"granted", "refused", "lapsed"}
      BY <2>5, <2>6 DEF Meaning
    <3> QED
      BY <2>3, <2>4, <2>8, <3>1 DEF AbstractStep, Moves
  <2> QED
    BY <2>7, <2>8
<1>8. ASSUME NEW c \in Call, Rechecked(c) PROVE AbstractStep
  <2>1. pc[c] = "answered" /\ pc' = [pc EXCEPT ![c] = "removing"]
        /\ UNCHANGED <<asked, decision, outcome>> /\ registry' = Without(Current(c))
    BY <1>8 DEF Rechecked
  <2>2. StageOf(c)' = StageOf(c)
    BY <2>1 DEF StageOf, CallType
  <2>3. ASSUME NEW d \in Call \ {c} PROVE StageOf(d)' = StageOf(d)
    <3>1. Current(d) # Current(c)
      BY DEF Current
    <3>2. Current(d) \in DOMAIN registry => registry'[Current(d)] = registry[Current(d)]
      BY <2>1, <3>1, Taken
    <3> QED
      BY <2>1, <3>2, StageKept DEF CallType
  <2> QED
    BY <2>2, <2>3 DEF AbstractStep, Still
<1> QED
  BY <1>1, <1>2, <1>3, <1>4, <1>5, <1>6, <1>7, <1>8 DEF Shape

(***************************************************************************)
(* The gates implement Consent.                                            *)
(***************************************************************************)
THEOREM GatesImplementConsent == Spec => ImplementsConsent
<1>1. Init => C!Init
  BY DEF Init, C!Init, StageOf
<1>2. /\ TypeOK /\ Bookkeeping /\ Bookkeeping' /\ Consents /\ [Next]_vars
      => [C!Next]_[c \in Call |-> StageOf(c)]
  <2> SUFFICES ASSUME TypeOK, Bookkeeping, Bookkeeping', Consents, [Next]_vars
      PROVE [C!Next]_[c \in Call |-> StageOf(c)]
    OBVIOUS
  <2>1. CallType
    BY DEF TypeOK, CallType, RegistryType
  <2> QED
    BY <2>1, StepShape, Simulation, AbstractStepRefines
<1> QED
  BY <1>1, <1>2, Consenting, PTL DEF Spec, ImplementsConsent, C!Spec
=============================================================================
