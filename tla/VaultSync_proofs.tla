--------------------------- MODULE VaultSync_proofs ---------------------------
(***************************************************************************)
(* Proofs about VaultSync for any devices, rounds, objects and clocks.     *)
(***************************************************************************)
EXTENDS VaultSync, TLAPS

-----------------------------------------------------------------------------
(***************************************************************************)
(* Types of the operators a step is built from.                            *)
(***************************************************************************)

(* The missing body, entry and import have the types of their kinds. *)
LEMMA NothingType ==
  /\ NoBlob \in Blob
  /\ Absent \in Entry
  /\ NoImport \in Import
  BY DEF NoBlob, Blob, Absent, Entry, NoImport, Import

(* The state of a syncer that runs no round is a round state. *)
LEMMA NoRoundType == NoRound \in Round
  BY DEF NoRound, Round, Phase, EmptyIndex, Index, Absent, Entry, NoImport, Import,
         NoBlob, Blob

(* Letting go of the object in hand keeps a round state one. *)
LEMMA ReleasedType ==
  ASSUME NEW r \in Round
  PROVE  Released(r) \in Round
<1>1. "transfer" \in Phase BY DEF Phase
<1> QED BY <1>1, NothingType DEF Released, Round

(* So does buffering an import. *)
LEMMA BufferedType ==
  ASSUME NEW r \in Round, NEW o \in Obj, NEW i \in Import
  PROVE  Buffered(r, o, i) \in Round
<1>1. [r EXCEPT !.imports[o] = i] \in Round
  BY DEF Round
<1> QED BY <1>1, ReleasedType DEF Buffered

(* A syncer that moves to a round state leaves all of them in one. *)
LEMMA BecomeType ==
  ASSUME round \in [Syncer -> Round], NEW t \in Syncer, NEW r \in Round, Become(t, r)
  PROVE  round' \in [Syncer -> Round]
  BY DEF Become

(* The index a round writes is an index. *)
LEMMA MergedType ==
  ASSUME NEW r \in Round
  PROVE  Merged(r) \in Index
<1> DEFINE M(o) == Merged(r)[o]
<1>1. /\ r.base \in [Obj -> Entry] /\ r.snap \in [Obj -> Entry]
      /\ r.imports \in [Obj -> Import]
  BY DEF Round, Index
<1>2. ASSUME NEW o \in Obj PROVE M(o) \in Entry
  <2>1. r.base[o] \in Entry /\ r.snap[o] \in Entry /\ r.imports[o] \in Import
    BY <1>1
  <2>2. [rev |-> r.imports[o].rev, deleted |-> r.imports[o].deleted] \in Entry
    BY <2>1 DEF Import, Entry
  <2>3. Absent \in Entry
    BY DEF Absent, Entry
  <2> QED BY <2>1, <2>2, <2>3 DEF Merged, MergeIndexes
<1> QED BY <1>2 DEF Merged, MergeIndexes, Index

(* Assembling an import leaves every syncer in a round state. *)
LEMMA AssembleType ==
  ASSUME round \in [Syncer -> Round], NEW t \in Syncer, NEW r \in Round,
         NEW o \in Obj, NEW i \in Import, Assemble(t, r, o, i)
  PROVE  round' \in [Syncer -> Round]
<1>1. "fetchTomb" \in Phase BY DEF Phase
<1>2. [r EXCEPT !.pc = "fetchTomb", !.obj = {o}, !.import = i] \in Round
  BY ZenonT(60), <1>1 DEF Round
<1> QED BY <1>2, BufferedType, BecomeType DEF Assemble

(* A step that changes nothing but the rounds keeps the other types. *)
LEMMA RoundOnlyType ==
  ASSUME TypeOK, round' \in [Syncer -> Round],
         UNCHANGED <<local, remote, horizon, winner, failures>>
  PROVE  TypeOK'
  BY DEF TypeOK, local, remote

-----------------------------------------------------------------------------
(***************************************************************************)
(* Type correctness, one lemma per group of actions.                       *)
(***************************************************************************)

(* A reading of the clock gives a revision past every one seen. *)
LEMMA NextRevType ==
  ASSUME TypeOK, NEW d \in Device, NEW now \in Clock[d]
  PROVE  NextRev(d, now) \in Nat /\ NextRev(d, now) > last[d]
  BY ClockAssumption DEF NextRev, TypeOK

(* The user's commands keep the types. *)
LEMMA EditType ==
  ASSUME TypeOK, NEW d \in Device, Edit(d)
  PROVE  TypeOK'
<1>1. PICK o \in Obj, now \in Clock[d] :
        \/ \E c \in Content : \/ Create(d, o, c, now)
                              \/ UpdateItem(d, o, c, now)
                              \/ UpdateRule(d, o, c, now)
        \/ Delete(d, o, now)
  BY DEF Edit
<1> DEFINE rev == NextRev(d, now)
<1>2. rev \in Nat BY NextRevType
<1>3. ASSUME NEW b \in Blob, Store(d, o, b, rev)
      PROVE  /\ file' \in [Device -> [Obj -> Blob]]
             /\ index' \in [Device -> Index]
             /\ last' \in [Device -> Nat]
             /\ winner' \in [Obj -> Entry]
  BY <1>2, <1>3 DEF Store, Issue, TypeOK, Index, Entry
<1>4. ASSUME NEW c \in Content, Create(d, o, c, now) PROVE TypeOK'
  <2> DEFINE b == [rev |-> rev, deleted |-> FALSE, content |-> c,
                   created |-> IF o \in Rule THEN rev ELSE 0]
  <2>1. b \in Blob BY <1>2, ContentAssumption DEF Blob
  <2>2. Store(d, o, b, rev) BY <1>4 DEF Create
  <2> HIDE DEF b
  <2>3. /\ file' \in [Device -> [Obj -> Blob]]
        /\ index' \in [Device -> Index]
        /\ last' \in [Device -> Nat]
        /\ winner' \in [Obj -> Entry]
    BY <1>3, <2>1, <2>2
  <2> QED BY <1>4, <2>3 DEF Create, TypeOK, remote
<1>5. ASSUME NEW c \in Content, UpdateItem(d, o, c, now) PROVE TypeOK'
  <2> DEFINE b == [rev |-> rev, deleted |-> FALSE, content |-> c, created |-> 0]
  <2>1. b \in Blob BY <1>2, ContentAssumption DEF Blob
  <2>2. Store(d, o, b, rev) BY <1>5 DEF UpdateItem
  <2> HIDE DEF b
  <2>3. /\ file' \in [Device -> [Obj -> Blob]]
        /\ index' \in [Device -> Index]
        /\ last' \in [Device -> Nat]
        /\ winner' \in [Obj -> Entry]
    BY <1>3, <2>1, <2>2
  <2> QED BY <1>5, <2>3 DEF UpdateItem, TypeOK, remote
<1>6. ASSUME NEW c \in Content, UpdateRule(d, o, c, now) PROVE TypeOK'
  <2> DEFINE f == file[d][o]
             b == [f EXCEPT !.rev = rev, !.content = c]
  <2>a. f \in Blob BY DEF TypeOK
  <2>b. c \in Nat BY ContentAssumption
  <2>1. b \in Blob
    <3> HIDE DEF f, rev
    <3> QED BY <1>2, <2>a, <2>b DEF Blob
  <2>3. Store(d, o, b, rev) BY <1>6 DEF UpdateRule
  <2> HIDE DEF b
  <2>4. /\ file' \in [Device -> [Obj -> Blob]]
        /\ index' \in [Device -> Index]
        /\ last' \in [Device -> Nat]
        /\ winner' \in [Obj -> Entry]
    BY <1>3, <2>1, <2>3
  <2>2. tomb' \in [Device -> [Obj -> Nat]]
    BY <1>6 DEF UpdateRule, TypeOK
  <2> QED BY <1>6, <2>2, <2>4 DEF UpdateRule, TypeOK, remote
<1>7. ASSUME Delete(d, o, now) PROVE TypeOK'
  <2> HIDE DEF rev
  <2>1. file' \in [Device -> [Obj -> Blob]]
    <3> DEFINE f == file[d][o]
               b == [f EXCEPT !.rev = rev, !.deleted = TRUE]
    <3>1. f \in Blob BY DEF TypeOK
    <3>2. b \in Blob
      <4> HIDE DEF f
      <4> QED BY <1>2, <3>1 DEF Blob
    <3>3. file' = [file EXCEPT ![d] = [file[d] EXCEPT ![o] = b]] \/ file' = file
      BY <1>7 DEF Delete, rev, TypeOK
    <3> HIDE DEF b
    <3>4. file \in [Device -> [Obj -> Blob]] BY DEF TypeOK
    <3>5. [file[d] EXCEPT ![o] = b] \in [Obj -> Blob] BY <3>2, <3>4
    <3> QED BY <3>3, <3>4, <3>5
  <2>2. /\ index' \in [Device -> Index]
        /\ tomb' \in [Device -> [Obj -> Nat]]
        /\ last' \in [Device -> Nat]
        /\ winner' \in [Obj -> Entry]
    <3>1. index[d][o] \in Entry BY DEF TypeOK, Index
    <3> QED BY <1>2, <1>7, <3>1 DEF Delete, Issue, TypeOK, Index, Entry, rev
  <2> QED BY <1>7, <2>1, <2>2 DEF Delete, TypeOK, remote
<1> QED BY <1>1, <1>4, <1>5, <1>6, <1>7

(* The steps of a round up to the transfers keep the types. *)
LEMMA PlanningType ==
  ASSUME TypeOK, NEW t \in Syncer,
         \/ StartRound(t) \/ ListBody(t) \/ ListTomb(t) \/ ListDone(t) \/ Plan(t)
  PROVE  TypeOK'
<1> DEFINE r == round[t]
<1>0. r \in Round /\ round \in [Syncer -> Round] BY DEF TypeOK
<1>1. CASE StartRound(t)
  <2>1. /\ [NoRound EXCEPT !.pc = "plan", !.base = rindex, !.based = TRUE] \in Round
        /\ [NoRound EXCEPT !.pc = "list", !.listing = {o \in Obj : rfile[o].rev # 0}] \in Round
    <3>1. {"plan", "list"} \subseteq Phase BY DEF Phase
    <3>2. rindex \in Index BY DEF TypeOK
    <3> HIDE DEF NoRound
    <3> QED BY ZenonT(60), <3>1, <3>2, NoRoundType DEF Round
  <2>2. round' \in [Syncer -> Round] BY <1>0, <1>1, <2>1, BecomeType DEF StartRound
  <2> QED BY <1>1, <2>2 DEF StartRound, TypeOK, local
<1>2. CASE ListBody(t)
  <2>1. PICK o \in r.listing :
          LET q == [r EXCEPT !.listing = @ \ {o}]
              b == rfile[o]
          IN  Become(t, CASE b.rev = 0 -> q
                          [] b.rev # 0 /\ o \in Item -> [q EXCEPT !.base[o] = EntryOf(b)]
                          [] b.rev # 0 /\ o \in Rule ->
                               [q EXCEPT !.pc = "listTomb", !.obj = {o}, !.blob = b])
    BY <1>2 DEF ListBody
  <2>2. o \in Obj /\ rfile[o] \in Blob BY <1>0 DEF Round, TypeOK
  <2> DEFINE q == [r EXCEPT !.listing = @ \ {o}]
  <2>3. q \in Round BY <1>0 DEF Round
  <2>4. [q EXCEPT !.base[o] = EntryOf(rfile[o])] \in Round
    <3>1. EntryOf(rfile[o]) \in Entry BY <2>2 DEF EntryOf, Blob, Entry
    <3> QED BY <2>2, <2>3, <3>1 DEF Round, Index
  <2>5. [q EXCEPT !.pc = "listTomb", !.obj = {o}, !.blob = rfile[o]] \in Round
    BY ZenonT(60), <2>2, <2>3 DEF Round, Phase
  <2>6. rfile[o].rev = 0 \/ (rfile[o].rev # 0 /\ o \in Item) \/ (rfile[o].rev # 0 /\ o \in Rule)
    BY <2>2 DEF Obj
  <2>7. \/ Become(t, q)
        \/ Become(t, [q EXCEPT !.base[o] = EntryOf(rfile[o])])
        \/ Become(t, [q EXCEPT !.pc = "listTomb", !.obj = {o}, !.blob = rfile[o]])
    BY <2>1, <2>6
  <2> HIDE DEF q
  <2>8. round' \in [Syncer -> Round] BY <1>0, <2>3, <2>4, <2>5, <2>7, BecomeType
  <2> QED BY <1>2, <2>8, RoundOnlyType DEF ListBody
<1>3. CASE ListTomb(t)
  <2>1. PICK o \in r.obj :
          Become(t, [r EXCEPT !.pc = "list", !.obj = {}, !.blob = NoBlob,
                              !.base[o] = Rebuilt(r.blob, rtomb[o])])
    BY <1>3 DEF ListTomb
  <2>2. o \in Obj /\ r.blob \in Blob /\ rtomb[o] \in Nat BY <1>0 DEF Round, TypeOK
  <2>3. Rebuilt(r.blob, rtomb[o]) \in Entry BY <2>2 DEF Rebuilt, Blob, Entry
  <2>4. [r EXCEPT !.pc = "list", !.obj = {}, !.blob = NoBlob,
                  !.base[o] = Rebuilt(r.blob, rtomb[o])] \in Round
    BY ZenonT(60), <1>0, <2>2, <2>3, NothingType DEF Round, Phase, Index
  <2>5. round' \in [Syncer -> Round] BY <1>0, <2>1, <2>4, BecomeType
  <2> QED BY <1>3, <2>5, RoundOnlyType DEF ListTomb
<1>4. CASE ListDone(t)
  <2>1. [r EXCEPT !.pc = "plan"] \in Round BY ZenonT(60), <1>0 DEF Round, Phase
  <2>2. round' \in [Syncer -> Round] BY <1>0, <1>4, <2>1, BecomeType DEF ListDone
  <2> QED BY <1>4, <2>2, RoundOnlyType DEF ListDone
<1>5. CASE Plan(t)
  <2> DEFINE snap == index[Home[t]]
             q == [r EXCEPT
                    !.pc = "transfer", !.snap = snap,
                    !.pulls  = {o \in DiffPull(snap, r.base) : r.pulled[o] # r.base[o].rev},
                    !.pushes = DiffPush(snap, r.base),
                    !.skipped = {}, !.skippedPush = {}, !.pushed = {}, !.purged = {}]
  <2>1. snap \in Index BY HomeAssumption DEF TypeOK
  <2>2. q \in Round BY ZenonT(60), <1>0, <2>1 DEF Round, Phase, DiffPull, DiffPush
  <2>3. Become(t, q) BY <1>5 DEF Plan
  <2> HIDE DEF q
  <2>4. round' \in [Syncer -> Round] BY <1>0, <2>2, <2>3, BecomeType
  <2> QED BY <1>5, <2>4, RoundOnlyType DEF Plan
<1> QED BY <1>1, <1>2, <1>3, <1>4, <1>5

(* The steps that pull keep the types. *)
LEMMA PullingType ==
  ASSUME TypeOK, NEW t \in Syncer, Pull(t) \/ FetchTomb(t)
  PROVE  TypeOK'
<1> DEFINE r == round[t]
<1>0. r \in Round /\ round \in [Syncer -> Round] BY DEF TypeOK
<1>1. CASE Pull(t)
  <2>1. PICK o \in r.pulls :
          LET b == rfile[o]
              e == r.base[o]
              q == [r EXCEPT !.pulls = @ \ {o}]
              i == [rev |-> e.rev, blob |-> b, tomb |-> 0,
                    deleted |-> IF o \in Item THEN b.deleted ELSE e.deleted]
          IN  CASE b.rev = 0 -> Become(t, [q EXCEPT !.skipped = @ \cup {o}])
                [] b.rev # 0 /\ ~RemoteWins(Home[t], o, i) -> Become(t, q)
                [] b.rev # 0 /\ RemoteWins(Home[t], o, i) ->
                     Assemble(t, [q EXCEPT !.pulled[o] = e.rev], o, i)
    BY <1>1 DEF Pull
  <2> DEFINE b == rfile[o]
             e == r.base[o]
             q == [r EXCEPT !.pulls = @ \ {o}]
             i == [rev |-> e.rev, blob |-> b, tomb |-> 0,
                   deleted |-> IF o \in Item THEN b.deleted ELSE e.deleted]
  <2>2. o \in Obj /\ b \in Blob /\ e \in Entry BY <1>0 DEF Round, TypeOK, Index
  <2>3. /\ b.deleted \in BOOLEAN /\ e.deleted \in BOOLEAN
        /\ e.rev \in Nat
    BY <2>2 DEF Blob, Entry
  <2>4. i \in Import BY <2>2, <2>3 DEF Import
  <2>5. q \in Round BY <1>0 DEF Round
  <2>6. [q EXCEPT !.skipped = @ \cup {o}] \in Round BY ZenonT(60), <2>2, <2>5 DEF Round
  <2>7. [q EXCEPT !.pulled[o] = e.rev] \in Round BY <2>2, <2>3, <2>5 DEF Round
  <2>8. \/ Become(t, [q EXCEPT !.skipped = @ \cup {o}])
        \/ Become(t, q)
        \/ Assemble(t, [q EXCEPT !.pulled[o] = e.rev], o, i)
    BY <2>1
  <2> HIDE DEF i, q
  <2>9. round' \in [Syncer -> Round]
    BY <1>0, <2>2, <2>4, <2>5, <2>6, <2>7, <2>8, BecomeType, AssembleType
  <2> QED BY <1>1, <2>9, RoundOnlyType DEF Pull
<1>2. CASE FetchTomb(t)
  <2>1. PICK o \in r.obj :
          LET i    == r.import
              made == IF o \in Item THEN i.blob.rev ELSE i.rev
          IN  Become(t, Buffered(r, o, [i EXCEPT !.tomb = IF rtomb[o] # 0 THEN rtomb[o] ELSE made]))
    BY <1>2 DEF FetchTomb
  <2> DEFINE i == r.import
             tomb_ == IF rtomb[o] # 0 THEN rtomb[o]
                      ELSE IF o \in Item THEN i.blob.rev ELSE i.rev
             j == [i EXCEPT !.tomb = tomb_]
  <2>2. o \in Obj /\ i \in Import /\ rtomb[o] \in Nat BY <1>0 DEF Round, TypeOK
  <2>3. i.blob.rev \in Nat /\ i.rev \in Nat BY <2>2 DEF Import, Blob
  <2>4. j \in Import
    <3>1. tomb_ \in Nat BY <2>2, <2>3
    <3> HIDE DEF tomb_, i
    <3> QED BY <2>2, <3>1 DEF Import
  <2>5. Become(t, Buffered(r, o, j)) BY <2>1
  <2> HIDE DEF j, r
  <2>6. round' \in [Syncer -> Round] BY <1>0, <2>2, <2>4, <2>5, BufferedType, BecomeType
  <2> QED BY <1>2, <2>6, RoundOnlyType DEF FetchTomb
<1> QED BY <1>1, <1>2

(* The steps that upload keep the types. *)
LEMMA PushingType ==
  ASSUME TypeOK, NEW t \in Syncer,
         \/ BeginPush(t) \/ Put(t) \/ Resolve(t) \/ Arbitrate(t) \/ Refresh(t) \/ PushTomb(t)
  PROVE  TypeOK'
<1> DEFINE r == round[t]
<1>0. r \in Round /\ round \in [Syncer -> Round] BY DEF TypeOK
<1>a. {"put", "pushTomb", "resolve", "refresh", "arbitrate"} \subseteq Phase BY DEF Phase
<1>1. CASE BeginPush(t)
  <2> DEFINE d == Home[t]
             q(o) == [r EXCEPT !.pushes = @ \ {o}]
  <2>1. PICK o \in r.pushes :
          \/ Become(t, [q(o) EXCEPT !.skippedPush = @ \cup {o}])
          \/ Become(t, [q(o) EXCEPT !.pc = "put", !.obj = {o},
                                    !.blob = file[d][o], !.expected = rfile[o]])
    BY <1>1 DEF BeginPush
  <2>2. o \in Obj BY <1>0 DEF Round
  <2>3. file[d][o] \in Blob /\ rfile[o] \in Blob BY <2>2, HomeAssumption DEF TypeOK
  <2>4. q(o) \in Round BY <1>0 DEF Round
  <2>5. [q(o) EXCEPT !.skippedPush = @ \cup {o}] \in Round BY ZenonT(60), <2>2, <2>4 DEF Round
  <2>6. [q(o) EXCEPT !.pc = "put", !.obj = {o},
                     !.blob = file[d][o], !.expected = rfile[o]] \in Round
    <3> HIDE DEF q, d
    <3> QED BY <1>a, <2>2, <2>3, <2>4 DEF Round
  <2> HIDE DEF q
  <2>7. round' \in [Syncer -> Round] BY <1>0, <2>1, <2>5, <2>6, BecomeType
  <2> QED BY <1>1, <2>7, RoundOnlyType DEF BeginPush
<1>2. CASE Put(t)
  <2>1. PICK o \in r.obj :
          IF rfile[o] = r.expected
            THEN /\ rfile' = [rfile EXCEPT ![o] = r.blob]
                 /\ \/ Become(t, [r EXCEPT !.pc = "pushTomb"])
                    \/ Become(t, Released([r EXCEPT !.pushed = @ \cup {o}]))
            ELSE /\ Become(t, [r EXCEPT !.pc = "resolve", !.tries = @ + 1])
                 /\ UNCHANGED rfile
    BY <1>2 DEF Put
  <2>2. o \in Obj /\ r.blob \in Blob BY <1>0 DEF Round
  <2>3. [r EXCEPT !.pushed = @ \cup {o}] \in Round BY ZenonT(60), <1>0, <2>2 DEF Round
  <2>4. /\ [r EXCEPT !.pc = "pushTomb"] \in Round
        /\ [r EXCEPT !.pc = "resolve", !.tries = @ + 1] \in Round
    <3> HIDE DEF r
    <3>1. r.tries + 1 \in Nat BY <1>0 DEF Round
    <3>2. [r EXCEPT !.pc = "pushTomb"] \in Round BY ZenonT(60), <1>0, <1>a DEF Round
    <3>3. [r EXCEPT !.pc = "resolve", !.tries = @ + 1] \in Round
      BY <1>0, <1>a, <3>1 DEF Round
    <3> QED BY <3>2, <3>3
  <2>5. Released([r EXCEPT !.pushed = @ \cup {o}]) \in Round BY <2>3, ReleasedType
  <2>6. round' \in [Syncer -> Round] BY <1>0, <2>1, <2>4, <2>5, BecomeType
  <2>7. rfile' \in [Obj -> Blob] BY <2>1, <2>2 DEF TypeOK
  <2> QED BY <1>2, <2>6, <2>7 DEF Put, TypeOK, local
<1>3. ASSUME Retry(t)
      PROVE  round' \in [Syncer -> Round] /\ fresh' \in SUBSET Syncer
  <2>1. [r EXCEPT !.pc = "refresh", !.import = NoImport] \in Round
    BY <1>0, <1>a, NothingType DEF Round
  <2>2. round' \in [Syncer -> Round] BY <1>0, <1>3, <2>1, NoRoundType, BecomeType DEF Retry
  <2> QED BY <1>3, <2>2 DEF Retry, TypeOK
<1>4. CASE Resolve(t)
  <2>1. PICK o \in r.obj :
          LET b == rfile[o]
          IN  CASE b.rev = 0 ->
                     Become(t, [r EXCEPT !.pc = "put", !.expected = NoBlob]) /\ UNCHANGED fresh
                [] b.rev # 0 /\ o \in Rule ->
                     Become(t, [r EXCEPT !.pc = "arbitrate", !.import.blob = b]) /\ UNCHANGED fresh
                [] b.rev # 0 /\ o \in Item /\ Beats(b, r.blob) ->
                     /\ Assemble(t, r, o, [rev |-> b.rev, deleted |-> b.deleted,
                                           blob |-> b, tomb |-> 0])
                     /\ UNCHANGED fresh
                [] b.rev # 0 /\ o \in Item /\ ~Beats(b, r.blob) -> Retry(t)
    BY <1>4 DEF Resolve
  <2> DEFINE b == rfile[o]
             i == [rev |-> b.rev, deleted |-> b.deleted, blob |-> b, tomb |-> 0]
             arb == [r EXCEPT !.pc = "arbitrate", !.import.blob = b]
  <2>2. o \in Obj /\ b \in Blob BY <1>0 DEF Round, TypeOK
  <2>3. [r EXCEPT !.pc = "put", !.expected = NoBlob] \in Round
    BY <1>0, <1>a, NothingType DEF Round
  <2>4. arb \in Round
    <3>1. [r.import EXCEPT !.blob = b] \in Import BY <1>0, <2>2 DEF Round, Import
    <3> QED BY <1>0, <1>a, <3>1 DEF Round
  <2>5. i \in Import BY <2>2 DEF Import, Blob
  <2>6. \/ Become(t, [r EXCEPT !.pc = "put", !.expected = NoBlob]) /\ UNCHANGED fresh
        \/ Become(t, arb) /\ UNCHANGED fresh
        \/ Assemble(t, r, o, i) /\ UNCHANGED fresh
        \/ Retry(t)
    BY <2>1, <2>2 DEF Obj
  <2> HIDE DEF i, arb
  <2>7. round' \in [Syncer -> Round] /\ fresh' \in SUBSET Syncer
    <3>1. CASE Retry(t) BY <3>1, <1>3
    <3>2. CASE UNCHANGED fresh /\ ~Retry(t)
      <4>1. fresh' \in SUBSET Syncer BY <3>2 DEF TypeOK
      <4> HIDE DEF r
      <4> QED BY <1>0, <2>2, <2>3, <2>4, <2>5, <2>6, <3>2, <4>1, BecomeType, AssembleType
    <3> QED BY <2>6, <3>1, <3>2
  <2> QED BY <1>4, <2>7 DEF Resolve, TypeOK, local
<1>5. CASE Arbitrate(t)
  <2> DEFINE e(o) == IF published THEN rindex[o] ELSE Absent
             i(o) == [rev |-> e(o).rev, deleted |-> e(o).deleted,
                      blob |-> r.import.blob, tomb |-> 0]
  <2>1. PICK o \in r.obj : Retry(t) \/ (Assemble(t, r, o, i(o)) /\ UNCHANGED fresh)
    BY <1>5 DEF Arbitrate
  <2>2. o \in Obj BY <1>0 DEF Round
  <2>3. e(o) \in Entry BY <2>2, NothingType DEF TypeOK, Index
  <2>4. r.import.blob \in Blob BY <1>0 DEF Round, Import
  <2>5. i(o) \in Import
    <3> HIDE DEF e, r
    <3> QED BY <2>3, <2>4 DEF Entry, Import
  <2> HIDE DEF i
  <2>6. round' \in [Syncer -> Round] /\ fresh' \in SUBSET Syncer
    <3>1. CASE Retry(t) BY <3>1, <1>3
    <3>2. CASE Assemble(t, r, o, i(o)) /\ UNCHANGED fresh
      BY <1>0, <2>2, <2>5, <3>2, AssembleType DEF TypeOK
    <3> QED BY <2>1, <3>1, <3>2
  <2> QED BY <1>5, <2>6 DEF Arbitrate, TypeOK, local
<1>6. CASE Refresh(t)
  <2>1. PICK o \in r.obj : Become(t, [r EXCEPT !.pc = "put", !.expected = rfile[o]])
    BY <1>6 DEF Refresh
  <2>2. rfile[o] \in Blob BY <1>0 DEF Round, TypeOK
  <2>3. [r EXCEPT !.pc = "put", !.expected = rfile[o]] \in Round BY <1>0, <1>a, <2>2 DEF Round
  <2>4. round' \in [Syncer -> Round] BY <1>0, <2>1, <2>3, BecomeType
  <2> QED BY <1>6, <2>4, RoundOnlyType DEF Refresh
<1>7. CASE PushTomb(t)
  <2>1. PICK o \in r.obj :
          /\ rtomb' = [rtomb EXCEPT ![o] = CASE ~PushesDeleted(r, o) -> 0
                                  [] PushesDeleted(r, o) /\ tomb[Home[t]][o] # 0 -> tomb[Home[t]][o]
                                  [] OTHER -> @]
          /\ Become(t, Released([r EXCEPT !.pushed = @ \cup {o}]))
    BY <1>7 DEF PushTomb
  <2>2. o \in Obj BY <1>0 DEF Round
  <2>3. [r EXCEPT !.pushed = @ \cup {o}] \in Round BY ZenonT(60), <1>0, <2>2 DEF Round
  <2>4. round' \in [Syncer -> Round] BY <1>0, <2>1, <2>3, ReleasedType, BecomeType
  <2>5. rtomb' \in [Obj -> Nat]
    <3>1. tomb[Home[t]][o] \in Nat /\ rtomb[o] \in Nat /\ rtomb \in [Obj -> Nat]
      BY <2>2, HomeAssumption DEF TypeOK
    <3> HIDE DEF r
    <3> QED BY <2>1, <3>1
  <2> QED BY <1>7, <2>4, <2>5 DEF PushTomb, TypeOK, local
<1> QED BY <1>1, <1>2, <1>4, <1>5, <1>6, <1>7

(* The steps that purge and write the index keep the types. *)
LEMMA PurgingType ==
  ASSUME TypeOK, NEW t \in Syncer,
         \/ BeginPurge(t) \/ PurgeBody(t) \/ PurgeTomb(t) \/ PutIndex(t) \/ Reget(t)
  PROVE  TypeOK'
<1> DEFINE r == round[t]
<1>0. r \in Round /\ round \in [Syncer -> Round] BY DEF TypeOK
<1>a. {"purge", "purgeTomb", "apply", "reget", "plan"} \subseteq Phase BY DEF Phase
<1>1. CASE BeginPurge(t)
  <2> DEFINE d    == Home[t]
             gone == Vanished(d, r.base) \ r.pushed
             olds == {<<o, tomb[d][o]>> : o \in Confirmed(d, r.base)}
             news == {<<o, tomb[d][o]>> : o \in gone}
             q == [r EXCEPT !.pc = "purge", !.purges = olds, !.purged = gone,
                            !.condemned = @ \cup news]
  <2>1. Become(t, q) BY <1>1 DEF BeginPurge
  <2>2. \A o \in Obj : tomb[d][o] \in Nat BY HomeAssumption DEF TypeOK
  <2>3. Confirmed(d, r.base) \subseteq Obj /\ gone \subseteq Obj BY DEF Confirmed, Vanished
  <2>4. olds \in SUBSET (Obj \X Nat) /\ news \in SUBSET (Obj \X Nat) BY <2>2, <2>3
  <2>5. q \in Round
    <3> HIDE DEF r, olds, news, gone
    <3> QED BY <1>0, <1>a, <2>3, <2>4 DEF Round
  <2> HIDE DEF q
  <2>6. round' \in [Syncer -> Round] BY <1>0, <2>1, <2>5, BecomeType
  <2> QED BY <1>1, <2>6, RoundOnlyType DEF BeginPurge
<1>2. CASE PurgeBody(t)
  <2>1. PICK p \in r.purges :
          /\ rfile' = [rfile EXCEPT ![p[1]] = NoBlob]
          /\ Become(t, [r EXCEPT !.pc = "purgeTomb", !.obj = {p[1]}])
    BY <1>2 DEF PurgeBody
  <2>2. p[1] \in Obj BY <1>0 DEF Round
  <2>3. [r EXCEPT !.pc = "purgeTomb", !.obj = {p[1]}] \in Round
    BY ZenonT(60), <1>0, <1>a, <2>2 DEF Round
  <2>4. round' \in [Syncer -> Round] BY <1>0, <2>1, <2>3, BecomeType
  <2>5. rfile' \in [Obj -> Blob] BY <2>1, <2>2, NothingType DEF TypeOK
  <2> QED BY <1>2, <2>4, <2>5 DEF PurgeBody, TypeOK, local
<1>3. CASE PurgeTomb(t)
  <2> DEFINE mine(o) == {p \in r.purges : p[1] = o}
             q(o) == [r EXCEPT !.pc = "purge", !.obj = {}, !.purges = @ \ mine(o),
                               !.purged = @ \cup {o}, !.condemned = @ \cup mine(o)]
  <2>1. PICK o \in r.obj : rtomb' = [rtomb EXCEPT ![o] = 0] /\ Become(t, q(o))
    BY <1>3 DEF PurgeTomb
  <2>2. o \in Obj BY <1>0 DEF Round
  <2>3. q(o) \in Round
    <3>1. r.purges \in SUBSET (Obj \X Nat) BY <1>0 DEF Round
    <3>2. mine(o) \in SUBSET (Obj \X Nat) BY <3>1
    <3>3. r.purges \ mine(o) \in SUBSET (Obj \X Nat) BY <3>1
    <3> HIDE DEF r, mine
    <3> QED BY ZenonT(60), <1>0, <1>a, <2>2, <3>2, <3>3 DEF Round
  <2> HIDE DEF q
  <2>4. round' \in [Syncer -> Round] BY <1>0, <2>1, <2>3, BecomeType
  <2>5. rtomb' \in [Obj -> Nat] BY <2>1, <2>2 DEF TypeOK
  <2> QED BY <1>3, <2>4, <2>5 DEF PurgeTomb, TypeOK, local
<1>4. CASE PutIndex(t)
  <2>1. /\ [r EXCEPT !.pc = "apply"] \in Round
        /\ [r EXCEPT !.pc = "reget"] \in Round
    BY ZenonT(60), <1>0, <1>a DEF Round
  <2>2. round' \in [Syncer -> Round] BY <1>0, <1>4, <2>1, BecomeType DEF PutIndex
  <2>3. rindex' \in Index /\ published' \in BOOLEAN /\ fresh' \in SUBSET Syncer
    BY <1>0, <1>4, MergedType DEF PutIndex, TypeOK
  <2> QED BY <1>4, <2>2, <2>3 DEF PutIndex, TypeOK, local
<1>5. CASE Reget(t)
  <2> DEFINE base == IF published THEN rindex ELSE EmptyIndex
             q == [r EXCEPT !.pc = "plan", !.attempt = @ + 1, !.base = base, !.based = published]
  <2>1. base \in Index BY NothingType DEF TypeOK, EmptyIndex, Index
  <2>2. r.attempt + 1 \in Nat /\ published \in BOOLEAN BY <1>0 DEF Round, TypeOK
  <2>3. q \in Round /\ [r EXCEPT !.pc = "apply"] \in Round
    <3> HIDE DEF r, base
    <3> QED BY ZenonT(60), <1>0, <1>a, <2>1, <2>2 DEF Round
  <2>4. Become(t, q) \/ Become(t, [r EXCEPT !.pc = "apply"]) BY <1>5 DEF Reget
  <2> HIDE DEF q
  <2>5. round' \in [Syncer -> Round] BY <1>0, <2>3, <2>4, BecomeType
  <2>6. fresh' \in SUBSET Syncer BY <1>5 DEF Reget, TypeOK
  <2> QED BY <1>5, <2>5, <2>6 DEF Reget, TypeOK, local
<1> QED BY <1>1, <1>2, <1>3, <1>4, <1>5

(* The apply phase keeps the types. *)
LEMMA ApplyType ==
  ASSUME TypeOK, NEW t \in Syncer, Apply(t)
  PROVE  TypeOK'
<1> DEFINE d    == Home[t]
           imp  == round[t].imports
           wins == {o \in Obj : imp[o].rev # 0 /\ RemoteWins(d, o, imp[o])}
           newFile  == [o \in Obj |-> IF o \in wins THEN imp[o].blob ELSE file[d][o]]
           newIndex == [o \in Obj |-> IF o \in wins THEN ImportedEntry(o, imp[o])
                                                    ELSE index[d][o]]
           newTomb  == [o \in Obj |-> IF o \in wins /\ imp[o].tomb # 0
                                        THEN imp[o].tomb ELSE tomb[d][o]]
           revs == {last[d]} \cup {newIndex[o].rev : o \in wins}
<1>1. d \in Device BY HomeAssumption
<1>2. ASSUME NEW o \in Obj
      PROVE  /\ imp[o].rev \in Nat /\ imp[o].deleted \in BOOLEAN
             /\ imp[o].blob \in Blob /\ imp[o].tomb \in Nat
             /\ ImportedEntry(o, imp[o]) \in Entry
  <2>1. imp \in [Obj -> Import] BY DEF TypeOK, Round
  <2>2. imp[o] \in Import BY <2>1
  <2> HIDE DEF imp
  <2>3. imp[o].rev \in Nat /\ imp[o].deleted \in BOOLEAN /\ imp[o].blob \in Blob
        /\ imp[o].tomb \in Nat
    BY <2>2 DEF Import
  <2> QED BY <2>3 DEF ImportedEntry, EntryOf, Entry, Blob
<1>3. newFile \in [Obj -> Blob] /\ newIndex \in [Obj -> Entry] /\ newTomb \in [Obj -> Nat]
  <2>1. file[d] \in [Obj -> Blob] /\ index[d] \in [Obj -> Entry] /\ tomb[d] \in [Obj -> Nat]
    BY <1>1 DEF TypeOK, Index
  <2> HIDE DEF d, imp, wins
  <2> QED BY <1>2, <2>1
<1>4. PICK dead \in SUBSET Obj :
        /\ file'  = [file EXCEPT ![d] = [o \in Obj |-> IF o \in dead THEN NoBlob ELSE newFile[o]]]
        /\ index' = [index EXCEPT ![d] = [o \in Obj |-> IF o \in dead THEN Absent ELSE newIndex[o]]]
        /\ tomb'  = [tomb EXCEPT ![d] = [o \in Obj |-> IF o \in dead THEN 0 ELSE newTomb[o]]]
        /\ \E m \in revs : last' = [last EXCEPT ![d] = m]
  <2> DEFINE D == {o \in Obj : \E p \in round[t].condemned :
                    p[1] = o /\ StillDead(o, p[2], newFile[o], newIndex[o], newTomb[o])}
  <2> WITNESS D \in SUBSET Obj
  <2> QED BY DEF Apply
<1>5. revs \subseteq Nat
  <2>1. \A o \in Obj : newIndex[o].rev \in Nat
    <3> HIDE DEF newIndex
    <3> QED BY <1>3 DEF Entry
  <2>2. last[d] \in Nat BY <1>1 DEF TypeOK
  <2> QED BY <2>1, <2>2
<1>6. /\ file' \in [Device -> [Obj -> Blob]]
      /\ index' \in [Device -> Index]
      /\ tomb' \in [Device -> [Obj -> Nat]]
      /\ last' \in [Device -> Nat]
  <2> HIDE DEF newFile, newIndex, newTomb, revs, d
  <2> QED BY <1>1, <1>3, <1>4, <1>5, NothingType DEF TypeOK, Index
<1>7. round' \in [Syncer -> Round] BY NoRoundType, BecomeType DEF Apply, TypeOK
<1>8. fresh' \in SUBSET Syncer BY DEF Apply, TypeOK
<1> QED BY <1>6, <1>7, <1>8 DEF Apply, TypeOK

(* What goes wrong around the rounds keeps the types. *)
LEMMA FailureType ==
  ASSUME TypeOK,
         \/ \E t \in Syncer : Abandon(t)
         \/ \E d \in Device : Restart(d)
         \/ LoseIndex
         \/ \E h \in 1..MaxRev : GraceElapses(h)
  PROVE  TypeOK'
<1>1. ASSUME NEW t \in Syncer, Abandon(t) PROVE TypeOK'
  <2>1. round' \in [Syncer -> Round] BY <1>1, NoRoundType, BecomeType DEF Abandon, TypeOK
  <2> QED BY <1>1, <2>1 DEF Abandon, TypeOK, local
<1>2. ASSUME NEW d \in Device, Restart(d) PROVE TypeOK'
  <2> DEFINE known == {index[d][o].rev : o \in Obj} \ {0}
             revs  == IF known # {} THEN known ELSE {tomb[d][o] : o \in Obj} \cup {0}
  <2>1. revs \subseteq Nat
    <3>1. index[d] \in [Obj -> Entry] /\ tomb[d] \in [Obj -> Nat] BY DEF TypeOK, Index
    <3> QED BY <3>1 DEF Entry
  <2>2. \E m \in revs : last' = [last EXCEPT ![d] = m] BY <1>2 DEF Restart
  <2> HIDE DEF revs
  <2>3. last' \in [Device -> Nat] BY <2>1, <2>2 DEF TypeOK
  <2>4. round' \in [Syncer -> Round] BY <1>2, NoRoundType DEF Restart, TypeOK
  <2>5. fresh' \in SUBSET Syncer /\ failures' \in Nat BY <1>2 DEF Restart, TypeOK
  <2> QED BY <1>2, <2>3, <2>4, <2>5 DEF Restart, TypeOK
<1>3. CASE LoseIndex
  <2>1. EmptyIndex \in Index BY NothingType DEF EmptyIndex, Index
  <2>2. rindex' \in Index /\ fresh' \in SUBSET Syncer /\ failures' \in Nat
    BY <1>3, <2>1 DEF LoseIndex, TypeOK
  <2>3. published' \in BOOLEAN BY <1>3 DEF LoseIndex
  <2>4. UNCHANGED <<file, index, tomb, last, rfile, rtomb, round, horizon, winner>>
    BY <1>3 DEF LoseIndex, local
  <2> QED BY <2>2, <2>3, <2>4 DEF TypeOK
<1>4. ASSUME NEW h \in 1..MaxRev, GraceElapses(h) PROVE TypeOK'
  BY <1>4, BoundAssumption DEF GraceElapses, TypeOK, local, remote
<1> QED BY <1>1, <1>2, <1>3, <1>4

(* Every step keeps the types. *)
LEMMA TypeStep ==
  ASSUME TypeOK, [Next]_vars
  PROVE  TypeOK'
<1>1. ASSUME NEW t \in Syncer, Advance(t) PROVE TypeOK'
  BY <1>1, PlanningType, PullingType, PushingType, PurgingType, ApplyType DEF Advance
<1>2. ASSUME NEW t \in Syncer, StartRound(t) PROVE TypeOK'
  BY <1>2, PlanningType
<1>3. CASE UNCHANGED vars
  BY <1>3 DEF vars, local, remote, TypeOK
<1> QED BY <1>1, <1>2, <1>3, EditType, FailureType DEF Next

(***************************************************************************)
(* TypeOK is an invariant: whatever the store, the other devices and the   *)
(* clocks do, each round keeps its bookkeeping well-formed.                *)
(***************************************************************************)
THEOREM TypeCorrect == Spec => []TypeOK
<1>1. Init => TypeOK
  <2> SUFFICES ASSUME Init PROVE TypeOK OBVIOUS
  <2>1. \A o \in Obj : SeedBlob(o) \in Blob /\ SeedEntry(o) \in Entry
    BY NothingType DEF SeedBlob, SeedEntry, Blob, Entry
  <2>2. /\ file \in [Device -> [Obj -> Blob]]
        /\ index \in [Device -> Index]
        /\ tomb \in [Device -> [Obj -> Nat]]
        /\ last \in [Device -> Nat]
    BY <2>1 DEF Init, Index
  <2>3. /\ rfile \in [Obj -> Blob] /\ rtomb \in [Obj -> Nat] /\ rindex \in Index
        /\ published \in BOOLEAN
    BY <2>1 DEF Init, Index
  <2>4. /\ round \in [Syncer -> Round] /\ winner \in [Obj -> Entry]
    BY <2>1, NoRoundType DEF Init
  <2> QED BY <2>2, <2>3, <2>4 DEF Init, TypeOK
<1>2. TypeOK /\ [Next]_vars => TypeOK' BY TypeStep
<1> QED BY <1>1, <1>2, PTL DEF Spec

-----------------------------------------------------------------------------
(***************************************************************************)
(* The local vault.  VaultConsistent is inductive next to TypeOK, and with *)
(* it every step that touches a device keeps or improves what it holds.    *)
(***************************************************************************)

(* A step of the device of d keeps its bookkeeping and never goes back. *)
LocalProgress ==
  \A d \in Device, o \in Obj :
    IF o \in Item
      THEN file'[d][o] \in {file[d][o], NoBlob} \/ Beats(file'[d][o], file[d][o])
      ELSE index'[d][o] \in {index[d][o], Absent} \/ index'[d][o].rev > index[d][o].rev

(* Storing a version under a revision past the last one keeps both facts. *)
LEMMA StoreProgress ==
  ASSUME TypeOK, VaultConsistent, NEW d \in Device, NEW o \in Obj, NEW b \in Blob,
         NEW e \in Entry, e.rev > last[d], o \in Item => e = EntryOf(b),
         file'  = [file EXCEPT ![d][o] = b] \/ (o \notin Item /\ file' = file),
         index' = [index EXCEPT ![d][o] = e],
         last'  = [last EXCEPT ![d] = e.rev]
  PROVE  VaultConsistent' /\ LocalProgress
<1>1. /\ file \in [Device -> [Obj -> Blob]] /\ index \in [Device -> [Obj -> Entry]]
      /\ last \in [Device -> Nat]
  BY DEF TypeOK, Index
<1>2. \A c \in Device, p \in Obj :
        /\ index[c][p] \in Entry /\ index[c][p].rev \in Nat /\ file[c][p].rev \in Nat
        /\ index[c][p].rev <= last[c]
        /\ last[c] \in Nat
  BY <1>1 DEF VaultConsistent, LastBoundsIndex, Entry, Blob
<1>3. \A c \in Device, p \in Obj :
        /\ index'[c][p] = IF c = d /\ p = o THEN e ELSE index[c][p]
        /\ last'[c] = IF c = d THEN e.rev ELSE last[c]
        /\ p \in Item => file'[c][p] = IF c = d /\ p = o THEN b ELSE file[c][p]
  BY <1>1 DEF Obj
<1>4. e.rev \in Nat BY DEF Entry
<1>5. ItemsIndexedAsSealed'
  BY <1>3 DEF VaultConsistent, ItemsIndexedAsSealed, Obj, EntryOf
<1>6. LastBoundsIndex'
  <2> SUFFICES ASSUME NEW c \in Device, NEW p \in Obj PROVE index'[c][p].rev <= last'[c]
    BY DEF LastBoundsIndex
  <2>1. CASE c = d /\ p = o BY <1>3, <1>4, <2>1
  <2>2. CASE c = d /\ p # o BY <1>2, <1>3, <1>4, <2>2
  <2>3. CASE c # d BY <1>2, <1>3, <2>3
  <2> QED BY <2>1, <2>2, <2>3
<1>7. LocalProgress
  <2> SUFFICES ASSUME NEW c \in Device, NEW p \in Obj
      PROVE  IF p \in Item
               THEN file'[c][p] \in {file[c][p], NoBlob} \/ Beats(file'[c][p], file[c][p])
               ELSE \/ index'[c][p] \in {index[c][p], Absent}
                    \/ index'[c][p].rev > index[c][p].rev
    BY DEF LocalProgress
  <2>1. CASE ~(c = d /\ p = o) BY <1>3, <2>1
  <2>2. CASE c = d /\ p = o /\ p \in Item
    <3>1. b.rev = e.rev BY <2>2 DEF EntryOf
    <3>2. index[c][p] = EntryOf(file[c][p])
      BY <2>2 DEF VaultConsistent, ItemsIndexedAsSealed
    <3>3. file[c][p].rev = index[c][p].rev
      BY <3>2 DEF EntryOf
    <3>4. b.rev > file[c][p].rev BY <1>2, <1>4, <2>2, <3>1, <3>3
    <3> QED BY <1>3, <2>2, <3>4 DEF Beats
  <2>3. CASE c = d /\ p = o /\ p \notin Item
    BY <1>2, <1>3, <1>4, <2>3
  <2> QED BY <2>1, <2>2, <2>3
<1> QED BY <1>5, <1>6, <1>7 DEF VaultConsistent

(* So do the user's commands. *)
LEMMA EditProgress ==
  ASSUME TypeOK, VaultConsistent, NEW d \in Device, Edit(d)
  PROVE  VaultConsistent' /\ LocalProgress
<1>1. PICK o \in Obj, now \in Clock[d] :
        \/ \E c \in Content : \/ Create(d, o, c, now)
                              \/ UpdateItem(d, o, c, now)
                              \/ UpdateRule(d, o, c, now)
        \/ Delete(d, o, now)
  BY DEF Edit
<1> DEFINE rev == NextRev(d, now)
<1>2. rev \in Nat /\ rev > last[d] BY NextRevType
<1> HIDE DEF rev
<1>3. ASSUME NEW b \in Blob, Store(d, o, b, rev), b.rev = rev, ~b.deleted,
             b.deleted \in BOOLEAN
      PROVE  VaultConsistent' /\ LocalProgress
  <2> DEFINE e == [rev |-> rev, deleted |-> FALSE]
  <2>1. e \in Entry /\ e.rev = rev /\ e = EntryOf(b) BY <1>2, <1>3 DEF Entry, EntryOf
  <2>2. /\ file' = [file EXCEPT ![d][o] = b] /\ index' = [index EXCEPT ![d][o] = e]
        /\ last' = [last EXCEPT ![d] = e.rev]
    BY <1>3 DEF Store
  <2> HIDE DEF e
  <2> QED BY <1>2, <2>1, <2>2, StoreProgress
<1>4. ASSUME NEW c \in Content, Create(d, o, c, now) PROVE VaultConsistent' /\ LocalProgress
  <2> DEFINE b == [rev |-> rev, deleted |-> FALSE, content |-> c,
                   created |-> IF o \in Rule THEN rev ELSE 0]
  <2>1. b \in Blob /\ b.rev = rev /\ b.deleted = FALSE BY <1>2, ContentAssumption DEF Blob
  <2>2. Store(d, o, b, rev) BY <1>4 DEF Create, rev
  <2> HIDE DEF b
  <2> QED BY <1>3, <2>1, <2>2
<1>5. ASSUME NEW c \in Content, UpdateItem(d, o, c, now)
      PROVE  VaultConsistent' /\ LocalProgress
  <2> DEFINE b == [rev |-> rev, deleted |-> FALSE, content |-> c, created |-> 0]
  <2>1. b \in Blob /\ b.rev = rev /\ b.deleted = FALSE BY <1>2, ContentAssumption DEF Blob
  <2>2. Store(d, o, b, rev) BY <1>5 DEF UpdateItem, rev
  <2> HIDE DEF b
  <2> QED BY <1>3, <2>1, <2>2
<1>6. ASSUME NEW c \in Content, UpdateRule(d, o, c, now)
      PROVE  VaultConsistent' /\ LocalProgress
  <2> DEFINE b == [file[d][o] EXCEPT !.rev = rev, !.content = c]
             e == [rev |-> rev, deleted |-> FALSE]
  <2>1. file[d][o] \in Blob BY DEF TypeOK
  <2>2. b \in Blob BY <1>2, <2>1, ContentAssumption DEF Blob
  <2>3. e \in Entry /\ e.rev = rev BY <1>2 DEF Entry
  <2>4. o \notin Item BY <1>6, KindsAssumption DEF UpdateRule
  <2>5. /\ file' = [file EXCEPT ![d][o] = b] /\ index' = [index EXCEPT ![d][o] = e]
        /\ last' = [last EXCEPT ![d] = e.rev]
    BY <1>6 DEF UpdateRule, Store, rev
  <2> HIDE DEF b, e
  <2> QED BY <1>2, <2>2, <2>3, <2>4, <2>5, StoreProgress
<1>7. CASE Delete(d, o, now)
  <2> DEFINE b == [file[d][o] EXCEPT !.rev = rev, !.deleted = TRUE]
             e == [rev |-> rev, deleted |-> TRUE]
  <2>1. file[d][o] \in Blob /\ file \in [Device -> [Obj -> Blob]] BY DEF TypeOK
  <2>2. b \in Blob /\ e = EntryOf(b) BY <1>2, <2>1 DEF Blob, EntryOf
  <2>3. e \in Entry /\ e.rev = rev BY <1>2 DEF Entry
  <2>4. /\ index' = [index EXCEPT ![d][o] = e]
        /\ last' = [last EXCEPT ![d] = e.rev]
    BY <1>7 DEF Delete, rev
  <2>5. file' = [file EXCEPT ![d][o] = b] \/ (o \notin Item /\ file' = file)
    BY <1>7, <2>1 DEF Delete, rev
  <2> HIDE DEF b, e
  <2> QED BY <1>2, <2>2, <2>3, <2>4, <2>5, StoreProgress
<1> QED BY <1>1, <1>4, <1>5, <1>6, <1>7

(***************************************************************************)
(* The apply phase arbitrates each import against what the device holds at *)
(* that moment, so it never goes back; it raises last past all it imports. *)
(***************************************************************************)
LEMMA ApplyProgress ==
  ASSUME TypeOK, VaultConsistent, NEW t \in Syncer, Apply(t)
  PROVE  VaultConsistent' /\ LocalProgress
<1> DEFINE d    == Home[t]
           imp  == round[t].imports
           wins == {o \in Obj : imp[o].rev # 0 /\ RemoteWins(d, o, imp[o])}
           newFile  == [o \in Obj |-> IF o \in wins THEN imp[o].blob ELSE file[d][o]]
           newIndex == [o \in Obj |-> IF o \in wins THEN ImportedEntry(o, imp[o])
                                                    ELSE index[d][o]]
           newTomb  == [o \in Obj |-> IF o \in wins /\ imp[o].tomb # 0
                                        THEN imp[o].tomb ELSE tomb[d][o]]
           dead == {o \in Obj : \E p \in round[t].condemned :
                      p[1] = o /\ StillDead(o, p[2], newFile[o], newIndex[o], newTomb[o])}
           revs == {last[d]} \cup {newIndex[o].rev : o \in wins}
<1>1. d \in Device BY HomeAssumption
<1>2. /\ file \in [Device -> [Obj -> Blob]] /\ index \in [Device -> [Obj -> Entry]]
      /\ last \in [Device -> Nat]
  BY DEF TypeOK, Index
<1>3. imp \in [Obj -> Import]
  BY DEF TypeOK, Round
<1>4. /\ file'  = [file EXCEPT ![d] = [o \in Obj |-> IF o \in dead THEN NoBlob ELSE newFile[o]]]
      /\ index' = [index EXCEPT ![d] = [o \in Obj |-> IF o \in dead THEN Absent ELSE newIndex[o]]]
      /\ \E m \in revs : (\A r \in revs : r <= m) /\ last' = [last EXCEPT ![d] = m]
  BY DEF Apply
<1>5. \A o \in Obj : o \notin wins => newFile[o] = file[d][o] /\ newIndex[o] = index[d][o]
  OBVIOUS
<1>6. \A o \in Obj : o \in wins =>
        newFile[o] = imp[o].blob /\ newIndex[o] = ImportedEntry(o, imp[o])
        /\ RemoteWins(d, o, imp[o])
  OBVIOUS
<1>7. \A o \in Obj : newIndex[o].rev \in Nat
  BY <1>1, <1>2, <1>3 DEF ImportedEntry, EntryOf, Entry, Import, Blob
<1>8. PICK m \in revs : (\A r \in revs : r <= m) /\ last' = [last EXCEPT ![d] = m]
  BY <1>4
<1>9. m \in Nat /\ last[d] <= m /\ \A o \in wins : newIndex[o].rev <= m
  <2> HIDE DEF newIndex
  <2> QED BY <1>1, <1>2, <1>7, <1>8
<1> HIDE DEF d, imp, wins, newFile, newIndex, dead, revs
<1>10. \A c \in Device, o \in Obj :
         /\ c # d => file'[c][o] = file[c][o] /\ index'[c][o] = index[c][o]
                     /\ last'[c] = last[c]
         /\ c = d /\ o \in dead => file'[c][o] = NoBlob /\ index'[c][o] = Absent
         /\ c = d /\ o \notin dead => file'[c][o] = newFile[o] /\ index'[c][o] = newIndex[o]
         /\ c = d => last'[c] = m
  BY <1>1, <1>2, <1>4, <1>8
<1>11. \A c \in Device, o \in Obj :
         index[c][o].rev \in Nat /\ last[c] \in Nat /\ index[c][o].rev <= last[c]
  BY <1>2 DEF VaultConsistent, LastBoundsIndex, Entry
<1>12. ItemsIndexedAsSealed'
  <2> SUFFICES ASSUME NEW c \in Device, NEW o \in Item
      PROVE  index'[c][o] = EntryOf(file'[c][o])
    BY DEF ItemsIndexedAsSealed
  <2>1. o \in Obj BY DEF Obj
  <2>2. index[c][o] = EntryOf(file[c][o])
    BY DEF VaultConsistent, ItemsIndexedAsSealed
  <2>3. CASE c # d BY <1>10, <2>1, <2>2, <2>3
  <2>4. CASE c = d /\ o \in dead
    <3>1. EntryOf(NoBlob) = Absent BY DEF EntryOf, NoBlob, Absent
    <3> QED BY <1>10, <2>1, <2>4, <3>1
  <2>5. CASE c = d /\ o \notin dead /\ o \in wins
    <3>1. ImportedEntry(o, imp[o]) = EntryOf(imp[o].blob) BY DEF ImportedEntry
    <3>2. file'[c][o] = imp[o].blob /\ index'[c][o] = ImportedEntry(o, imp[o])
      BY <1>6, <1>10, <2>1, <2>5
    <3> QED BY <3>1, <3>2
  <2>6. CASE c = d /\ o \notin dead /\ o \notin wins BY <1>5, <1>10, <2>1, <2>2, <2>6
  <2> QED BY <2>3, <2>4, <2>5, <2>6
<1>13. LastBoundsIndex'
  <2> SUFFICES ASSUME NEW c \in Device, NEW o \in Obj PROVE index'[c][o].rev <= last'[c]
    BY DEF LastBoundsIndex
  <2>1. CASE c # d BY <1>10, <1>11, <2>1
  <2>2. CASE c = d /\ o \in dead BY <1>9, <1>10, <2>2 DEF Absent
  <2>3. CASE c = d /\ o \notin dead /\ o \in wins BY <1>9, <1>10, <2>3
  <2>4. CASE c = d /\ o \notin dead /\ o \notin wins
    BY <1>1, <1>5, <1>9, <1>10, <1>11, <2>4
  <2> QED BY <2>1, <2>2, <2>3, <2>4
<1>14. LocalProgress
  <2> SUFFICES ASSUME NEW c \in Device, NEW o \in Obj
      PROVE  IF o \in Item
               THEN file'[c][o] \in {file[c][o], NoBlob} \/ Beats(file'[c][o], file[c][o])
               ELSE \/ index'[c][o] \in {index[c][o], Absent}
                    \/ index'[c][o].rev > index[c][o].rev
    BY DEF LocalProgress
  <2>1. CASE c # d BY <1>10, <2>1
  <2>2. CASE c = d /\ o \in dead BY <1>10, <2>2
  <2>3. CASE c = d /\ o \notin dead /\ o \in wins
    <3>1. CASE o \in Item BY <1>6, <1>10, <2>3, <3>1 DEF RemoteWins
    <3>2. CASE o \notin Item
      <4>1. imp[o].rev > index[d][o].rev BY <1>6, <2>3, <3>2 DEF RemoteWins
      <4>2. index'[c][o] = ImportedEntry(o, imp[o]) BY <1>6, <1>10, <2>3
      <4>3. ImportedEntry(o, imp[o]) = [rev |-> imp[o].rev, deleted |-> imp[o].deleted]
        BY <3>2 DEF ImportedEntry
      <4> QED BY <2>3, <3>2, <4>1, <4>2, <4>3
    <3> QED BY <3>1, <3>2
  <2>4. CASE c = d /\ o \notin dead /\ o \notin wins BY <1>5, <1>10, <2>4
  <2> QED BY <2>1, <2>2, <2>3, <2>4
<1> QED BY <1>12, <1>13, <1>14 DEF VaultConsistent

(* A restart computes last anew; it still bounds the index it is taken from. *)
LEMMA RestartProgress ==
  ASSUME TypeOK, VaultConsistent, NEW d \in Device, Restart(d)
  PROVE  VaultConsistent' /\ LocalProgress
<1> DEFINE known == {index[d][o].rev : o \in Obj} \ {0}
           revs  == IF known # {} THEN known ELSE {tomb[d][o] : o \in Obj} \cup {0}
<1>1. /\ index \in [Device -> [Obj -> Entry]] /\ last \in [Device -> Nat]
      /\ tomb \in [Device -> [Obj -> Nat]]
  BY DEF TypeOK, Index
<1>2. /\ UNCHANGED <<file, index>>
      /\ \E m \in revs : (\A r \in revs : r <= m) /\ last' = [last EXCEPT ![d] = m]
  BY DEF Restart
<1>3. PICK m \in revs : (\A r \in revs : r <= m) /\ last' = [last EXCEPT ![d] = m]
  BY <1>2
<1>4. \A o \in Obj : index[d][o].rev \in Nat BY <1>1 DEF Entry
<1>5. m \in Nat
  <2>1. known \subseteq Nat BY <1>4
  <2>2. {tomb[d][o] : o \in Obj} \cup {0} \subseteq Nat BY <1>1
  <2> HIDE DEF known
  <2>3. revs \subseteq Nat BY <2>1, <2>2
  <2> HIDE DEF revs
  <2> QED BY <1>3, <2>3
<1>6. ASSUME NEW o \in Obj PROVE index[d][o].rev <= m
  <2>1. CASE index[d][o].rev = 0 BY <1>5, <2>1
  <2>2. CASE index[d][o].rev # 0
    <3>1. index[d][o].rev \in known BY <2>2
    <3>2. index[d][o].rev \in revs BY <3>1
    <3> QED BY <1>3, <3>2
  <2> QED BY <2>1, <2>2
<1> HIDE DEF revs, known
<1>7. LastBoundsIndex'
  BY <1>1, <1>2, <1>3, <1>6 DEF VaultConsistent, LastBoundsIndex
<1>8. ItemsIndexedAsSealed' BY <1>2 DEF VaultConsistent, ItemsIndexedAsSealed
<1> QED BY <1>2, <1>7, <1>8 DEF VaultConsistent, LocalProgress

(* The fetch phase writes nothing local. *)
LEMMA FetchIsRemote ==
  ASSUME NEW t \in Syncer, StartRound(t) \/ (Advance(t) /\ ~Apply(t)) \/ Abandon(t)
  PROVE  UNCHANGED local
  BY DEF Advance, StartRound, ListBody, ListTomb, ListDone, Plan, Pull, FetchTomb,
         BeginPush, Put, Resolve, Arbitrate, Refresh, PushTomb, BeginPurge, PurgeBody,
         PurgeTomb, PutIndex, Reget, Abandon

(* Every step keeps VaultConsistent and never takes a device back. *)
LEMMA ProgressStep ==
  ASSUME TypeOK, VaultConsistent, [Next]_vars
  PROVE  VaultConsistent' /\ LocalProgress
<1>1. ASSUME UNCHANGED local PROVE VaultConsistent' /\ LocalProgress
  BY <1>1 DEF local, VaultConsistent, ItemsIndexedAsSealed, LastBoundsIndex, LocalProgress
<1>2. ASSUME NEW t \in Syncer, StartRound(t) \/ Advance(t) \/ Abandon(t)
      PROVE  VaultConsistent' /\ LocalProgress
  <2>1. CASE Apply(t) BY <2>1, ApplyProgress
  <2>2. CASE ~Apply(t) BY <1>1, <1>2, <2>2, FetchIsRemote
  <2> QED BY <2>1, <2>2
<1>3. CASE LoseIndex BY <1>1, <1>3 DEF LoseIndex
<1>4. ASSUME NEW h \in 1..MaxRev, GraceElapses(h) PROVE VaultConsistent' /\ LocalProgress
  BY <1>1, <1>4 DEF GraceElapses
<1>5. CASE UNCHANGED vars BY <1>1, <1>5 DEF vars
<1> QED BY <1>2, <1>3, <1>4, <1>5, EditProgress, RestartProgress DEF Next

(***************************************************************************)
(* On every device the index says of an item what its body says, and no    *)
(* revision in it exceeds the last one seen (vault.rs, import_item,        *)
(* next_revision).                                                         *)
(***************************************************************************)
THEOREM VaultConsistency == Spec => []VaultConsistent
<1>1. Init => VaultConsistent
  <2> SUFFICES ASSUME Init PROVE VaultConsistent OBVIOUS
  <2>1. \A o \in Obj : SeedEntry(o) = EntryOf(SeedBlob(o))
    BY DEF SeedEntry, SeedBlob, EntryOf, NoBlob, Absent
  <2>2. \A o \in Obj : SeedEntry(o).rev <= IF Seed = {} THEN 0 ELSE 1
    BY DEF SeedEntry, Absent
  <2>3. ItemsIndexedAsSealed BY <2>1 DEF Init, ItemsIndexedAsSealed, Obj
  <2>4. LastBoundsIndex BY <2>2 DEF Init, LastBoundsIndex
  <2> QED BY <2>3, <2>4 DEF VaultConsistent
<1>2. TypeOK /\ VaultConsistent /\ [Next]_vars => VaultConsistent' BY ProgressStep
<1> QED BY <1>1, <1>2, TypeCorrect, PTL DEF Spec

(***************************************************************************)
(* However rounds, edits, restarts and other devices interleave, no device *)
(* ever replaces a version by one that loses to it (engine.rs,             *)
(* apply_round).                                                           *)
(***************************************************************************)
THEOREM NeverRegresses == Spec => LocalNeverRegresses
<1>1. TypeOK /\ VaultConsistent /\ [Next]_vars => LocalProgress BY ProgressStep
<1>2. LocalProgress => [\A d \in Device, o \in Obj :
       IF o \in Item
         THEN file'[d][o] \in {file[d][o], NoBlob} \/ Beats(file'[d][o], file[d][o])
         ELSE index'[d][o] \in {index[d][o], Absent} \/ index'[d][o].rev > index[d][o].rev]_vars
  BY DEF LocalProgress
<1> QED BY <1>1, <1>2, TypeCorrect, VaultConsistency, PTL DEF Spec, LocalNeverRegresses

-----------------------------------------------------------------------------
(***************************************************************************)
(* The remote index.  FreshBase is inductive next to TypeOK: only StartRound*)
(* and Reget obtain an ETag, with the index it belongs to; any write of    *)
(* the index makes every other ETag stale; and a round never touches its   *)
(* base between the two.                                                   *)
(***************************************************************************)

(* A step of round t that keeps its base, or drops its ETag, keeps FreshBase. *)
LEMMA KeepsFreshBase ==
  ASSUME TypeOK, FreshBase, NEW t \in Syncer, NEW r, Become(t, r),
         UNCHANGED <<rindex, published>>, fresh' \subseteq fresh,
         t \in fresh' => /\ r.based /\ r.base = round[t].base
                         /\ r.pc \notin {"idle", "list", "listTomb"}
  PROVE  FreshBase'
<1>1. \A u \in Syncer : round'[u] = IF u = t THEN r ELSE round[u]
  BY DEF Become, TypeOK
<1>2. \A u \in fresh' : u \in fresh /\ u \in Syncer BY DEF TypeOK
<1> QED BY <1>1, <1>2 DEF FreshBase

(* Buffering or assembling an import does not touch the base. *)
LEMMA BufferedBase ==
  ASSUME NEW r \in Round, NEW o, NEW i
  PROVE  /\ Buffered(r, o, i).base = r.base /\ Buffered(r, o, i).based = r.based
         /\ Buffered(r, o, i).pc = "transfer"
  BY DEF Buffered, Released, Round

(* Nor does letting go of the object in hand. *)
LEMMA ReleasedBase ==
  ASSUME NEW r \in Round
  PROVE  /\ Released(r).base = r.base /\ Released(r).based = r.based
         /\ Released(r).pc = "transfer"
  BY DEF Released, Round

(* An import is assembled at once or goes on to its tombstone, on the same base. *)
LEMMA AssembleBase ==
  ASSUME NEW t \in Syncer, NEW r \in Round, NEW o, NEW i, Assemble(t, r, o, i)
  PROVE  \E q : /\ Become(t, q) /\ q.base = r.base /\ q.based = r.based
                /\ q.pc \in {"transfer", "fetchTomb"}
<1>1. CASE i.deleted
  <2> DEFINE q == [r EXCEPT !.pc = "fetchTomb", !.obj = {o}, !.import = i]
  <2>1. q.base = r.base /\ q.based = r.based /\ q.pc = "fetchTomb" BY DEF Round
  <2>2. Become(t, q) BY <1>1 DEF Assemble
  <2> HIDE DEF q
  <2> QED BY <2>1, <2>2
<1>2. CASE ~i.deleted
  <2>1. Become(t, Buffered(r, o, i)) BY <1>2 DEF Assemble
  <2> QED BY <2>1, BufferedBase
<1> QED BY <1>1, <1>2

(* What a step of the fetch phase makes of its round. *)
BaseKept(t) ==
  \E q : /\ Become(t, q) /\ q.base = round[t].base /\ q.based = round[t].based
         /\ q.pc \notin {"idle", "list", "listTomb"}

(* A round that has left the listing keeps its base until it writes or asks again. *)
LEMMA TransferKeepsBase ==
  ASSUME TypeOK, NEW t \in Syncer,
         Pull(t) \/ FetchTomb(t) \/ BeginPush(t) \/ Plan(t) \/ Put(t) \/ Refresh(t)
         \/ PushTomb(t) \/ BeginPurge(t) \/ PurgeBody(t) \/ PurgeTomb(t)
  PROVE  BaseKept(t) /\ UNCHANGED <<rindex, published, fresh>>
<1> DEFINE r == round[t]
<1>0. r \in Round BY DEF TypeOK
<1>a. UNCHANGED <<rindex, published, fresh>>
  BY DEF Pull, FetchTomb, BeginPush, Plan, Put, Refresh, PushTomb, BeginPurge, PurgeBody,
         PurgeTomb, remote
<1> SUFFICES BaseKept(t) BY <1>a
<1>1. CASE Plan(t)
  <2>1. PICK snap, pulls, pushes :
          Become(t, [r EXCEPT !.pc = "transfer", !.snap = snap, !.pulls = pulls,
                      !.pushes = pushes, !.skipped = {}, !.skippedPush = {},
                      !.pushed = {}, !.purged = {}])
    BY <1>1 DEF Plan
  <2> DEFINE q == [r EXCEPT !.pc = "transfer", !.snap = snap, !.pulls = pulls,
                      !.pushes = pushes, !.skipped = {}, !.skippedPush = {},
                      !.pushed = {}, !.purged = {}]
  <2>2. q.base = r.base /\ q.based = r.based /\ q.pc = "transfer" BY <1>0 DEF Round
  <2>3. Become(t, q) BY <2>1
  <2> HIDE DEF q
  <2> QED BY <2>2, <2>3 DEF BaseKept
<1>2. CASE Pull(t)
  <2>1. PICK o \in r.pulls :
          LET b == rfile[o]
              e == r.base[o]
              q == [r EXCEPT !.pulls = @ \ {o}]
              i == [rev |-> e.rev, blob |-> b, tomb |-> 0,
                    deleted |-> IF o \in Item THEN b.deleted ELSE e.deleted]
          IN  \/ Become(t, [q EXCEPT !.skipped = @ \cup {o}])
              \/ Become(t, q)
              \/ Assemble(t, [q EXCEPT !.pulled[o] = e.rev], o, i)
    BY <1>2 DEF Pull
  <2> DEFINE b == rfile[o]
             e == r.base[o]
             q == [r EXCEPT !.pulls = @ \ {o}]
             q1 == [q EXCEPT !.skipped = @ \cup {o}]
             q2 == [q EXCEPT !.pulled[o] = e.rev]
             i == [rev |-> e.rev, blob |-> b, tomb |-> 0,
                   deleted |-> IF o \in Item THEN b.deleted ELSE e.deleted]
  <2>2. r.pc = "transfer" BY <1>2 DEF Pull, At
  <2>3. o \in Obj /\ e.rev \in Nat
    <3>1. r.pulls \subseteq Obj /\ r.base \in [Obj -> Entry] BY <1>0 DEF Round, Index
    <3>2. o \in Obj BY <3>1
    <3>3. e \in Entry BY <3>1, <3>2
    <3> HIDE DEF e
    <3> QED BY <3>2, <3>3 DEF Entry
  <2>4. /\ q \in Round /\ q.base = r.base /\ q.based = r.based /\ q.pc = r.pc
    <3> HIDE DEF r
    <3> QED BY <1>0, <2>3 DEF Round
  <2>5. q1.base = r.base /\ q1.based = r.based /\ q1.pc = r.pc
    <3> HIDE DEF q, r
    <3> QED BY <2>4 DEF Round
  <2>6. q2 \in Round /\ q2.base = r.base /\ q2.based = r.based
    <3> HIDE DEF q, r, e
    <3> QED BY <2>3, <2>4 DEF Round
  <2>7. Become(t, q1) \/ Become(t, q) \/ Assemble(t, q2, o, i) BY <2>1
  <2> HIDE DEF q, q1, q2, i
  <2>8. CASE Become(t, q1) BY <2>2, <2>5, <2>8 DEF BaseKept
  <2>9. CASE Become(t, q) BY <2>2, <2>4, <2>9 DEF BaseKept
  <2>10. CASE Assemble(t, q2, o, i)
    <3>1. PICK p : /\ Become(t, p) /\ p.base = q2.base /\ p.based = q2.based
                   /\ p.pc \in {"transfer", "fetchTomb"}
      BY <2>6, <2>10, AssembleBase
    <3> QED BY <2>6, <3>1 DEF BaseKept
  <2> QED BY <2>7, <2>8, <2>9, <2>10
<1>3. CASE FetchTomb(t)
  <2>1. PICK o, i : Become(t, Buffered(r, o, i)) BY <1>3 DEF FetchTomb
  <2>2. /\ Buffered(r, o, i).base = r.base /\ Buffered(r, o, i).based = r.based
        /\ Buffered(r, o, i).pc = "transfer"
    BY <1>0, BufferedBase
  <2> QED BY <2>1, <2>2 DEF BaseKept
<1>4. CASE BeginPush(t)
  <2>1. r.pc = "transfer" BY <1>4 DEF BeginPush, At
  <2>2. PICK o : LET q == [r EXCEPT !.pushes = @ \ {o}]
                 IN  \/ Become(t, [q EXCEPT !.skippedPush = @ \cup {o}])
                     \/ Become(t, [q EXCEPT !.pc = "put", !.obj = {o},
                                     !.blob = file[Home[t]][o], !.expected = rfile[o]])
    BY <1>4 DEF BeginPush
  <2> DEFINE q == [r EXCEPT !.pushes = @ \ {o}]
             q1 == [q EXCEPT !.skippedPush = @ \cup {o}]
             q2 == [q EXCEPT !.pc = "put", !.obj = {o},
                             !.blob = file[Home[t]][o], !.expected = rfile[o]]
  <2> HIDE DEF r
  <2>3. q1.base = r.base /\ q1.based = r.based /\ q1.pc = r.pc BY <1>0 DEF Round
  <2>4. q2.base = r.base /\ q2.based = r.based /\ q2.pc = "put" BY <1>0 DEF Round
  <2>5. Become(t, q1) \/ Become(t, q2) BY <2>2
  <2> HIDE DEF q1, q2
  <2> USE DEF r
  <2> QED BY <2>1, <2>3, <2>4, <2>5 DEF BaseKept
<1>5. CASE Put(t)
  <2>1. PICK o : \/ Become(t, [r EXCEPT !.pc = "pushTomb"])
                 \/ Become(t, Released([r EXCEPT !.pushed = @ \cup {o}])) /\ o \in r.obj
                 \/ Become(t, [r EXCEPT !.pc = "resolve", !.tries = @ + 1])
    BY <1>5 DEF Put
  <2> DEFINE q1 == [r EXCEPT !.pc = "pushTomb"]
             q2 == [r EXCEPT !.pushed = @ \cup {o}]
             q3 == [r EXCEPT !.pc = "resolve", !.tries = @ + 1]
  <2>2. o \in r.obj => q2 \in Round /\ q2.base = r.base /\ q2.based = r.based
    <3> HIDE DEF r
    <3> QED BY <1>0 DEF Round
  <2>3. /\ q1.base = r.base /\ q1.based = r.based /\ q1.pc = "pushTomb"
        /\ q3.base = r.base /\ q3.based = r.based /\ q3.pc = "resolve"
    <3> HIDE DEF r
    <3> QED BY <1>0 DEF Round
  <2>4. Become(t, q1) \/ (Become(t, Released(q2)) /\ o \in r.obj) \/ Become(t, q3) BY <2>1
  <2> HIDE DEF q1, q2, q3
  <2>5. o \in r.obj => /\ Released(q2).base = r.base /\ Released(q2).based = r.based
                       /\ Released(q2).pc = "transfer"
    BY <2>2, ReleasedBase
  <2> QED BY <2>3, <2>4, <2>5 DEF BaseKept
<1>6. CASE Refresh(t)
  <2>1. PICK o : Become(t, [r EXCEPT !.pc = "put", !.expected = rfile[o]])
    BY <1>6 DEF Refresh
  <2> DEFINE q == [r EXCEPT !.pc = "put", !.expected = rfile[o]]
  <2>2. q.base = r.base /\ q.based = r.based /\ q.pc = "put" BY <1>0 DEF Round
  <2>3. Become(t, q) BY <2>1
  <2> HIDE DEF q
  <2> QED BY <2>2, <2>3 DEF BaseKept
<1>7. CASE PushTomb(t)
  <2>1. PICK o \in r.obj : Become(t, Released([r EXCEPT !.pushed = @ \cup {o}]))
    BY <1>7 DEF PushTomb
  <2> DEFINE q == [r EXCEPT !.pushed = @ \cup {o}]
  <2>2. q \in Round /\ q.base = r.base /\ q.based = r.based
    <3> HIDE DEF r
    <3> QED BY <1>0, <2>1 DEF Round
  <2>3. Become(t, Released(q)) BY <2>1
  <2> HIDE DEF q
  <2> QED BY <2>2, <2>3, ReleasedBase DEF BaseKept
<1>8. CASE BeginPurge(t)
  <2>1. PICK p, g, c : Become(t, [r EXCEPT !.pc = "purge", !.purges = p, !.purged = g,
                                           !.condemned = @ \cup c])
    BY <1>8 DEF BeginPurge
  <2> DEFINE q == [r EXCEPT !.pc = "purge", !.purges = p, !.purged = g, !.condemned = @ \cup c]
  <2>2. q.base = r.base /\ q.based = r.based /\ q.pc = "purge" BY <1>0 DEF Round
  <2>3. Become(t, q) BY <2>1
  <2> HIDE DEF q
  <2> QED BY <2>2, <2>3 DEF BaseKept
<1>9. CASE PurgeBody(t)
  <2>1. PICK o : Become(t, [r EXCEPT !.pc = "purgeTomb", !.obj = {o}]) BY <1>9 DEF PurgeBody
  <2> DEFINE q == [r EXCEPT !.pc = "purgeTomb", !.obj = {o}]
  <2>2. q.base = r.base /\ q.based = r.based /\ q.pc = "purgeTomb" BY <1>0 DEF Round
  <2>3. Become(t, q) BY <2>1
  <2> HIDE DEF q
  <2> QED BY <2>2, <2>3 DEF BaseKept
<1>10. CASE PurgeTomb(t)
  <2>1. PICK o, m : Become(t, [r EXCEPT !.pc = "purge", !.obj = {}, !.purges = @ \ m,
                                        !.purged = @ \cup {o}, !.condemned = @ \cup m])
    BY <1>10 DEF PurgeTomb
  <2> DEFINE q == [r EXCEPT !.pc = "purge", !.obj = {}, !.purges = @ \ m,
                            !.purged = @ \cup {o}, !.condemned = @ \cup m]
  <2>2. q.base = r.base /\ q.based = r.based /\ q.pc = "purge" BY <1>0 DEF Round
  <2>3. Become(t, q) BY <2>1
  <2> HIDE DEF q
  <2> QED BY <2>2, <2>3 DEF BaseKept
<1> QED BY <1>1, <1>2, <1>3, <1>4, <1>5, <1>6, <1>7, <1>8, <1>9, <1>10

(* Resolving a conflict keeps the base too, or gives the round up. *)
LEMMA ResolveKeepsBase ==
  ASSUME TypeOK, NEW t \in Syncer, Resolve(t) \/ Arbitrate(t)
  PROVE  /\ UNCHANGED <<rindex, published>>
         /\ \/ BaseKept(t) /\ UNCHANGED fresh
            \/ Become(t, NoRound) /\ fresh' = fresh \ {t}
<1> DEFINE r == round[t]
<1>0. r \in Round BY DEF TypeOK
<1>1. ASSUME Retry(t)
      PROVE  \/ BaseKept(t) /\ UNCHANGED fresh
             \/ Become(t, NoRound) /\ fresh' = fresh \ {t}
  <2> DEFINE q == [r EXCEPT !.pc = "refresh", !.import = NoImport]
  <2>1. q.base = r.base /\ q.based = r.based /\ q.pc = "refresh" BY <1>0 DEF Round
  <2>2. \/ Become(t, q) /\ UNCHANGED fresh
        \/ Become(t, NoRound) /\ fresh' = fresh \ {t}
    BY <1>1 DEF Retry
  <2> HIDE DEF q
  <2> QED BY <2>1, <2>2 DEF BaseKept
<1>2. ASSUME NEW o, NEW i, Assemble(t, r, o, i) PROVE BaseKept(t)
  <2>1. PICK p : /\ Become(t, p) /\ p.base = r.base /\ p.based = r.based
                 /\ p.pc \in {"transfer", "fetchTomb"}
    BY <1>0, <1>2, AssembleBase
  <2> QED BY <2>1 DEF BaseKept
<1>3. CASE Resolve(t)
  <2>1. PICK o \in r.obj :
          \/ Become(t, [r EXCEPT !.pc = "put", !.expected = NoBlob]) /\ UNCHANGED fresh
          \/ Become(t, [r EXCEPT !.pc = "arbitrate", !.import.blob = rfile[o]])
             /\ UNCHANGED fresh
          \/ (\E i : Assemble(t, r, o, i)) /\ UNCHANGED fresh
          \/ Retry(t)
    <3>1. PICK o \in r.obj :
            LET b == rfile[o]
            IN  CASE b.rev = 0 ->
                       Become(t, [r EXCEPT !.pc = "put", !.expected = NoBlob]) /\ UNCHANGED fresh
                  [] b.rev # 0 /\ o \in Rule ->
                       Become(t, [r EXCEPT !.pc = "arbitrate", !.import.blob = b])
                       /\ UNCHANGED fresh
                  [] b.rev # 0 /\ o \in Item /\ Beats(b, r.blob) ->
                       /\ Assemble(t, r, o, [rev |-> b.rev, deleted |-> b.deleted,
                                             blob |-> b, tomb |-> 0])
                       /\ UNCHANGED fresh
                  [] b.rev # 0 /\ o \in Item /\ ~Beats(b, r.blob) -> Retry(t)
      BY <1>3, Zenon DEF Resolve
    <3>2. o \in Item \/ o \in Rule BY <1>0 DEF Round, Obj
    <3> HIDE DEF r
    <3>3. CASE rfile[o].rev = 0 BY <3>1, <3>3
    <3>4. CASE rfile[o].rev # 0 /\ o \in Rule BY <3>1, <3>4, KindsAssumption
    <3>5. CASE rfile[o].rev # 0 /\ o \in Item /\ Beats(rfile[o], r.blob)
      BY <3>1, <3>5, KindsAssumption
    <3>6. CASE rfile[o].rev # 0 /\ o \in Item /\ ~Beats(rfile[o], r.blob)
      BY <3>1, <3>6, KindsAssumption
    <3> QED BY <3>2, <3>3, <3>4, <3>5, <3>6
  <2> DEFINE q1 == [r EXCEPT !.pc = "put", !.expected = NoBlob]
             q2 == [r EXCEPT !.pc = "arbitrate", !.import.blob = rfile[o]]
  <2>2. /\ q1.base = r.base /\ q1.based = r.based /\ q1.pc = "put"
        /\ q2.base = r.base /\ q2.based = r.based /\ q2.pc = "arbitrate"
    <3> HIDE DEF r
    <3> QED BY <1>0 DEF Round
  <2>3. \/ Become(t, q1) /\ UNCHANGED fresh
        \/ Become(t, q2) /\ UNCHANGED fresh
        \/ (\E i : Assemble(t, r, o, i)) /\ UNCHANGED fresh
        \/ Retry(t)
    BY <2>1
  <2>4. UNCHANGED <<rindex, published>> BY <1>3 DEF Resolve
  <2> HIDE DEF q1, q2
  <2>5. CASE Become(t, q1) \/ Become(t, q2) BY <2>2, <2>3, <2>4, <2>5, <1>1, <1>2 DEF BaseKept
  <2>6. CASE ~(Become(t, q1) \/ Become(t, q2)) BY <2>3, <2>4, <2>6, <1>1, <1>2
  <2> QED BY <2>5, <2>6
<1>4. CASE Arbitrate(t)
  <2>1. PICK o, i : Retry(t) \/ (Assemble(t, r, o, i) /\ UNCHANGED fresh)
    BY <1>4 DEF Arbitrate
  <2>2. UNCHANGED <<rindex, published>> BY <1>4 DEF Arbitrate
  <2> QED BY <1>1, <1>2, <2>1, <2>2
<1> QED BY <1>3, <1>4

(* A round that ends, or is still listing, holds no ETag. *)
LEMMA DropsEtag ==
  ASSUME TypeOK, FreshBase, NEW t \in Syncer, NEW r, Become(t, r), t \notin fresh',
         fresh' \subseteq fresh, UNCHANGED <<rindex, published>>
  PROVE  FreshBase'
  BY KeepsFreshBase

(* Every step keeps FreshBase. *)
LEMMA FreshBaseStep ==
  ASSUME TypeOK, FreshBase, [Next]_vars
  PROVE  FreshBase'
<1>1. ASSUME UNCHANGED <<rindex, published, fresh, round>> PROVE FreshBase'
  BY <1>1 DEF FreshBase
<1>2. ASSUME NEW t \in Syncer, StartRound(t) PROVE FreshBase'
  <2> DEFINE r == [NoRound EXCEPT !.pc = "plan", !.base = rindex, !.based = TRUE]
  <2>1. CASE published
    <3>1. r.base = rindex /\ r.based = TRUE /\ r.pc = "plan" BY DEF NoRound
    <3>2. Become(t, r) /\ fresh' = fresh \cup {t} /\ UNCHANGED <<rindex, published>>
      BY <1>2, <2>1 DEF StartRound
    <3> HIDE DEF r
    <3>3. \A u \in Syncer : round'[u] = IF u = t THEN r ELSE round[u]
      BY <3>2 DEF Become, TypeOK
    <3>4. \A u \in fresh' : u \in Syncer /\ (u = t \/ u \in fresh) BY <3>2 DEF TypeOK
    <3> QED BY <2>1, <3>1, <3>2, <3>3, <3>4 DEF FreshBase
  <2>2. CASE ~published
    <3>1. fresh = {} BY <2>2 DEF FreshBase
    <3>2. fresh' = {} BY <1>2, <2>2, <3>1 DEF StartRound
    <3> QED BY <3>2 DEF FreshBase
  <2> QED BY <2>1, <2>2
<1>3. ASSUME NEW t \in Syncer, ListBody(t) \/ ListTomb(t) \/ ListDone(t) PROVE FreshBase'
  <2>1. t \notin fresh
    BY <1>3 DEF FreshBase, ListBody, ListTomb, ListDone, At
  <2>2. UNCHANGED <<rindex, published, fresh>>
    BY <1>3 DEF ListBody, ListTomb, ListDone, remote
  <2>3. \E r : Become(t, r)
    <3>1. CASE ListBody(t) BY <3>1 DEF ListBody
    <3>2. CASE ListTomb(t) BY <3>2 DEF ListTomb
    <3>3. CASE ListDone(t) BY <3>3 DEF ListDone
    <3> QED BY <1>3, <3>1, <3>2, <3>3
  <2> QED BY <2>1, <2>2, <2>3, DropsEtag
<1>4. ASSUME NEW t \in Syncer, BaseKept(t), UNCHANGED <<rindex, published, fresh>>
      PROVE  FreshBase'
  <2>1. PICK q : /\ Become(t, q) /\ q.base = round[t].base /\ q.based = round[t].based
                 /\ q.pc \notin {"idle", "list", "listTomb"}
    BY <1>4 DEF BaseKept
  <2>2. t \in fresh => round[t].based BY DEF FreshBase
  <2> QED BY <1>4, <2>1, <2>2, KeepsFreshBase
<1>5. ASSUME NEW t \in Syncer, Become(t, NoRound), fresh' = fresh \ {t},
             UNCHANGED <<rindex, published>>
      PROVE  FreshBase'
  BY <1>5, DropsEtag
<1>6. ASSUME NEW t \in Syncer, PutIndex(t) PROVE FreshBase'
  <2> DEFINE r == round[t]
  <2>1. CASE fresh' = {} BY <2>1 DEF FreshBase
  <2>2. CASE fresh' # {}
    <3>1. PICK p \in {"apply", "reget"} :
            Become(t, [r EXCEPT !.pc = p]) /\ UNCHANGED <<rindex, published, fresh>>
      BY <1>6, <2>2 DEF PutIndex
    <3> DEFINE q == [r EXCEPT !.pc = p]
    <3>2. q.base = r.base /\ q.based = r.based /\ q.pc = p BY DEF TypeOK, Round
    <3>3. Become(t, q) BY <3>1
    <3> HIDE DEF q
    <3>4. BaseKept(t) BY <3>2, <3>3 DEF BaseKept
    <3> QED BY <1>4, <3>1, <3>4
  <2> QED BY <2>1, <2>2
<1>7. ASSUME NEW t \in Syncer, Reget(t) PROVE FreshBase'
  <2> DEFINE r == round[t]
             q == [r EXCEPT !.pc = "plan", !.attempt = @ + 1,
                     !.base = IF published THEN rindex ELSE EmptyIndex, !.based = published]
             a == [r EXCEPT !.pc = "apply"]
  <2>1. \/ Become(t, a) /\ UNCHANGED fresh
        \/ Become(t, q) /\ fresh' = IF published THEN fresh \cup {t} ELSE fresh
    BY <1>7 DEF Reget
  <2>2. UNCHANGED <<rindex, published>> BY <1>7 DEF Reget
  <2>3. /\ a.base = r.base /\ a.based = r.based /\ a.pc = "apply"
        /\ published => q.base = rindex /\ q.based = published /\ q.pc = "plan"
    BY DEF TypeOK, Round
  <2> HIDE DEF a, q
  <2>4. CASE Become(t, a) /\ UNCHANGED fresh
    <3>1. BaseKept(t) BY <2>3, <2>4 DEF BaseKept
    <3> QED BY <1>4, <2>2, <2>4, <3>1
  <2>5. CASE Become(t, q) /\ fresh' = IF published THEN fresh \cup {t} ELSE fresh
    <3>1. CASE published
      <4>1. \A u \in Syncer : round'[u] = IF u = t THEN q ELSE round[u]
        BY <2>5 DEF Become, TypeOK
      <4>2. \A u \in fresh' : u \in Syncer /\ (u = t \/ u \in fresh)
        BY <2>5, <3>1 DEF TypeOK
      <4> QED BY <2>2, <2>3, <3>1, <4>1, <4>2 DEF FreshBase
    <3>2. CASE ~published
      <4>1. fresh' = {} BY <2>5, <3>2 DEF FreshBase
      <4> QED BY <4>1 DEF FreshBase
    <3> QED BY <3>1, <3>2
  <2> QED BY <2>1, <2>4, <2>5
<1>8. ASSUME NEW t \in Syncer, Advance(t) PROVE FreshBase'
  <2>1. CASE Apply(t)
    BY <1>5, <2>1 DEF Apply
  <2>2. CASE Resolve(t) \/ Arbitrate(t)
    BY <1>4, <1>5, <2>2, ResolveKeepsBase
  <2>3. CASE \/ Pull(t) \/ FetchTomb(t) \/ BeginPush(t) \/ Plan(t) \/ Put(t) \/ Refresh(t)
             \/ PushTomb(t) \/ BeginPurge(t) \/ PurgeBody(t) \/ PurgeTomb(t)
    BY <1>4, <2>3, TransferKeepsBase
  <2> QED BY <1>3, <1>6, <1>7, <1>8, <2>1, <2>2, <2>3 DEF Advance
<1>9. ASSUME NEW t \in Syncer, Abandon(t) PROVE FreshBase'
  BY <1>5, <1>9 DEF Abandon
<1>10. ASSUME NEW d \in Device, Restart(d) PROVE FreshBase'
  <2>1. /\ round' = [t \in Syncer |-> IF Home[t] = d THEN NoRound ELSE round[t]]
        /\ fresh' = {t \in fresh : Home[t] # d}
        /\ UNCHANGED <<rindex, published>>
    BY <1>10 DEF Restart
  <2>2. \A t \in fresh' : t \in fresh /\ t \in Syncer /\ round'[t] = round[t]
    BY <2>1 DEF TypeOK
  <2> QED BY <2>1, <2>2 DEF FreshBase
<1>11. CASE LoseIndex BY <1>11 DEF LoseIndex, FreshBase
<1>12. ASSUME NEW d \in Device, Edit(d) PROVE FreshBase'
  <2>1. UNCHANGED <<remote, round>>
    BY ZenonT(60), <1>12 DEF Edit, Create, UpdateItem, UpdateRule, Delete
  <2> QED BY <1>1, <2>1 DEF remote
<1>13. ASSUME NEW h \in 1..MaxRev, GraceElapses(h) PROVE FreshBase'
  BY <1>1, <1>13 DEF GraceElapses, remote
<1>14. CASE UNCHANGED vars BY <1>1, <1>14 DEF vars, remote
<1> QED BY <1>2, <1>8, <1>9, <1>10, <1>11, <1>12, <1>13, <1>14 DEF Next

(***************************************************************************)
(* A round that holds the current ETag of the remote index holds its       *)
(* entries too (fetch_round, the CAS loop).                                *)
(***************************************************************************)
THEOREM FreshBaseHolds == Spec => []FreshBase
<1>1. Init => FreshBase BY DEF Init, FreshBase
<1>2. TypeOK /\ FreshBase /\ [Next]_vars => FreshBase' BY FreshBaseStep
<1> QED BY <1>1, <1>2, TypeCorrect, PTL DEF Spec

(* What NoUnseenOverwrite asks of a step. *)
SeenOverwrite ==
  \A t \in Syncer :
    LET r == round[t]
    IN  At(t, "purge") /\ published /\ rindex' # rindex /\ round'[t].pc = "apply" =>
          \A o \in Obj :
            \/ rindex'[o] = rindex[o]
            \/ rindex'[o] = r.snap[o] /\ r.snap[o].rev > rindex[o].rev
            \/ /\ r.imports[o].rev # 0
               /\ rindex'[o] = [rev |-> r.imports[o].rev, deleted |-> r.imports[o].deleted]
            \/ rindex'[o] = Absent /\ o \in r.purged \cup r.skipped

(* A step that writes the remote index writes one the round has seen. *)
LEMMA SeenOverwriteStep ==
  ASSUME TypeOK, FreshBase, [Next]_vars
  PROVE  SeenOverwrite
<1> SUFFICES ASSUME NEW t \in Syncer, At(t, "purge"), published, rindex' # rindex,
                    round'[t].pc = "apply", NEW o \in Obj
             PROVE  \/ rindex'[o] = rindex[o]
                    \/ /\ rindex'[o] = round[t].snap[o]
                       /\ round[t].snap[o].rev > rindex[o].rev
                    \/ /\ round[t].imports[o].rev # 0
                       /\ rindex'[o] = [rev |-> round[t].imports[o].rev,
                                        deleted |-> round[t].imports[o].deleted]
                    \/ rindex'[o] = Absent /\ o \in round[t].purged \cup round[t].skipped
  BY DEF SeenOverwrite
<1> DEFINE r == round[t]
<1>1. PutIndex(t) /\ rindex' = Merged(r) /\ Accepted(t)
  <2>1. ASSUME NEW u \in Syncer, StartRound(u) \/ Advance(u) \/ Abandon(u)
        PROVE  PutIndex(u)
    BY <2>1 DEF Advance, StartRound, ListBody, ListTomb, ListDone, Plan, Pull, FetchTomb,
         BeginPush, Put, Resolve, Arbitrate, Refresh, PushTomb, BeginPurge, PurgeBody,
         PurgeTomb, Reget, Apply, Abandon, remote
  <2>2. ~ \E d \in Device : Edit(d) \/ Restart(d)
    <3>1. ASSUME NEW d \in Device, Edit(d) PROVE FALSE
      <4>1. UNCHANGED remote
        BY ZenonT(60), <3>1 DEF Edit, Create, UpdateItem, UpdateRule, Delete
      <4> QED BY <4>1 DEF remote
    <3>2. ASSUME NEW d \in Device, Restart(d) PROVE FALSE
      BY <3>2 DEF Restart
    <3> QED BY <3>1, <3>2
  <2>3. ~LoseIndex BY DEF LoseIndex, At
  <2>4. ~ \E h \in 1..MaxRev : GraceElapses(h) BY DEF GraceElapses, remote
  <2>5. ~UNCHANGED vars BY DEF vars, remote
  <2>6. PICK u \in Syncer : PutIndex(u) BY <2>1, <2>2, <2>3, <2>4, <2>5 DEF Next
  <2>7. u = t
    <3> SUFFICES ASSUME u # t PROVE FALSE OBVIOUS
    <3>1. PICK q : Become(u, q) BY <2>6 DEF PutIndex
    <3>2. round'[t] = round[t] BY <3>1 DEF Become, TypeOK
    <3> QED BY <3>2 DEF At
  <2> QED BY <2>6, <2>7 DEF PutIndex
<1>2. r.base = rindex BY <1>1 DEF Accepted, FreshBase
<1>3. rindex'[o] = Merged(r)[o] BY <1>1
<1> HIDE DEF r
<1> QED BY <1>2, <1>3 DEF Merged, MergeIndexes, r

(***************************************************************************)
(* A write of the remote index never undoes an entry its round has not     *)
(* seen, whatever other devices, edits and failures come in between        *)
(* (fetch_round: the PUT is conditional on the ETag of the merged index).  *)
(***************************************************************************)
THEOREM NothingUnseenOverwritten == Spec => NoUnseenOverwrite
<1>1. TypeOK /\ FreshBase /\ [Next]_vars => SeenOverwrite BY SeenOverwriteStep
<1>2. SeenOverwrite => [\A t \in Syncer :
        LET r == round[t]
        IN  At(t, "purge") /\ published /\ rindex' # rindex /\ round'[t].pc = "apply" =>
              \A o \in Obj :
                \/ rindex'[o] = rindex[o]
                \/ rindex'[o] = r.snap[o] /\ r.snap[o].rev > rindex[o].rev
                \/ /\ r.imports[o].rev # 0
                   /\ rindex'[o] = [rev |-> r.imports[o].rev,
                                    deleted |-> r.imports[o].deleted]
                \/ rindex'[o] = Absent /\ o \in r.purged \cup r.skipped]_vars
  BY DEF SeenOverwrite
<1> QED BY <1>1, <1>2, TypeCorrect, FreshBaseHolds, PTL DEF Spec, NoUnseenOverwrite

-----------------------------------------------------------------------------
(***************************************************************************)
(* What each step makes of the round it belongs to, field by field.  The   *)
(* fields come in groups: what the round compares, what it fetches, what   *)
(* it uploads, what it purges and the object it has in hand.               *)
(***************************************************************************)
SameView(q, r)   == q.base = r.base /\ q.based = r.based /\ q.snap = r.snap
SamePulls(q, r)  == q.pulls = r.pulls /\ q.imports = r.imports /\ q.skipped = r.skipped
SamePushes(q, r) == /\ q.pushes = r.pushes /\ q.pushed = r.pushed
                    /\ q.skippedPush = r.skippedPush
SamePurges(q, r) == /\ q.purges = r.purges /\ q.purged = r.purged
                    /\ q.condemned = r.condemned
SameHand(q, r)   == /\ q.obj = r.obj /\ q.blob = r.blob /\ q.expected = r.expected
                    /\ q.import = r.import
FreeHand(q)      == q.obj = {} /\ q.blob = NoBlob /\ q.import = NoImport

(* Round t is in state q after the step, every other round is where it was. *)
Moved(t, q) == /\ round'[t] = q /\ q \in Round
               /\ \A u \in Syncer : u # t => round'[u] = round[u]

(* A syncer that moves takes no other with it. *)
LEMMA BecomeMoves ==
  ASSUME round \in [Syncer -> Round], NEW t \in Syncer, NEW q \in Round, Become(t, q)
  PROVE  Moved(t, q)
  BY DEF Become, Moved

(* Letting go of the object in hand changes nothing else but the phase. *)
LEMMA ReleasedShape ==
  ASSUME NEW r \in Round
  PROVE  LET q == Released(r)
         IN  /\ q \in Round /\ q.pc = "transfer" /\ FreeHand(q)
             /\ SameView(q, r) /\ SamePulls(q, r) /\ SamePushes(q, r) /\ SamePurges(q, r)
<1> DEFINE q == Released(r)
<1>1. q \in Round BY ReleasedType
<1>2. /\ q.pc = "transfer" /\ q.obj = {} /\ q.blob = NoBlob /\ q.import = NoImport
      /\ q.base = r.base /\ q.based = r.based /\ q.snap = r.snap
      /\ q.pulls = r.pulls /\ q.imports = r.imports /\ q.skipped = r.skipped
  BY DEF Released, Round
<1>3. /\ q.pushes = r.pushes /\ q.pushed = r.pushed /\ q.skippedPush = r.skippedPush
      /\ q.purges = r.purges /\ q.purged = r.purged /\ q.condemned = r.condemned
  BY DEF Released, Round
<1> HIDE DEF q
<1> QED BY <1>1, <1>2, <1>3
      DEF q, FreeHand, SameView, SamePulls, SamePushes, SamePurges

(* Buffering an import of o records it for o alone. *)
LEMMA BufferedShape ==
  ASSUME NEW r \in Round, NEW o \in Obj, NEW i \in Import
  PROVE  LET q == Buffered(r, o, i)
         IN  /\ q \in Round /\ q.pc = "transfer" /\ FreeHand(q)
             /\ SameView(q, r) /\ SamePushes(q, r) /\ SamePurges(q, r)
             /\ q.pulls = r.pulls /\ q.skipped = r.skipped
             /\ q.imports = [r.imports EXCEPT ![o] = i]
<1>1. PICK s : s = [r EXCEPT !.imports[o] = i] OBVIOUS
<1>2. /\ s \in Round /\ SameView(s, r) /\ SamePushes(s, r) /\ SamePurges(s, r)
      /\ s.pulls = r.pulls /\ s.skipped = r.skipped
      /\ s.imports = [r.imports EXCEPT ![o] = i]
  BY <1>1 DEF Round, SameView, SamePushes, SamePurges
<1>3. PICK q : q = Released(s) OBVIOUS
<1>4. Buffered(r, o, i) = q BY <1>1, <1>3 DEF Buffered
<1>5. /\ q \in Round /\ q.pc = "transfer" /\ FreeHand(q)
      /\ SameView(q, s) /\ SamePulls(q, s) /\ SamePushes(q, s) /\ SamePurges(q, s)
  BY <1>2, <1>3, ReleasedShape
<1> QED BY <1>2, <1>4, <1>5 DEF SameView, SamePulls, SamePushes, SamePurges

(* Import i of o is in hand, waiting for its tombstone, or buffered. *)
InHandOrBuffered(q, r, o, i) ==
  \/ /\ i.deleted /\ q.pc = "fetchTomb"
     /\ q.obj = {o} /\ q.blob = r.blob /\ q.import = i /\ q.imports = r.imports
  \/ /\ ~i.deleted /\ q.pc = "transfer"
     /\ FreeHand(q) /\ q.imports = [r.imports EXCEPT ![o] = i]

(* What assembling import i of o makes of round state r. *)
Assembled(q, r, o, i) ==
  /\ SameView(q, r) /\ SamePushes(q, r) /\ SamePurges(q, r)
  /\ q.pulls = r.pulls /\ q.skipped = r.skipped
  /\ InHandOrBuffered(q, r, o, i)

(* Assembling leaves the import buffered or in hand, and nothing else changes. *)
LEMMA AssembleShape ==
  ASSUME round \in [Syncer -> Round], NEW t \in Syncer, NEW r \in Round,
         NEW o \in Obj, NEW i \in Import, Assemble(t, r, o, i)
  PROVE  \E q : Moved(t, q) /\ Assembled(q, r, o, i)
<1>1. CASE i.deleted
  <2>1. PICK q : q = [r EXCEPT !.pc = "fetchTomb", !.obj = {o}, !.import = i] OBVIOUS
  <2>2. "fetchTomb" \in Phase BY DEF Phase
  <2>3. q \in Round BY ZenonT(60), <2>1, <2>2 DEF Round
  <2>4. Moved(t, q) BY <1>1, <2>1, <2>3, BecomeMoves DEF Assemble
  <2>5. /\ SameView(q, r) /\ SamePushes(q, r) /\ SamePurges(q, r)
        /\ q.pulls = r.pulls /\ q.skipped = r.skipped
    BY <2>1 DEF Round, SameView, SamePushes, SamePurges
  <2>6. /\ q.pc = "fetchTomb" /\ q.obj = {o} /\ q.blob = r.blob /\ q.import = i
        /\ q.imports = r.imports
    BY <2>1 DEF Round
  <2> QED BY <1>1, <2>4, <2>5, <2>6 DEF Assembled, InHandOrBuffered
<1>2. CASE ~i.deleted
  <2>1. PICK q : q = Buffered(r, o, i) OBVIOUS
  <2>2. /\ q \in Round /\ q.pc = "transfer" /\ FreeHand(q)
        /\ SameView(q, r) /\ SamePushes(q, r) /\ SamePurges(q, r)
        /\ q.pulls = r.pulls /\ q.skipped = r.skipped
        /\ q.imports = [r.imports EXCEPT ![o] = i]
    BY <2>1, BufferedShape
  <2>3. Moved(t, q) BY <1>2, <2>1, <2>2, BecomeMoves DEF Assemble
  <2> QED BY <1>2, <2>2, <2>3 DEF Assembled, InHandOrBuffered
<1> QED BY <1>1, <1>2

(* A round starts with nothing fetched, scheduled or in hand. *)
LEMMA StartShape ==
  ASSUME TypeOK, NEW t \in Syncer, StartRound(t)
  PROVE  \E q : /\ Moved(t, q) /\ FreeHand(q) /\ q.purges = {} /\ q.condemned = {}
                /\ q.imports = [o \in Obj |-> NoImport] /\ q.snap = EmptyIndex
                /\ \/ published /\ q.pc = "plan" /\ q.base = rindex /\ q.based
                      /\ q.listing = {} /\ fresh' = fresh \cup {t}
                   \/ ~published /\ q.pc = "list" /\ q.base = EmptyIndex /\ ~q.based
                      /\ q.listing = {o \in Obj : rfile[o].rev # 0} /\ fresh' = fresh
<1>0. round \in [Syncer -> Round] /\ rindex \in Index BY DEF TypeOK
<1>1. /\ NoRound.obj = {} /\ NoRound.blob = NoBlob /\ NoRound.import = NoImport
      /\ NoRound.purges = {} /\ NoRound.condemned = {}
      /\ NoRound.imports = [o \in Obj |-> NoImport] /\ NoRound.snap = EmptyIndex
      /\ NoRound.base = EmptyIndex /\ NoRound.based = FALSE /\ NoRound.listing = {}
  BY DEF NoRound
<1>2. PICK z : z = NoRound OBVIOUS
<1>3. z \in Round BY <1>2, NoRoundType
<1>4. {"plan", "list"} \subseteq Phase BY DEF Phase
<1>5. CASE published
  <2>1. PICK q : q = [z EXCEPT !.pc = "plan", !.base = rindex, !.based = TRUE] OBVIOUS
  <2>2. q \in Round BY <1>0, <1>3, <1>4, <2>1 DEF Round
  <2>3. /\ q.obj = z.obj /\ q.blob = z.blob /\ q.import = z.import
        /\ q.purges = z.purges /\ q.condemned = z.condemned /\ q.imports = z.imports
        /\ q.snap = z.snap /\ q.pc = "plan" /\ q.base = rindex /\ q.based = TRUE
        /\ q.listing = z.listing
    BY <1>3, <2>1 DEF Round
  <2>4. Become(t, q) /\ fresh' = fresh \cup {t} BY <1>2, <1>5, <2>1 DEF StartRound
  <2>5. Moved(t, q) BY <1>0, <2>2, <2>4, BecomeMoves
  <2> QED BY <1>1, <1>2, <1>5, <2>3, <2>4, <2>5 DEF FreeHand
<1>6. CASE ~published
  <2>1. PICK q : q = [z EXCEPT !.pc = "list", !.listing = {o \in Obj : rfile[o].rev # 0}]
    OBVIOUS
  <2>2. q \in Round BY ZenonT(60), <1>3, <1>4, <2>1 DEF Round
  <2>3. /\ q.obj = z.obj /\ q.blob = z.blob /\ q.import = z.import
        /\ q.purges = z.purges /\ q.condemned = z.condemned /\ q.imports = z.imports
        /\ q.snap = z.snap /\ q.pc = "list" /\ q.base = z.base /\ q.based = z.based
        /\ q.listing = {o \in Obj : rfile[o].rev # 0}
    BY <1>3, <2>1 DEF Round
  <2>4. Become(t, q) /\ fresh' = fresh BY <1>2, <1>6, <2>1 DEF StartRound
  <2>5. Moved(t, q) BY <1>0, <2>2, <2>4, BecomeMoves
  <2> QED BY <1>1, <1>2, <1>6, <2>3, <2>4, <2>5 DEF FreeHand
<1> QED BY <1>5, <1>6

(* Listing changes the base, and may take a listed rule in hand. *)
LEMMA ListShape ==
  ASSUME TypeOK, NEW t \in Syncer, ListBody(t) \/ ListTomb(t)
  PROVE  \E q : /\ Moved(t, q) /\ SamePurges(q, round[t]) /\ q.imports = round[t].imports
                /\ \/ /\ q.obj = round[t].obj /\ q.blob = round[t].blob
                      /\ q.import = round[t].import
                      /\ q.pc = round[t].pc
                   \/ /\ q.obj = {} /\ q.blob = NoBlob /\ q.import = round[t].import
                      /\ q.pc = "list"
                   \/ \E o \in Obj : /\ q.obj = {o} /\ q.blob = rfile[o]
                                     /\ q.import = round[t].import /\ q.pc = "listTomb"
<1> DEFINE r == round[t]
<1>0. r \in Round /\ round \in [Syncer -> Round] BY DEF TypeOK
<1>a. {"listTomb", "list"} \subseteq Phase BY DEF Phase
<1>1. CASE ListBody(t)
  <2>1. PICK o \in r.listing :
          LET p == [r EXCEPT !.listing = @ \ {o}]
              b == rfile[o]
          IN  Become(t, CASE b.rev = 0 -> p
                          [] b.rev # 0 /\ o \in Item -> [p EXCEPT !.base[o] = EntryOf(b)]
                          [] b.rev # 0 /\ o \in Rule ->
                               [p EXCEPT !.pc = "listTomb", !.obj = {o}, !.blob = b])
    BY <1>1 DEF ListBody
  <2>2. o \in Obj /\ rfile[o] \in Blob BY <1>0 DEF Round, TypeOK
  <2> DEFINE p == [r EXCEPT !.listing = @ \ {o}]
             p1 == [p EXCEPT !.base[o] = EntryOf(rfile[o])]
             p2 == [p EXCEPT !.pc = "listTomb", !.obj = {o}, !.blob = rfile[o]]
  <2> HIDE DEF r
  <2>3. p \in Round BY <1>0 DEF Round
  <2>4. /\ SamePurges(p, r) /\ p.imports = r.imports
        /\ p.obj = r.obj /\ p.blob = r.blob /\ p.import = r.import /\ p.pc = r.pc
    BY <1>0 DEF Round, SamePurges
  <2>5. EntryOf(rfile[o]) \in Entry BY <2>2 DEF EntryOf, Blob, Entry
  <2> HIDE DEF p
  <2>6. p1 \in Round BY <2>2, <2>3, <2>5 DEF Round, Index
  <2>7. /\ SamePurges(p1, p) /\ p1.imports = p.imports
        /\ p1.obj = p.obj /\ p1.blob = p.blob /\ p1.import = p.import /\ p1.pc = p.pc
    BY <2>3 DEF Round, SamePurges
  <2>8. p2 \in Round BY <1>a, <2>2, <2>3 DEF Round
  <2>9. /\ SamePurges(p2, p) /\ p2.imports = p.imports
        /\ p2.obj = {o} /\ p2.blob = rfile[o] /\ p2.import = p.import /\ p2.pc = "listTomb"
    BY <2>3 DEF Round, SamePurges
  <2>10. rfile[o].rev = 0 \/ (rfile[o].rev # 0 /\ o \in Item) \/ (rfile[o].rev # 0 /\ o \in Rule)
    BY <2>2 DEF Obj
  <2>11. Become(t, p) \/ Become(t, p1) \/ Become(t, p2) BY <2>1, <2>10 DEF p, r
  <2> HIDE DEF p1, p2
  <2>12. CASE Become(t, p)
    <3>1. Moved(t, p) BY <1>0, <2>3, <2>12, BecomeMoves
    <3> QED BY <2>4, <3>1 DEF r
  <2>13. CASE Become(t, p1)
    <3>1. Moved(t, p1) BY <1>0, <2>6, <2>13, BecomeMoves
    <3>2. /\ SamePurges(p1, r) /\ p1.imports = r.imports
          /\ p1.obj = r.obj /\ p1.blob = r.blob /\ p1.import = r.import /\ p1.pc = r.pc
      BY <2>4, <2>7 DEF SamePurges
    <3> QED BY <3>1, <3>2 DEF r
  <2>14. CASE Become(t, p2)
    <3>1. Moved(t, p2) BY <1>0, <2>8, <2>14, BecomeMoves
    <3>2. SamePurges(p2, r) /\ p2.imports = r.imports /\ p2.import = r.import
      BY <2>4, <2>9 DEF SamePurges
    <3> QED BY <2>2, <2>9, <3>1, <3>2 DEF r
  <2> QED BY <2>11, <2>12, <2>13, <2>14
<1>2. CASE ListTomb(t)
  <2>1. PICK o \in r.obj :
          Become(t, [r EXCEPT !.pc = "list", !.obj = {}, !.blob = NoBlob,
                              !.base[o] = Rebuilt(r.blob, rtomb[o])])
    BY <1>2 DEF ListTomb
  <2>2. o \in Obj /\ r.blob \in Blob /\ rtomb[o] \in Nat BY <1>0 DEF Round, TypeOK
  <2>3. PICK e : e = Rebuilt(r.blob, rtomb[o]) OBVIOUS
  <2>4. e \in Entry BY <2>2, <2>3 DEF Rebuilt, Blob, Entry
  <2>5. PICK q : q = [r EXCEPT !.pc = "list", !.obj = {}, !.blob = NoBlob, !.base[o] = e]
    OBVIOUS
  <2> HIDE DEF r
  <2>6. q \in Round BY <1>0, <1>a, <2>2, <2>4, <2>5, NothingType DEF Round, Index
  <2>7. /\ SamePurges(q, r) /\ q.imports = r.imports /\ q.import = r.import
        /\ q.obj = {} /\ q.blob = NoBlob /\ q.pc = "list"
    BY <1>0, <2>5 DEF Round, SamePurges
  <2>8. Moved(t, q) BY <1>0, <2>1, <2>3, <2>5, <2>6, BecomeMoves
  <2> QED BY <2>7, <2>8 DEF r
<1> QED BY <1>1, <1>2

(* A round that only goes on to another phase. *)
OnlyPhase(q, r) ==
  /\ SameView(q, r) /\ SamePulls(q, r) /\ SamePushes(q, r) /\ SamePurges(q, r)
  /\ SameHand(q, r) /\ q.listing = r.listing

(* A syncer that changes its phase changes nothing else of its round. *)
LEMMA PhaseShape ==
  ASSUME TypeOK, NEW t \in Syncer, NEW p \in Phase, Become(t, [round[t] EXCEPT !.pc = p])
  PROVE  \E q : Moved(t, q) /\ q.pc = p /\ OnlyPhase(q, round[t])
<1>0. round[t] \in Round /\ round \in [Syncer -> Round] BY DEF TypeOK
<1>1. PICK r : r = round[t] OBVIOUS
<1>2. PICK q : q = [r EXCEPT !.pc = p] OBVIOUS
<1>3. q \in Round BY ZenonT(60), <1>0, <1>1, <1>2 DEF Round
<1>4. q.pc = p /\ SameView(q, r) /\ SamePulls(q, r) /\ SamePushes(q, r)
  BY <1>0, <1>1, <1>2 DEF Round, SameView, SamePulls, SamePushes
<1>5. SamePurges(q, r) /\ SameHand(q, r) /\ q.listing = r.listing
  BY <1>0, <1>1, <1>2 DEF Round, SamePurges, SameHand
<1>6. Moved(t, q) BY <1>0, <1>1, <1>2, <1>3, BecomeMoves
<1> QED BY <1>1, <1>4, <1>5, <1>6 DEF OnlyPhase

(* A plan compares the base with the index of the device as it is now. *)
LEMMA PlanShape ==
  ASSUME TypeOK, NEW t \in Syncer, Plan(t)
  PROVE  \E q : /\ Moved(t, q) /\ q.pc = "transfer"
                /\ q.base = round[t].base /\ q.based = round[t].based
                /\ q.snap = index[Home[t]]
                /\ q.pulls \subseteq DiffPull(q.snap, q.base)
                /\ q.pushes = DiffPush(q.snap, q.base)
                /\ q.skipped = {} /\ q.skippedPush = {} /\ q.pushed = {} /\ q.purged = {}
                /\ q.imports = round[t].imports /\ q.purges = round[t].purges
                /\ q.condemned = round[t].condemned /\ SameHand(q, round[t])
<1>0. round[t] \in Round /\ round \in [Syncer -> Round] BY DEF TypeOK
<1>1. PICK r : r = round[t] OBVIOUS
<1>2. PICK snap : snap = index[Home[t]] OBVIOUS
<1>3. snap \in Index BY <1>2, HomeAssumption DEF TypeOK
<1>4. PICK pulls : pulls = {o \in DiffPull(snap, r.base) : r.pulled[o] # r.base[o].rev}
  OBVIOUS
<1>5. PICK pushes : pushes = DiffPush(snap, r.base) OBVIOUS
<1>6. pulls \subseteq DiffPull(snap, r.base) /\ pulls \subseteq Obj /\ pushes \subseteq Obj
  BY <1>4, <1>5 DEF DiffPull, DiffPush
<1>7. PICK q : q = [r EXCEPT !.pc = "transfer", !.snap = snap, !.pulls = pulls,
                      !.pushes = pushes, !.skipped = {}, !.skippedPush = {},
                      !.pushed = {}, !.purged = {}]
  OBVIOUS
<1>8. Become(t, q) BY <1>1, <1>2, <1>4, <1>5, <1>7 DEF Plan
<1>9. "transfer" \in Phase BY DEF Phase
<1>10. q \in Round BY ZenonT(60), <1>0, <1>1, <1>3, <1>6, <1>7, <1>9 DEF Round
<1>11. /\ q.pc = "transfer" /\ q.base = r.base /\ q.based = r.based /\ q.snap = snap
       /\ q.pulls = pulls /\ q.pushes = pushes
       /\ q.skipped = {} /\ q.skippedPush = {} /\ q.pushed = {} /\ q.purged = {}
  BY <1>0, <1>1, <1>7 DEF Round
<1>12. /\ q.imports = r.imports /\ q.purges = r.purges /\ q.condemned = r.condemned
       /\ q.obj = r.obj /\ q.blob = r.blob /\ q.expected = r.expected /\ q.import = r.import
  BY <1>0, <1>1, <1>7 DEF Round
<1>13. Moved(t, q) BY <1>0, <1>8, <1>10, BecomeMoves
<1> QED BY <1>1, <1>2, <1>5, <1>6, <1>11, <1>12, <1>13 DEF SameHand

(* The import made of body b of o, under the entry e of the remote index. *)
PulledImport(o, b, e) ==
  [rev |-> e.rev, blob |-> b, tomb |-> 0,
   deleted |-> IF o \in Item THEN b.deleted ELSE e.deleted]

(* A pull ends in a skip, in nothing, or with the body it has fetched. *)
LEMMA PullShape ==
  ASSUME TypeOK, NEW t \in Syncer, Pull(t)
  PROVE  \E o \in round[t].pulls, q \in Round :
           /\ Moved(t, q) /\ SameView(q, round[t]) /\ SamePushes(q, round[t])
           /\ SamePurges(q, round[t]) /\ q.pulls = round[t].pulls \ {o}
           /\ \/ /\ rfile[o].rev = 0
                 /\ q.skipped = round[t].skipped \cup {o} /\ q.imports = round[t].imports
                 /\ q.pc = round[t].pc /\ SameHand(q, round[t])
              \/ /\ rfile[o].rev # 0
                 /\ q.skipped = round[t].skipped /\ q.imports = round[t].imports
                 /\ q.pc = round[t].pc /\ SameHand(q, round[t])
              \/ /\ rfile[o].rev # 0 /\ q.skipped = round[t].skipped
                 /\ InHandOrBuffered(q, round[t], o,
                                     PulledImport(o, rfile[o], round[t].base[o]))
<1>0. round[t] \in Round /\ round \in [Syncer -> Round] BY DEF TypeOK
<1>1. PICK r : r = round[t] OBVIOUS
<1>2. PICK o \in r.pulls :
        LET b == rfile[o]
            e == r.base[o]
            q == [r EXCEPT !.pulls = @ \ {o}]
            i == [rev |-> e.rev, blob |-> b, tomb |-> 0,
                  deleted |-> IF o \in Item THEN b.deleted ELSE e.deleted]
        IN  CASE b.rev = 0 -> Become(t, [q EXCEPT !.skipped = @ \cup {o}])
              [] b.rev # 0 /\ ~RemoteWins(Home[t], o, i) -> Become(t, q)
              [] b.rev # 0 /\ RemoteWins(Home[t], o, i) ->
                   Assemble(t, [q EXCEPT !.pulled[o] = e.rev], o, i)
  BY <1>1 DEF Pull
<1>3. o \in Obj /\ rfile[o] \in Blob /\ r.base[o] \in Entry
  BY <1>0, <1>1 DEF Round, TypeOK, Index
<1>4. r.base[o].rev \in Nat /\ r.base[o].deleted \in BOOLEAN /\ rfile[o].deleted \in BOOLEAN
  BY <1>3 DEF Entry, Blob
<1>5. PICK i : i = PulledImport(o, rfile[o], r.base[o]) OBVIOUS
<1>6. i \in Import BY <1>3, <1>4, <1>5 DEF PulledImport, Import
<1>7. PICK s : s = [r EXCEPT !.pulls = @ \ {o}] OBVIOUS
<1>8. PICK s1 : s1 = [s EXCEPT !.skipped = @ \cup {o}] OBVIOUS
<1>9. PICK s2 : s2 = [s EXCEPT !.pulled[o] = r.base[o].rev] OBVIOUS
<1>10. \/ rfile[o].rev = 0 /\ Become(t, s1)
       \/ rfile[o].rev # 0 /\ Become(t, s)
       \/ rfile[o].rev # 0 /\ Assemble(t, s2, o, i)
  BY <1>2, <1>5, <1>7, <1>8, <1>9 DEF PulledImport
<1>11. s \in Round BY ZenonT(60), <1>0, <1>1, <1>7 DEF Round
<1>12. /\ SameView(s, r) /\ SamePushes(s, r) /\ SamePurges(s, r) /\ SameHand(s, r)
       /\ s.pulls = r.pulls \ {o} /\ s.skipped = r.skipped /\ s.imports = r.imports
       /\ s.pc = r.pc
  BY <1>0, <1>1, <1>7 DEF Round, SameView, SamePushes, SamePurges, SameHand
<1>13. s1 \in Round BY <1>3, <1>8, <1>11 DEF Round
<1>14. /\ SameView(s1, s) /\ SamePushes(s1, s) /\ SamePurges(s1, s) /\ SameHand(s1, s)
       /\ s1.pulls = s.pulls /\ s1.skipped = s.skipped \cup {o} /\ s1.imports = s.imports
       /\ s1.pc = s.pc
  BY <1>8, <1>11 DEF Round, SameView, SamePushes, SamePurges, SameHand
<1>15. s2 \in Round BY <1>3, <1>4, <1>9, <1>11 DEF Round
<1>16. /\ SameView(s2, s) /\ SamePushes(s2, s) /\ SamePurges(s2, s) /\ s2.blob = s.blob
       /\ s2.pulls = s.pulls /\ s2.skipped = s.skipped /\ s2.imports = s.imports
  BY <1>9, <1>11 DEF Round, SameView, SamePushes, SamePurges
<1>17. CASE rfile[o].rev = 0 /\ Become(t, s1)
  <2>1. Moved(t, s1) BY <1>0, <1>13, <1>17, BecomeMoves
  <2>2. /\ SameView(s1, r) /\ SamePushes(s1, r) /\ SamePurges(s1, r) /\ SameHand(s1, r)
        /\ s1.pulls = r.pulls \ {o} /\ s1.skipped = r.skipped \cup {o}
        /\ s1.imports = r.imports /\ s1.pc = r.pc
    BY <1>12, <1>14 DEF SameView, SamePushes, SamePurges, SameHand
  <2> QED BY <1>1, <1>13, <1>17, <2>1, <2>2
<1>18. CASE rfile[o].rev # 0 /\ Become(t, s)
  <2>1. Moved(t, s) BY <1>0, <1>11, <1>18, BecomeMoves
  <2> QED BY <1>1, <1>11, <1>12, <1>18, <2>1
<1>19. CASE rfile[o].rev # 0 /\ Assemble(t, s2, o, i)
  <2>1. PICK q : Moved(t, q) /\ Assembled(q, s2, o, i)
    BY <1>0, <1>3, <1>6, <1>15, <1>19, AssembleShape
  <2>2. /\ SameView(q, r) /\ SamePushes(q, r) /\ SamePurges(q, r)
        /\ q.pulls = r.pulls \ {o} /\ q.skipped = r.skipped
    BY <1>12, <1>16, <2>1 DEF Assembled, SameView, SamePushes, SamePurges
  <2>3. InHandOrBuffered(q, r, o, i)
    BY <1>12, <1>16, <2>1 DEF Assembled, InHandOrBuffered, SameHand
  <2> QED BY <1>1, <1>5, <1>19, <2>1, <2>2, <2>3 DEF Moved
<1> QED BY <1>10, <1>17, <1>18, <1>19

(* The import in hand is buffered with a tombstone: the remote one, or one made up. *)
LEMMA FetchTombShape ==
  ASSUME TypeOK, NEW t \in Syncer, FetchTomb(t)
  PROVE  \E o \in round[t].obj, j \in Import : \E q :
           /\ Moved(t, q) /\ SameView(q, round[t]) /\ SamePushes(q, round[t])
           /\ SamePurges(q, round[t]) /\ q.pulls = round[t].pulls
           /\ q.skipped = round[t].skipped /\ q.pc = "transfer" /\ FreeHand(q)
           /\ q.imports = [round[t].imports EXCEPT ![o] = j]
           /\ j.rev = round[t].import.rev /\ j.deleted = round[t].import.deleted
           /\ j.blob = round[t].import.blob
           /\ j.tomb = IF rtomb[o] # 0 THEN rtomb[o]
                       ELSE IF o \in Item THEN round[t].import.blob.rev
                                          ELSE round[t].import.rev
<1>0. round[t] \in Round /\ round \in [Syncer -> Round] BY DEF TypeOK
<1>1. PICK r : r = round[t] OBVIOUS
<1>2. PICK o \in r.obj :
        LET i    == r.import
            made == IF o \in Item THEN i.blob.rev ELSE i.rev
        IN  Become(t, Buffered(r, o, [i EXCEPT !.tomb = IF rtomb[o] # 0 THEN rtomb[o] ELSE made]))
  BY <1>1 DEF FetchTomb
<1>3. o \in Obj /\ r.import \in Import /\ rtomb[o] \in Nat
  BY <1>0, <1>1 DEF Round, TypeOK
<1>4. r.import.blob \in Blob /\ r.import.rev \in Nat BY <1>3 DEF Import
<1>5. r.import.blob.rev \in Nat BY <1>4 DEF Blob
<1>6. PICK k : k = IF rtomb[o] # 0 THEN rtomb[o]
                   ELSE IF o \in Item THEN r.import.blob.rev ELSE r.import.rev
  OBVIOUS
<1>7. k \in Nat BY <1>3, <1>4, <1>5, <1>6
<1>8. PICK i : i = r.import OBVIOUS
<1>9. PICK j : j = [i EXCEPT !.tomb = k] OBVIOUS
<1>10. j \in Import BY <1>3, <1>7, <1>8, <1>9 DEF Import
<1>11. j.rev = i.rev /\ j.deleted = i.deleted /\ j.blob = i.blob /\ j.tomb = k
  BY <1>3, <1>8, <1>9 DEF Import
<1>12. PICK q : q = Buffered(r, o, j) OBVIOUS
<1>13. Become(t, q) BY <1>2, <1>6, <1>8, <1>9, <1>12
<1>14. /\ q \in Round /\ q.pc = "transfer" /\ FreeHand(q)
       /\ SameView(q, r) /\ SamePushes(q, r) /\ SamePurges(q, r)
       /\ q.pulls = r.pulls /\ q.skipped = r.skipped
       /\ q.imports = [r.imports EXCEPT ![o] = j]
  BY <1>0, <1>1, <1>3, <1>10, <1>12, BufferedShape
<1>15. Moved(t, q) BY <1>0, <1>13, <1>14, BecomeMoves
<1>16. o \in round[t].obj BY <1>1
<1>17. /\ j.rev = round[t].import.rev /\ j.deleted = round[t].import.deleted
       /\ j.blob = round[t].import.blob
       /\ j.tomb = IF rtomb[o] # 0 THEN rtomb[o]
                   ELSE IF o \in Item THEN round[t].import.blob.rev
                                      ELSE round[t].import.rev
  BY <1>1, <1>6, <1>8, <1>11
<1>18. /\ SameView(q, round[t]) /\ SamePushes(q, round[t]) /\ SamePurges(q, round[t])
       /\ q.pulls = round[t].pulls /\ q.skipped = round[t].skipped
       /\ q.pc = "transfer" /\ FreeHand(q)
       /\ q.imports = [round[t].imports EXCEPT ![o] = j]
  BY <1>1, <1>14
<1> WITNESS o \in round[t].obj, j \in Import
<1> QED BY <1>15, <1>17, <1>18

(* An upload starts with the body the device holds, or is skipped. *)
LEMMA BeginPushShape ==
  ASSUME TypeOK, NEW t \in Syncer, BeginPush(t)
  PROVE  \E o \in round[t].pushes, q \in Round :
           /\ Moved(t, q) /\ SameView(q, round[t]) /\ SamePulls(q, round[t])
           /\ SamePurges(q, round[t]) /\ q.pushes = round[t].pushes \ {o}
           /\ q.pushed = round[t].pushed
           /\ \/ /\ q.skippedPush = round[t].skippedPush \cup {o}
                 /\ q.pc = round[t].pc /\ SameHand(q, round[t])
              \/ /\ file[Home[t]][o].rev # 0
                 /\ LocalRev(Home[t], o) = round[t].snap[o].rev
                 /\ q.skippedPush = round[t].skippedPush /\ q.pc = "put" /\ q.obj = {o}
                 /\ q.blob = file[Home[t]][o] /\ q.expected = rfile[o]
                 /\ q.import = round[t].import
<1>0. round[t] \in Round /\ round \in [Syncer -> Round] BY DEF TypeOK
<1>1. PICK r : r = round[t] OBVIOUS
<1>2. PICK o \in r.pushes :
        LET d == Home[t]
            q == [r EXCEPT !.pushes = @ \ {o}]
        IN  Become(t, IF file[d][o].rev = 0 \/ LocalRev(d, o) # q.snap[o].rev
                        THEN [q EXCEPT !.skippedPush = @ \cup {o}]
                        ELSE [q EXCEPT !.pc = "put", !.obj = {o},
                                       !.blob = file[d][o], !.expected = rfile[o]])
  BY <1>1 DEF BeginPush
<1>3. o \in Obj BY <1>0, <1>1 DEF Round
<1>4. file[Home[t]][o] \in Blob /\ rfile[o] \in Blob BY <1>3, HomeAssumption DEF TypeOK
<1>5. PICK s : s = [r EXCEPT !.pushes = @ \ {o}] OBVIOUS
<1>6. s \in Round BY ZenonT(60), <1>0, <1>1, <1>5 DEF Round
<1>7. /\ SameView(s, r) /\ SamePulls(s, r) /\ SamePurges(s, r) /\ SameHand(s, r)
      /\ s.pushes = r.pushes \ {o} /\ s.pushed = r.pushed /\ s.skippedPush = r.skippedPush
      /\ s.pc = r.pc
  BY <1>0, <1>1, <1>5 DEF Round, SameView, SamePulls, SamePurges, SameHand
<1>8. PICK s1 : s1 = [s EXCEPT !.skippedPush = @ \cup {o}] OBVIOUS
<1>9. PICK s2 : s2 = [s EXCEPT !.pc = "put", !.obj = {o},
                               !.blob = file[Home[t]][o], !.expected = rfile[o]]
  OBVIOUS
<1>10. \/ Become(t, s1)
       \/ /\ file[Home[t]][o].rev # 0 /\ LocalRev(Home[t], o) = s.snap[o].rev
          /\ Become(t, s2)
  BY <1>2, <1>5, <1>8, <1>9
<1>11. "put" \in Phase BY DEF Phase
<1>12. s1 \in Round BY <1>3, <1>6, <1>8 DEF Round
<1>13. /\ SameView(s1, s) /\ SamePulls(s1, s) /\ SamePurges(s1, s) /\ SameHand(s1, s)
       /\ s1.pushes = s.pushes /\ s1.pushed = s.pushed
       /\ s1.skippedPush = s.skippedPush \cup {o} /\ s1.pc = s.pc
  BY <1>6, <1>8 DEF Round, SameView, SamePulls, SamePurges, SameHand
<1>14. s2 \in Round BY <1>3, <1>4, <1>6, <1>9, <1>11 DEF Round
<1>15. /\ SameView(s2, s) /\ SamePulls(s2, s) /\ SamePurges(s2, s)
       /\ s2.pushes = s.pushes /\ s2.pushed = s.pushed /\ s2.skippedPush = s.skippedPush
       /\ s2.pc = "put" /\ s2.obj = {o} /\ s2.blob = file[Home[t]][o]
       /\ s2.expected = rfile[o] /\ s2.import = s.import
  BY <1>6, <1>9 DEF Round, SameView, SamePulls, SamePurges
<1>16. CASE Become(t, s1)
  <2>1. Moved(t, s1) BY <1>0, <1>12, <1>16, BecomeMoves
  <2>2. /\ SameView(s1, r) /\ SamePulls(s1, r) /\ SamePurges(s1, r) /\ SameHand(s1, r)
        /\ s1.pushes = r.pushes \ {o} /\ s1.pushed = r.pushed
        /\ s1.skippedPush = r.skippedPush \cup {o} /\ s1.pc = r.pc
    BY <1>7, <1>13 DEF SameView, SamePulls, SamePurges, SameHand
  <2> QED BY <1>1, <1>12, <2>1, <2>2
<1>17. CASE /\ file[Home[t]][o].rev # 0 /\ LocalRev(Home[t], o) = s.snap[o].rev
            /\ Become(t, s2)
  <2>1. Moved(t, s2) BY <1>0, <1>14, <1>17, BecomeMoves
  <2>2. /\ SameView(s2, r) /\ SamePulls(s2, r) /\ SamePurges(s2, r)
        /\ s2.pushes = r.pushes \ {o} /\ s2.pushed = r.pushed
        /\ s2.skippedPush = r.skippedPush /\ s2.import = r.import
    BY <1>7, <1>15 DEF SameView, SamePulls, SamePurges, SameHand
  <2>3. LocalRev(Home[t], o) = r.snap[o].rev BY <1>7, <1>17 DEF SameView
  <2> QED BY <1>1, <1>14, <1>15, <1>17, <2>1, <2>2, <2>3
<1> QED BY <1>10, <1>16, <1>17

(* The store takes the body in hand, or refuses it. *)
LEMMA PutShape ==
  ASSUME TypeOK, NEW t \in Syncer, Put(t)
  PROVE  \E o \in round[t].obj, q \in Round :
           /\ Moved(t, q) /\ SameView(q, round[t]) /\ SamePulls(q, round[t])
           /\ SamePurges(q, round[t])
           /\ q.pushes = round[t].pushes /\ q.skippedPush = round[t].skippedPush
           /\ \/ /\ rfile[o] = round[t].expected
                 /\ rfile' = [rfile EXCEPT ![o] = round[t].blob]
                 /\ \/ /\ q.pc = "pushTomb" /\ q.pushed = round[t].pushed
                       /\ q.obj = round[t].obj /\ q.blob = round[t].blob
                       /\ q.import = round[t].import
                    \/ /\ q.pc = "transfer" /\ q.pushed = round[t].pushed \cup {o}
                       /\ FreeHand(q)
              \/ /\ rfile[o] # round[t].expected /\ rfile' = rfile
                 /\ q.pc = "resolve" /\ q.pushed = round[t].pushed
                 /\ q.obj = round[t].obj /\ q.blob = round[t].blob
                 /\ q.import = round[t].import
<1>0. round[t] \in Round /\ round \in [Syncer -> Round] BY DEF TypeOK
<1>1. PICK r : r = round[t] OBVIOUS
<1>2. PICK o \in r.obj :
        IF rfile[o] = r.expected
          THEN /\ rfile' = [rfile EXCEPT ![o] = r.blob]
               /\ Become(t, IF o \in Rule \/ PushesDeleted(r, o)
                              THEN [r EXCEPT !.pc = "pushTomb"]
                              ELSE Released([r EXCEPT !.pushed = @ \cup {o}]))
          ELSE /\ Become(t, [r EXCEPT !.pc = "resolve", !.tries = @ + 1])
               /\ UNCHANGED rfile
  BY <1>1 DEF Put
<1>3. o \in Obj BY <1>0, <1>1 DEF Round
<1>4. {"pushTomb", "resolve"} \subseteq Phase BY DEF Phase
<1>5. PICK s1 : s1 = [r EXCEPT !.pc = "pushTomb"] OBVIOUS
<1>6. PICK s2 : s2 = [r EXCEPT !.pushed = @ \cup {o}] OBVIOUS
<1>7. PICK s3 : s3 = [r EXCEPT !.pc = "resolve", !.tries = @ + 1] OBVIOUS
<1>8. PICK q2 : q2 = Released(s2) OBVIOUS
<1>9. \/ /\ rfile[o] = r.expected /\ rfile' = [rfile EXCEPT ![o] = r.blob]
         /\ Become(t, s1) \/ Become(t, q2)
      \/ rfile[o] # r.expected /\ rfile' = rfile /\ Become(t, s3)
  BY <1>2, <1>5, <1>6, <1>7, <1>8
<1>10. s1 \in Round /\ s2 \in Round /\ s3 \in Round
  <2>1. r.tries + 1 \in Nat BY <1>0, <1>1 DEF Round
  <2>2. PICK n : n = r.tries + 1 OBVIOUS
  <2>3. s3 = [r EXCEPT !.pc = "resolve", !.tries = n] BY <1>7, <2>2
  <2>4. s1 \in Round BY ZenonT(60), <1>0, <1>1, <1>4, <1>5 DEF Round
  <2>5. s2 \in Round BY ZenonT(60), <1>0, <1>1, <1>3, <1>6 DEF Round
  <2>6. s3 \in Round BY ZenonT(60), <1>0, <1>1, <1>4, <2>1, <2>2, <2>3 DEF Round
  <2> QED BY <2>4, <2>5, <2>6
<1>11. /\ SameView(s1, r) /\ SamePulls(s1, r) /\ SamePurges(s1, r) /\ SamePushes(s1, r)
       /\ SameHand(s1, r) /\ s1.pc = "pushTomb"
  BY <1>0, <1>1, <1>5 DEF Round, SameView, SamePulls, SamePurges, SamePushes, SameHand
<1>12. /\ SameView(s3, r) /\ SamePulls(s3, r) /\ SamePurges(s3, r) /\ SamePushes(s3, r)
       /\ SameHand(s3, r) /\ s3.pc = "resolve"
  BY <1>0, <1>1, <1>7 DEF Round, SameView, SamePulls, SamePurges, SamePushes, SameHand
<1>13. /\ SameView(s2, r) /\ SamePulls(s2, r) /\ SamePurges(s2, r)
       /\ s2.pushes = r.pushes /\ s2.skippedPush = r.skippedPush
       /\ s2.pushed = r.pushed \cup {o}
  BY <1>0, <1>1, <1>6 DEF Round, SameView, SamePulls, SamePurges
<1>14. /\ q2 \in Round /\ q2.pc = "transfer" /\ FreeHand(q2)
       /\ SameView(q2, s2) /\ SamePulls(q2, s2) /\ SamePushes(q2, s2) /\ SamePurges(q2, s2)
  BY <1>8, <1>10, ReleasedShape
<1>15. /\ SameView(q2, r) /\ SamePulls(q2, r) /\ SamePurges(q2, r)
       /\ q2.pushes = r.pushes /\ q2.skippedPush = r.skippedPush
       /\ q2.pushed = r.pushed \cup {o}
  BY <1>13, <1>14 DEF SameView, SamePulls, SamePurges, SamePushes
<1>16. CASE Become(t, s1) /\ rfile[o] = r.expected /\ rfile' = [rfile EXCEPT ![o] = r.blob]
  <2>1. Moved(t, s1) BY <1>0, <1>10, <1>16, BecomeMoves
  <2> QED BY <1>1, <1>10, <1>11, <1>16, <2>1 DEF SamePushes, SameHand
<1>17. CASE Become(t, q2) /\ rfile[o] = r.expected /\ rfile' = [rfile EXCEPT ![o] = r.blob]
  <2>1. Moved(t, q2) BY <1>0, <1>14, <1>17, BecomeMoves
  <2> QED BY <1>1, <1>14, <1>15, <1>17, <2>1
<1>18. CASE Become(t, s3) /\ rfile[o] # r.expected /\ rfile' = rfile
  <2>1. Moved(t, s3) BY <1>0, <1>10, <1>18, BecomeMoves
  <2> QED BY <1>1, <1>10, <1>12, <1>18, <2>1 DEF SamePushes, SameHand
<1> QED BY <1>9, <1>16, <1>17, <1>18

(* The tombstone follows, and the object is uploaded. *)
LEMMA PushTombShape ==
  ASSUME TypeOK, NEW t \in Syncer, PushTomb(t)
  PROVE  \E o \in round[t].obj, q \in Round :
           /\ Moved(t, q) /\ SameView(q, round[t]) /\ SamePulls(q, round[t])
           /\ SamePurges(q, round[t]) /\ q.pc = "transfer" /\ FreeHand(q)
           /\ q.pushes = round[t].pushes /\ q.skippedPush = round[t].skippedPush
           /\ q.pushed = round[t].pushed \cup {o}
           /\ \E k \in {0, tomb[Home[t]][o], rtomb[o]} : rtomb' = [rtomb EXCEPT ![o] = k]
<1>0. round[t] \in Round /\ round \in [Syncer -> Round] BY DEF TypeOK
<1>1. PICK r : r = round[t] OBVIOUS
<1>2. PICK o \in r.obj :
        /\ rtomb' = [rtomb EXCEPT ![o] =
             CASE ~PushesDeleted(r, o) -> 0
               [] PushesDeleted(r, o) /\ tomb[Home[t]][o] # 0 -> tomb[Home[t]][o]
               [] OTHER -> @]
        /\ Become(t, Released([r EXCEPT !.pushed = @ \cup {o}]))
  BY <1>1 DEF PushTomb
<1>3. o \in Obj BY <1>0, <1>1 DEF Round
<1>4. PICK s : s = [r EXCEPT !.pushed = @ \cup {o}] OBVIOUS
<1>5. PICK q : q = Released(s) OBVIOUS
<1>6. s \in Round BY <1>0, <1>1, <1>3, <1>4 DEF Round
<1>7. /\ SameView(s, r) /\ SamePulls(s, r) /\ SamePurges(s, r)
      /\ s.pushes = r.pushes /\ s.skippedPush = r.skippedPush
      /\ s.pushed = r.pushed \cup {o}
  BY <1>0, <1>1, <1>4 DEF Round, SameView, SamePulls, SamePurges
<1>8. /\ q \in Round /\ q.pc = "transfer" /\ FreeHand(q)
      /\ SameView(q, s) /\ SamePulls(q, s) /\ SamePushes(q, s) /\ SamePurges(q, s)
  BY <1>5, <1>6, ReleasedShape
<1>9. /\ SameView(q, r) /\ SamePulls(q, r) /\ SamePurges(q, r)
      /\ q.pushes = r.pushes /\ q.skippedPush = r.skippedPush
      /\ q.pushed = r.pushed \cup {o}
  BY <1>7, <1>8 DEF SameView, SamePulls, SamePurges, SamePushes
<1>10. Moved(t, q) BY <1>0, <1>2, <1>4, <1>5, <1>8, BecomeMoves
<1>11. \E k \in {0, tomb[Home[t]][o], rtomb[o]} : rtomb' = [rtomb EXCEPT ![o] = k]
  <2>1. CASE ~PushesDeleted(r, o) BY <1>2, <2>1
  <2>2. CASE PushesDeleted(r, o) /\ tomb[Home[t]][o] # 0 BY <1>2, <2>2
  <2>3. CASE PushesDeleted(r, o) /\ tomb[Home[t]][o] = 0 BY <1>2, <2>3
  <2> QED BY <2>1, <2>2, <2>3
<1> QED BY <1>1, <1>8, <1>9, <1>10, <1>11

(* The purge begins with the expired tombstones of the device. *)
LEMMA BeginPurgeShape ==
  ASSUME TypeOK, NEW t \in Syncer, BeginPurge(t)
  PROVE  \E q :
           /\ Moved(t, q) /\ SameView(q, round[t]) /\ SamePulls(q, round[t])
           /\ SamePushes(q, round[t]) /\ SameHand(q, round[t]) /\ q.pc = "purge"
           /\ q.purges = {<<o, tomb[Home[t]][o]>> : o \in Confirmed(Home[t], round[t].base)}
           /\ q.purged = Vanished(Home[t], round[t].base) \ round[t].pushed
           /\ q.condemned = round[t].condemned
                            \cup {<<o, tomb[Home[t]][o]>> : o \in q.purged}
<1>0. round[t] \in Round /\ round \in [Syncer -> Round] BY DEF TypeOK
<1>1. PICK r : r = round[t] OBVIOUS
<1>2. PICK d : d = Home[t] OBVIOUS
<1>3. PICK gone : gone = Vanished(d, r.base) \ r.pushed OBVIOUS
<1>4. PICK olds : olds = {<<o, tomb[d][o]>> : o \in Confirmed(d, r.base)} OBVIOUS
<1>5. PICK news : news = {<<o, tomb[d][o]>> : o \in gone} OBVIOUS
<1>6. PICK q : q = [r EXCEPT !.pc = "purge", !.purges = olds, !.purged = gone,
                             !.condemned = @ \cup news]
  OBVIOUS
<1>7. Become(t, q) BY <1>1, <1>2, <1>3, <1>4, <1>5, <1>6 DEF BeginPurge
<1>8. \A o \in Obj : tomb[d][o] \in Nat BY <1>2, HomeAssumption DEF TypeOK
<1>9. Confirmed(d, r.base) \subseteq Obj /\ gone \subseteq Obj
  BY <1>3 DEF Confirmed, Vanished
<1>10. olds \in SUBSET (Obj \X Nat) /\ news \in SUBSET (Obj \X Nat)
  BY <1>4, <1>5, <1>8, <1>9
<1>11. "purge" \in Phase BY DEF Phase
<1>12. q \in Round BY <1>0, <1>1, <1>6, <1>9, <1>10, <1>11 DEF Round
<1>13. /\ SameView(q, r) /\ SamePulls(q, r) /\ SamePushes(q, r) /\ SameHand(q, r)
       /\ q.pc = "purge" /\ q.purges = olds /\ q.purged = gone
       /\ q.condemned = r.condemned \cup news
  BY <1>0, <1>1, <1>6 DEF Round, SameView, SamePulls, SamePushes, SameHand
<1>14. Moved(t, q) BY <1>0, <1>7, <1>12, BecomeMoves
<1> QED BY <1>1, <1>2, <1>3, <1>4, <1>5, <1>13, <1>14

(* The body goes first ... *)
LEMMA PurgeBodyShape ==
  ASSUME TypeOK, NEW t \in Syncer, PurgeBody(t)
  PROVE  \E p \in round[t].purges : \E q :
           /\ p[1] \in Obj /\ rfile' = [rfile EXCEPT ![p[1]] = NoBlob]
           /\ Moved(t, q) /\ SameView(q, round[t]) /\ SamePulls(q, round[t])
           /\ SamePushes(q, round[t]) /\ SamePurges(q, round[t])
           /\ q.pc = "purgeTomb" /\ q.obj = {p[1]} /\ q.blob = round[t].blob
           /\ q.import = round[t].import
<1>0. round[t] \in Round /\ round \in [Syncer -> Round] BY DEF TypeOK
<1>1. PICK r : r = round[t] OBVIOUS
<1>2. PICK p \in r.purges :
        /\ rfile' = [rfile EXCEPT ![p[1]] = NoBlob]
        /\ Become(t, [r EXCEPT !.pc = "purgeTomb", !.obj = {p[1]}])
  BY <1>1 DEF PurgeBody
<1>3. PICK o : o = p[1] OBVIOUS
<1>4. o \in Obj BY <1>0, <1>1, <1>3 DEF Round
<1>5. PICK q : q = [r EXCEPT !.pc = "purgeTomb", !.obj = {o}] OBVIOUS
<1>6. "purgeTomb" \in Phase BY DEF Phase
<1>7. q \in Round BY ZenonT(60), <1>0, <1>1, <1>4, <1>5, <1>6 DEF Round
<1>8. /\ SameView(q, r) /\ SamePulls(q, r) /\ SamePushes(q, r) /\ SamePurges(q, r)
      /\ q.pc = "purgeTomb" /\ q.obj = {o} /\ q.blob = r.blob /\ q.import = r.import
  BY <1>0, <1>1, <1>5 DEF Round, SameView, SamePulls, SamePushes, SamePurges
<1>9. Moved(t, q) BY <1>0, <1>2, <1>3, <1>5, <1>7, BecomeMoves
<1> QED BY <1>1, <1>2, <1>3, <1>4, <1>8, <1>9

(* ... and the tombstone after it. *)
LEMMA PurgeTombShape ==
  ASSUME TypeOK, NEW t \in Syncer, PurgeTomb(t)
  PROVE  \E o \in round[t].obj : \E q :
           /\ rtomb' = [rtomb EXCEPT ![o] = 0]
           /\ Moved(t, q) /\ SameView(q, round[t]) /\ SamePulls(q, round[t])
           /\ SamePushes(q, round[t]) /\ q.pc = "purge" /\ q.obj = {}
           /\ q.blob = round[t].blob /\ q.import = round[t].import
           /\ q.purges = {p \in round[t].purges : p[1] # o}
           /\ q.purged = round[t].purged \cup {o}
           /\ q.condemned = round[t].condemned \cup {p \in round[t].purges : p[1] = o}
<1>0. round[t] \in Round /\ round \in [Syncer -> Round] BY DEF TypeOK
<1>1. PICK r : r = round[t] OBVIOUS
<1>2. PICK o \in r.obj :
        /\ rtomb' = [rtomb EXCEPT ![o] = 0]
        /\ Become(t, [r EXCEPT !.pc = "purge", !.obj = {},
                        !.purges = @ \ {p \in r.purges : p[1] = o},
                        !.purged = @ \cup {o},
                        !.condemned = @ \cup {p \in r.purges : p[1] = o}])
  BY <1>1 DEF PurgeTomb
<1>3. o \in Obj BY <1>0, <1>1 DEF Round
<1>4. PICK mine : mine = {p \in r.purges : p[1] = o} OBVIOUS
<1>5. PICK rest : rest = {p \in r.purges : p[1] # o} OBVIOUS
<1>6. PICK q : q = [r EXCEPT !.pc = "purge", !.obj = {}, !.purges = rest,
                             !.purged = @ \cup {o}, !.condemned = @ \cup mine]
  OBVIOUS
<1>7. r.purges \in SUBSET (Obj \X Nat) BY <1>0, <1>1 DEF Round
<1>8. mine \in SUBSET (Obj \X Nat) /\ rest \in SUBSET (Obj \X Nat) BY <1>4, <1>5, <1>7
<1>9. r.purges \ mine = rest BY <1>4, <1>5
<1>10. "purge" \in Phase BY DEF Phase
<1>11. q \in Round
  <2>1. PICK c : c = r.condemned \cup mine OBVIOUS
  <2>2. PICK g : g = r.purged \cup {o} OBVIOUS
  <2>3. c \in SUBSET (Obj \X Nat) /\ g \in SUBSET Obj
    BY <1>0, <1>1, <1>3, <1>8, <2>1, <2>2 DEF Round
  <2>4. q = [r EXCEPT !.pc = "purge", !.obj = {}, !.purges = rest, !.purged = g,
                      !.condemned = c]
    BY <1>6, <2>1, <2>2
  <2> QED BY <1>0, <1>1, <1>8, <1>10, <2>3, <2>4 DEF Round
<1>12. /\ SameView(q, r) /\ SamePulls(q, r) /\ SamePushes(q, r)
       /\ q.pc = "purge" /\ q.obj = {} /\ q.blob = r.blob /\ q.import = r.import
       /\ q.purges = rest /\ q.purged = r.purged \cup {o}
       /\ q.condemned = r.condemned \cup mine
  BY <1>0, <1>1, <1>6 DEF Round, SameView, SamePulls, SamePushes
<1>13. Become(t, q) BY <1>2, <1>4, <1>6, <1>9
<1>14. Moved(t, q) BY <1>0, <1>11, <1>13, BecomeMoves
<1>15. /\ q.purges = {p \in round[t].purges : p[1] # o}
       /\ q.condemned = round[t].condemned \cup {p \in round[t].purges : p[1] = o}
  BY <1>1, <1>4, <1>5, <1>12
<1> QED BY <1>1, <1>2, <1>12, <1>14, <1>15

(* Another attempt keeps what was fetched. *)
LEMMA RegetShape ==
  ASSUME TypeOK, NEW t \in Syncer, Reget(t)
  PROVE  \E q : /\ Moved(t, q) /\ q.pc \in {"apply", "plan"}
                /\ SamePulls(q, round[t]) /\ SamePushes(q, round[t])
                /\ SamePurges(q, round[t]) /\ SameHand(q, round[t])
<1>0. round[t] \in Round /\ round \in [Syncer -> Round] BY DEF TypeOK
<1>1. PICK r : r = round[t] OBVIOUS
<1>2. PICK base : base = IF published THEN rindex ELSE EmptyIndex OBVIOUS
<1>3. PICK n : n = r.attempt + 1 OBVIOUS
<1>4. PICK q : q = [r EXCEPT !.pc = "plan", !.attempt = n, !.base = base,
                             !.based = published]
  OBVIOUS
<1>5. Become(t, q) \/ Become(t, [r EXCEPT !.pc = "apply"])
  BY <1>1, <1>2, <1>3, <1>4 DEF Reget
<1>6. base \in Index /\ n \in Nat /\ published \in BOOLEAN
  BY <1>0, <1>1, <1>2, <1>3, NothingType DEF TypeOK, EmptyIndex, Index, Round
<1>7. "plan" \in Phase /\ "apply" \in Phase BY DEF Phase
<1>8. q \in Round BY ZenonT(60), <1>0, <1>1, <1>4, <1>6, <1>7 DEF Round
<1>9. /\ SamePulls(q, r) /\ SamePushes(q, r) /\ SamePurges(q, r) /\ SameHand(q, r)
      /\ q.pc = "plan"
  BY <1>0, <1>1, <1>4 DEF Round, SamePulls, SamePushes, SamePurges, SameHand
<1>10. CASE Become(t, q)
  <2>1. Moved(t, q) BY <1>0, <1>8, <1>10, BecomeMoves
  <2> QED BY <1>1, <1>9, <2>1
<1>11. CASE Become(t, [r EXCEPT !.pc = "apply"])
  BY <1>1, <1>7, <1>11, PhaseShape DEF OnlyPhase
<1> QED BY <1>5, <1>10, <1>11

(***************************************************************************)
(* A conflict ends in another try, in an import of the body found, or in   *)
(* the end of the round.                                                   *)
(***************************************************************************)
LEMMA ResolveShape ==
  ASSUME TypeOK, NEW t \in Syncer, Resolve(t) \/ Arbitrate(t) \/ Refresh(t)
  PROVE  \/ Become(t, NoRound)
         \/ \E o \in round[t].obj : \E q :
              /\ Moved(t, q) /\ SamePurges(q, round[t])
              /\ \/ /\ q.imports = round[t].imports
                    /\ q.obj = round[t].obj /\ q.blob = round[t].blob
                    /\ q.pc \in {"put", "refresh"} \/ (q.pc = "arbitrate" /\ o \in Rule)
                    /\ q.import.blob \in {round[t].import.blob, NoBlob, rfile[o]}
                    /\ q.pc = "arbitrate" => q.import.blob.rev # 0
                 \/ \E i \in Import :
                      /\ InHandOrBuffered(q, round[t], o, i) /\ i.tomb = 0
                      /\ \/ /\ i.blob = rfile[o] /\ i.deleted = i.blob.deleted
                            /\ i.blob.rev # 0
                         \/ i.blob = round[t].import.blob /\ round[t].pc = "arbitrate"
<1>0. round[t] \in Round /\ round \in [Syncer -> Round] BY DEF TypeOK
<1>1. PICK r : r = round[t] OBVIOUS
<1>a. {"put", "refresh", "arbitrate"} \subseteq Phase BY DEF Phase
<1> DEFINE Goal ==
      \/ Become(t, NoRound)
      \/ \E o \in r.obj : \E q :
           /\ Moved(t, q) /\ SamePurges(q, r)
           /\ \/ /\ q.imports = r.imports
                 /\ q.obj = r.obj /\ q.blob = r.blob
                 /\ q.pc \in {"put", "refresh"} \/ (q.pc = "arbitrate" /\ o \in Rule)
                 /\ q.import.blob \in {r.import.blob, NoBlob, rfile[o]}
                 /\ q.pc = "arbitrate" => q.import.blob.rev # 0
              \/ \E i \in Import :
                   /\ InHandOrBuffered(q, r, o, i) /\ i.tomb = 0
                   /\ \/ /\ i.blob = rfile[o] /\ i.deleted = i.blob.deleted
                         /\ i.blob.rev # 0
                      \/ i.blob = r.import.blob /\ r.pc = "arbitrate"
<1> SUFFICES Goal BY <1>1
<1>2. \A o \in r.obj : o \in Obj /\ rfile[o] \in Blob
  BY <1>0, <1>1 DEF Round, TypeOK
<1>b. r.import \in Import /\ r.import.blob \in Blob BY <1>0, <1>1 DEF Round, Import
<1>3. ASSUME NEW o \in r.obj, Retry(t) PROVE Goal
  <2>1. PICK q : q = [r EXCEPT !.pc = "refresh", !.import = NoImport] OBVIOUS
  <2>2. q \in Round BY <1>0, <1>1, <1>a, <2>1, NothingType DEF Round
  <2>3. /\ SamePurges(q, r) /\ q.imports = r.imports /\ q.obj = r.obj /\ q.blob = r.blob
        /\ q.pc = "refresh" /\ q.import = NoImport
    BY <1>0, <1>1, <2>1 DEF Round, SamePurges
  <2>4. Become(t, NoRound) \/ Become(t, q) BY <1>1, <1>3, <2>1 DEF Retry
  <2>5. NoImport.blob = NoBlob BY DEF NoImport
  <2>6. ASSUME Become(t, q) PROVE Moved(t, q) BY <1>0, <2>2, <2>6, BecomeMoves
  <2> QED BY <2>3, <2>4, <2>5, <2>6
<1>4. ASSUME NEW o \in r.obj, NEW i \in Import, Assemble(t, r, o, i), i.tomb = 0,
             \/ i.blob = rfile[o] /\ i.deleted = i.blob.deleted /\ i.blob.rev # 0
             \/ i.blob = r.import.blob /\ r.pc = "arbitrate"
      PROVE  Goal
  <2>1. o \in Obj BY <1>2
  <2>2. PICK q : Moved(t, q) /\ Assembled(q, r, o, i)
    BY <1>0, <1>1, <1>4, <2>1, AssembleShape
  <2> QED BY <1>4, <2>2 DEF Assembled
<1>5. CASE Resolve(t)
  <2>1. PICK o \in r.obj :
          LET b == rfile[o]
          IN  CASE b.rev = 0 ->
                     Become(t, [r EXCEPT !.pc = "put", !.expected = NoBlob]) /\ UNCHANGED fresh
                [] b.rev # 0 /\ o \in Rule ->
                     Become(t, [r EXCEPT !.pc = "arbitrate", !.import.blob = b])
                     /\ UNCHANGED fresh
                [] b.rev # 0 /\ o \in Item /\ Beats(b, r.blob) ->
                     /\ Assemble(t, r, o, [rev |-> b.rev, deleted |-> b.deleted,
                                           blob |-> b, tomb |-> 0])
                     /\ UNCHANGED fresh
                [] b.rev # 0 /\ o \in Item /\ ~Beats(b, r.blob) -> Retry(t)
    BY <1>1, <1>5, Zenon DEF Resolve
  <2>2. PICK b : b = rfile[o] OBVIOUS
  <2>3. o \in Obj /\ b \in Blob BY <1>2, <2>2
  <2>4. o \in Item \/ o \in Rule BY <2>3 DEF Obj
  <2>5. CASE b.rev = 0
    <3>1. PICK q : q = [r EXCEPT !.pc = "put", !.expected = NoBlob] OBVIOUS
    <3>2. q \in Round BY <1>0, <1>1, <1>a, <3>1, NothingType DEF Round
    <3>3. /\ SamePurges(q, r) /\ q.imports = r.imports /\ q.obj = r.obj /\ q.blob = r.blob
          /\ q.pc = "put" /\ q.import = r.import
      BY <1>0, <1>1, <3>1 DEF Round, SamePurges
    <3>4. Become(t, q) BY <2>1, <2>2, <2>5, <3>1
    <3>5. Moved(t, q) BY <1>0, <3>2, <3>4, BecomeMoves
    <3> QED BY <3>3, <3>5
  <2>6. CASE b.rev # 0 /\ o \in Rule
    <3>1. PICK i : i = r.import OBVIOUS
    <3>2. PICK j : j = [i EXCEPT !.blob = b] OBVIOUS
    <3>3. j \in Import /\ j.blob = b BY <1>b, <2>3, <3>1, <3>2 DEF Import
    <3>4. PICK q : q = [r EXCEPT !.pc = "arbitrate", !.import = j] OBVIOUS
    <3>5. q = [r EXCEPT !.pc = "arbitrate", !.import.blob = b]
      BY <1>0, <1>1, <3>1, <3>2, <3>4 DEF Round
    <3>6. q \in Round BY <1>0, <1>1, <1>a, <3>3, <3>4 DEF Round
    <3>7. /\ SamePurges(q, r) /\ q.imports = r.imports /\ q.obj = r.obj /\ q.blob = r.blob
          /\ q.pc = "arbitrate" /\ q.import = j
      BY <1>0, <1>1, <3>4 DEF Round, SamePurges
    <3>8. Become(t, q) BY <2>1, <2>2, <2>6, <3>5, KindsAssumption
    <3>9. Moved(t, q) BY <1>0, <3>6, <3>8, BecomeMoves
    <3> QED BY <2>2, <2>6, <3>3, <3>7, <3>9
  <2>7. CASE b.rev # 0 /\ o \in Item /\ Beats(b, r.blob)
    <3>1. PICK i : i = [rev |-> b.rev, deleted |-> b.deleted, blob |-> b, tomb |-> 0]
      OBVIOUS
    <3>2. i \in Import BY <2>3, <3>1 DEF Import, Blob
    <3>3. i.tomb = 0 /\ i.blob = b /\ i.deleted = b.deleted BY <3>1
    <3>4. Assemble(t, r, o, i) BY <2>1, <2>2, <2>7, <3>1, KindsAssumption
    <3> QED BY <1>4, <2>2, <2>7, <3>2, <3>3, <3>4
  <2>8. CASE b.rev # 0 /\ o \in Item /\ ~Beats(b, r.blob)
    <3>1. Retry(t) BY <2>1, <2>2, <2>8, KindsAssumption
    <3> QED BY <1>3, <3>1
  <2> QED BY <2>4, <2>5, <2>6, <2>7, <2>8
<1>6. CASE Arbitrate(t)
  <2>1. PICK o \in r.obj :
          LET e == IF published THEN rindex[o] ELSE Absent
          IN  IF r.snap[o].rev > e.rev
                THEN Retry(t)
                ELSE /\ Assemble(t, r, o, [rev |-> e.rev, deleted |-> e.deleted,
                                           blob |-> r.import.blob, tomb |-> 0])
                     /\ UNCHANGED fresh
    BY <1>1, <1>6 DEF Arbitrate
  <2>2. PICK e : e = IF published THEN rindex[o] ELSE Absent OBVIOUS
  <2>3. e \in Entry BY <1>2, <2>2, NothingType DEF TypeOK, Index
  <2>4. PICK i : i = [rev |-> e.rev, deleted |-> e.deleted, blob |-> r.import.blob,
                      tomb |-> 0]
    OBVIOUS
  <2>5. i \in Import BY <1>b, <2>3, <2>4 DEF Import, Entry
  <2>6. i.tomb = 0 /\ i.blob = r.import.blob BY <2>4
  <2>7. Retry(t) \/ Assemble(t, r, o, i) BY <2>1, <2>2, <2>4
  <2>8. r.pc = "arbitrate" BY <1>1, <1>6 DEF Arbitrate, At
  <2> QED BY <1>3, <1>4, <2>5, <2>6, <2>7, <2>8
<1>7. CASE Refresh(t)
  <2>1. PICK o \in r.obj : Become(t, [r EXCEPT !.pc = "put", !.expected = rfile[o]])
    BY <1>1, <1>7 DEF Refresh
  <2>2. PICK q : q = [r EXCEPT !.pc = "put", !.expected = rfile[o]] OBVIOUS
  <2>3. q \in Round BY <1>0, <1>1, <1>2, <1>a, <2>2 DEF Round
  <2>4. /\ SamePurges(q, r) /\ q.imports = r.imports /\ q.obj = r.obj /\ q.blob = r.blob
        /\ q.pc = "put" /\ q.import = r.import
    BY <1>0, <1>1, <2>2 DEF Round, SamePurges
  <2>5. Moved(t, q) BY <1>0, <2>1, <2>2, <2>3, BecomeMoves
  <2> QED BY <2>4, <2>5
<1> QED BY <1>5, <1>6, <1>7

-----------------------------------------------------------------------------
(***************************************************************************)
(* Bodies and tombstones in circulation.  A round only carries what it has *)
(* found: every body and every tombstone on a device, in the store or in a *)
(* round was made by an edit, so what holds of the edits holds of them.    *)
(***************************************************************************)

(* The bodies of o that exist anywhere ... *)
Bodies(o) ==
  {NoBlob, rfile[o]} \cup {file[d][o] : d \in Device}
    \cup {round[t].imports[o].blob : t \in Syncer}
    \cup {round[t].blob : t \in {s \in Syncer : o \in round[s].obj}}
    \cup {round[t].import.blob : t \in {s \in Syncer : o \in round[s].obj}}

(* ... and its tombstones. *)
Stones(o) ==
  {0, rtomb[o]} \cup {tomb[d][o] : d \in Device}
    \cup {round[t].imports[o].tomb : t \in Syncer}

(* The phases in which a round has a body in hand. *)
HandPhase == {"listTomb", "fetchTomb", "put", "resolve", "arbitrate", "refresh", "pushTomb"}

(***************************************************************************)
(* A round has one object in hand, and a body only while it handles one; an *)
(* import that waits for its tombstone is of a deleted item; only rules    *)
(* are arbitrated by the index.                                            *)
(***************************************************************************)
HandFits(r) ==
  /\ r.pc \notin HandPhase => r.blob = NoBlob
  /\ r.pc \notin HandPhase \ {"listTomb"} => r.import.blob = NoBlob
  /\ r.pc = "fetchTomb" => \A o \in r.obj \cap Item : r.import.blob.deleted
  /\ r.pc = "arbitrate" => r.obj \subseteq Rule
  /\ \A o, p \in r.obj : o = p

(* What is purged, or will be deleted for good, was deleted 30 days ago. *)
PurgesFit(r) == \A p \in r.purges \cup r.condemned : Expired(p[2])

RoundsFit == \A t \in Syncer : HandFits(round[t]) /\ PurgesFit(round[t])

(* Where a body or a tombstone may be found. *)
LEMMA WhereBodies ==
  ASSUME NEW o \in Obj
  PROVE  /\ NoBlob \in Bodies(o) /\ rfile[o] \in Bodies(o)
         /\ \A d \in Device : file[d][o] \in Bodies(o)
         /\ \A t \in Syncer : round[t].imports[o].blob \in Bodies(o)
         /\ \A t \in Syncer : o \in round[t].obj =>
              round[t].blob \in Bodies(o) /\ round[t].import.blob \in Bodies(o)
  BY DEF Bodies

(* Where a tombstone may be found. *)
LEMMA WhereStones ==
  ASSUME NEW o \in Obj
  PROVE  /\ 0 \in Stones(o) /\ rtomb[o] \in Stones(o)
         /\ \A d \in Device : tomb[d][o] \in Stones(o)
         /\ \A t \in Syncer : round[t].imports[o].tomb \in Stones(o)
  BY DEF Stones

(* Bodies are bodies, tombstones revisions. *)
LEMMA CirculationType ==
  ASSUME TypeOK, NEW o \in Obj
  PROVE  Bodies(o) \subseteq Blob /\ Stones(o) \subseteq Nat
<1>1. ASSUME NEW t \in Syncer
      PROVE  /\ round[t].imports[o].blob \in Blob /\ round[t].imports[o].tomb \in Nat
             /\ round[t].blob \in Blob /\ round[t].import.blob \in Blob
  <2>1. /\ round[t].imports \in [Obj -> Import] /\ round[t].blob \in Blob
        /\ round[t].import \in Import
    BY DEF TypeOK, Round
  <2>2. round[t].imports[o] \in Import BY <2>1
  <2>3. ASSUME NEW i \in Import PROVE i.blob \in Blob /\ i.tomb \in Nat BY DEF Import
  <2> QED BY <2>1, <2>2, <2>3
<1>2. /\ rfile[o] \in Blob /\ rtomb[o] \in Nat
      /\ \A d \in Device : file[d][o] \in Blob /\ tomb[d][o] \in Nat
  BY DEF TypeOK
<1> QED BY <1>1, <1>2, NothingType DEF Bodies, Stones

(* The revisions of the deleted bodies of o. *)
DeadRevs(o) == {b.rev : b \in {c \in Bodies(o) : c.deleted}}

(***************************************************************************)
(* State q of a round whose state was r, at a device, holds only what was  *)
(* there.  The tombstone a round makes up for an item is the revision of   *)
(* its deleted body; for a rule, the one in the index.                     *)
(***************************************************************************)
Carried(q, r, o) ==
  /\ q.imports[o].blob \in Bodies(o)
  /\ o \in q.obj => q.blob \in Bodies(o) /\ q.import.blob \in Bodies(o)
  /\ \/ q.imports[o].tomb \in Stones(o) \cup DeadRevs(o)
     \/ o \in Rule /\ o \in r.obj /\ r.pc = "fetchTomb" /\ q.imports[o].tomb = r.import.rev

(* A round that keeps what it has carries only what was there. *)
LEMMA KeptIsCarried ==
  ASSUME NEW t \in Syncer, NEW q, q.imports = round[t].imports,
         q.obj = round[t].obj \/ q.obj = {},
         q.blob \in {NoBlob, round[t].blob},
         q.import.blob \in {NoBlob, round[t].import.blob}
  PROVE  \A o \in Obj : Carried(q, round[t], o)
  BY WhereBodies, WhereStones DEF Carried

(* So does one that takes an import of o in hand, or buffers it. *)
LEMMA AssembledIsCarried ==
  ASSUME TypeOK, NEW t \in Syncer, HandFits(round[t]), NEW q, NEW o \in Obj, NEW i \in Import,
         InHandOrBuffered(q, round[t], o, i), i.tomb = 0,
         i.blob \in Bodies(o), o \in Item => i.deleted = i.blob.deleted,
         round[t].blob = NoBlob \/ o \in round[t].obj
  PROVE  HandFits(q) /\ \A p \in Obj : Carried(q, round[t], p)
<1>0. round[t].imports \in [Obj -> Import] BY DEF TypeOK, Round
<1>1. CASE /\ i.deleted /\ q.pc = "fetchTomb"
           /\ q.obj = {o} /\ q.blob = round[t].blob /\ q.import = i
           /\ q.imports = round[t].imports
  BY <1>1, WhereBodies, WhereStones DEF Carried, HandFits, HandPhase
<1>2. CASE /\ ~i.deleted /\ q.pc = "transfer"
           /\ FreeHand(q) /\ q.imports = [round[t].imports EXCEPT ![o] = i]
  <2>1. NoImport.blob = NoBlob BY DEF NoImport
  <2>2. HandFits(q) BY <1>2, <2>1 DEF HandFits, HandPhase, FreeHand
  <2>3. q.imports[o] = i /\ \A p \in Obj : p # o => q.imports[p] = round[t].imports[p]
    BY <1>0, <1>2
  <2> QED BY <1>2, <2>2, <2>3, WhereBodies, WhereStones DEF Carried, FreeHand
<1> QED BY <1>1, <1>2 DEF InHandOrBuffered

(* What the next step of round t makes of it. *)
CarriesOn(t) ==
  \E q : Moved(t, q) /\ HandFits(q) /\ \A o \in Obj : Carried(q, round[t], o)

(* Starting, listing and planning carry nothing new ... *)
LEMMA PlanningCarries ==
  ASSUME TypeOK, NEW t \in Syncer, HandFits(round[t]),
         \/ StartRound(t) \/ ListBody(t) \/ ListTomb(t) \/ ListDone(t) \/ Plan(t)
  PROVE  CarriesOn(t)
<1>a. NoImport.blob = NoBlob /\ NoImport.tomb = 0 BY DEF NoImport
<1>1. CASE StartRound(t)
  <2>1. PICK q : /\ Moved(t, q) /\ FreeHand(q) /\ q.imports = [o \in Obj |-> NoImport]
                 /\ q.pc \in {"plan", "list"}
    BY <1>1, StartShape
  <2>2. HandFits(q) BY <1>a, <2>1 DEF HandFits, HandPhase, FreeHand
  <2>3. \A o \in Obj : Carried(q, round[t], o)
    BY <1>a, <2>1, WhereBodies, WhereStones DEF Carried, FreeHand
  <2> QED BY <2>1, <2>2, <2>3 DEF CarriesOn
<1>2. CASE ListBody(t) \/ ListTomb(t)
  <2>1. round[t].import.blob = NoBlob
    BY <1>2 DEF ListBody, ListTomb, At, HandFits, HandPhase
  <2>2. PICK q :
          /\ Moved(t, q) /\ q.imports = round[t].imports /\ q.import = round[t].import
          /\ \/ q.obj = round[t].obj /\ q.blob = round[t].blob /\ q.pc = round[t].pc
             \/ q.obj = {} /\ q.blob = NoBlob /\ q.pc = "list"
             \/ \E o \in Obj : q.obj = {o} /\ q.blob = rfile[o] /\ q.pc = "listTomb"
    BY <1>2, ListShape
  <2>3. HandFits(q) BY <2>1, <2>2 DEF HandFits, HandPhase
  <2>4. \A o \in Obj : Carried(q, round[t], o)
    BY <2>1, <2>2, WhereBodies, WhereStones DEF Carried
  <2> QED BY <2>2, <2>3, <2>4 DEF CarriesOn
<1>3. CASE ListDone(t)
  <2>1. Become(t, [round[t] EXCEPT !.pc = "plan"]) /\ round[t].pc = "list"
    BY <1>3 DEF ListDone, At
  <2>2. "plan" \in Phase BY DEF Phase
  <2>3. PICK q : Moved(t, q) /\ q.pc = "plan" /\ OnlyPhase(q, round[t])
    BY <2>1, <2>2, PhaseShape
  <2>4. HandFits(q) BY <2>1, <2>3 DEF HandFits, HandPhase, OnlyPhase, SameHand
  <2>5. \A o \in Obj : Carried(q, round[t], o)
    BY <2>3, KeptIsCarried DEF OnlyPhase, SameHand, SamePulls
  <2> QED BY <2>3, <2>4, <2>5 DEF CarriesOn
<1>4. CASE Plan(t)
  <2>1. PICK q : /\ Moved(t, q) /\ q.pc = "transfer" /\ q.imports = round[t].imports
                 /\ SameHand(q, round[t])
    BY <1>4, PlanShape
  <2>2. round[t].pc = "plan" BY <1>4 DEF Plan, At
  <2>3. HandFits(q) BY <2>1, <2>2 DEF HandFits, HandPhase, SameHand
  <2>4. \A o \in Obj : Carried(q, round[t], o) BY <2>1, KeptIsCarried DEF SameHand
  <2> QED BY <2>1, <2>3, <2>4 DEF CarriesOn
<1> QED BY <1>1, <1>2, <1>3, <1>4

(* ... a pull the body it finds, with the tombstone it finds or makes up ... *)
LEMMA PullingCarries ==
  ASSUME TypeOK, NEW t \in Syncer, HandFits(round[t]), Pull(t) \/ FetchTomb(t)
  PROVE  CarriesOn(t)
<1>0. round[t] \in Round BY DEF TypeOK
<1>1. CASE Pull(t)
  <2>1. round[t].pc = "transfer" BY <1>1 DEF Pull, At
  <2>2. round[t].blob = NoBlob BY <2>1 DEF HandFits, HandPhase
  <2>3. PICK o \in round[t].pulls, q \in Round :
          /\ Moved(t, q)
          /\ \/ q.imports = round[t].imports /\ q.pc = round[t].pc /\ SameHand(q, round[t])
             \/ InHandOrBuffered(q, round[t], o,
                                 PulledImport(o, rfile[o], round[t].base[o]))
    BY <1>1, PullShape
  <2>4. o \in Obj BY <1>0 DEF Round
  <2>5. rfile[o] \in Blob /\ round[t].base[o] \in Entry
    BY <1>0, <2>4 DEF TypeOK, Round, Index
  <2>6. PICK i : i = PulledImport(o, rfile[o], round[t].base[o]) OBVIOUS
  <2>7. i \in Import BY <2>5, <2>6 DEF PulledImport, Import, Entry, Blob
  <2>8. i.tomb = 0 /\ i.blob = rfile[o] /\ (o \in Item => i.deleted = i.blob.deleted)
    BY <2>6 DEF PulledImport
  <2>9. i.blob \in Bodies(o) BY <2>4, <2>8, WhereBodies
  <2>10. CASE q.imports = round[t].imports /\ q.pc = round[t].pc /\ SameHand(q, round[t])
    <3>1. HandFits(q) BY <2>1, <2>10 DEF HandFits, HandPhase, SameHand
    <3>2. \A p \in Obj : Carried(q, round[t], p) BY <2>10, KeptIsCarried DEF SameHand
    <3> QED BY <2>3, <3>1, <3>2 DEF CarriesOn
  <2>11. CASE InHandOrBuffered(q, round[t], o, i)
    <3>1. HandFits(q) /\ \A p \in Obj : Carried(q, round[t], p)
      BY <2>2, <2>4, <2>7, <2>8, <2>9, <2>11, AssembledIsCarried
    <3> QED BY <2>3, <3>1 DEF CarriesOn
  <2> QED BY <2>3, <2>6, <2>10, <2>11
<1>2. CASE FetchTomb(t)
  <2>1. round[t].pc = "fetchTomb" BY <1>2 DEF FetchTomb, At
  <2>2. PICK o \in round[t].obj, j \in Import : \E q :
          /\ Moved(t, q) /\ q.pc = "transfer" /\ FreeHand(q)
          /\ q.imports = [round[t].imports EXCEPT ![o] = j]
          /\ j.blob = round[t].import.blob
          /\ j.tomb = IF rtomb[o] # 0 THEN rtomb[o]
                      ELSE IF o \in Item THEN round[t].import.blob.rev
                                         ELSE round[t].import.rev
    BY <1>2, FetchTombShape
  <2>3. PICK q :
          /\ Moved(t, q) /\ q.pc = "transfer" /\ FreeHand(q)
          /\ q.imports = [round[t].imports EXCEPT ![o] = j]
    BY <2>2
  <2>4. o \in Obj /\ round[t].imports \in [Obj -> Import] BY <1>0 DEF Round
  <2>5. NoImport.blob = NoBlob BY DEF NoImport
  <2>6. HandFits(q) BY <2>3, <2>5 DEF HandFits, HandPhase, FreeHand
  <2>7. q.imports[o] = j /\ \A p \in Obj : p # o => q.imports[p] = round[t].imports[p]
    BY <2>3, <2>4
  <2>8. j.blob \in Bodies(o) BY <2>2, <2>4, WhereBodies
  <2>9. o \in Item => j.tomb \in Stones(o) \cup DeadRevs(o)
    <3> SUFFICES ASSUME o \in Item PROVE j.tomb \in Stones(o) \cup DeadRevs(o) OBVIOUS
    <3>1. round[t].import.blob.deleted BY <2>1 DEF HandFits
    <3>2. round[t].import.blob.rev \in DeadRevs(o)
      BY <2>4, <3>1, WhereBodies DEF DeadRevs
    <3> QED BY <2>2, <2>4, <3>2, WhereStones
  <2>10. o \in Rule => \/ j.tomb \in Stones(o)
                       \/ j.tomb = round[t].import.rev
    BY <2>2, <2>4, WhereStones, KindsAssumption
  <2>11. Carried(q, round[t], o)
    BY <2>1, <2>2, <2>3, <2>4, <2>7, <2>8, <2>9, <2>10 DEF Carried, FreeHand, Obj
  <2>12. \A p \in Obj : p # o => Carried(q, round[t], p)
    BY <2>3, <2>7, WhereBodies, WhereStones DEF Carried, FreeHand
  <2> QED BY <2>3, <2>4, <2>6, <2>11, <2>12 DEF CarriesOn
<1> QED BY <1>1, <1>2

(* ... an upload the body the device holds ... *)
LEMMA PushingCarries ==
  ASSUME TypeOK, NEW t \in Syncer, HandFits(round[t]),
         BeginPush(t) \/ Put(t) \/ PushTomb(t)
  PROVE  CarriesOn(t)
<1>0. round[t] \in Round BY DEF TypeOK
<1>a. NoImport.blob = NoBlob BY DEF NoImport
<1>1. CASE BeginPush(t)
  <2>1. round[t].pc = "transfer" BY <1>1 DEF BeginPush, At
  <2>2. PICK o \in round[t].pushes, q \in Round :
          /\ Moved(t, q) /\ SamePulls(q, round[t])
          /\ \/ q.pc = round[t].pc /\ SameHand(q, round[t])
             \/ /\ q.pc = "put" /\ q.obj = {o} /\ q.blob = file[Home[t]][o]
                /\ q.import = round[t].import
    BY <1>1, BeginPushShape
  <2>3. o \in Obj /\ Home[t] \in Device BY <1>0, HomeAssumption DEF Round
  <2>4. round[t].import.blob = NoBlob BY <2>1 DEF HandFits, HandPhase
  <2>5. CASE q.pc = round[t].pc /\ SameHand(q, round[t])
    <3>1. HandFits(q) BY <2>1, <2>5 DEF HandFits, HandPhase, SameHand
    <3>2. \A p \in Obj : Carried(q, round[t], p)
      BY <2>2, <2>5, KeptIsCarried DEF SameHand, SamePulls
    <3> QED BY <2>2, <3>1, <3>2 DEF CarriesOn
  <2>6. CASE /\ q.pc = "put" /\ q.obj = {o} /\ q.blob = file[Home[t]][o]
             /\ q.import = round[t].import
    <3>1. HandFits(q) BY <2>4, <2>6 DEF HandFits, HandPhase
    <3>2. \A p \in Obj : Carried(q, round[t], p)
      BY <2>2, <2>3, <2>4, <2>6, WhereBodies, WhereStones DEF Carried, SamePulls
    <3> QED BY <2>2, <3>1, <3>2 DEF CarriesOn
  <2> QED BY <2>2, <2>5, <2>6
<1>2. CASE Put(t)
  <2>1. PICK q :
          /\ Moved(t, q) /\ SamePulls(q, round[t])
          /\ \/ /\ q.pc \in {"pushTomb", "resolve"}
                /\ q.obj = round[t].obj /\ q.blob = round[t].blob
                /\ q.import = round[t].import
             \/ q.pc = "transfer" /\ FreeHand(q)
    BY <1>2, PutShape
  <2>2. HandFits(q) BY <1>a, <2>1 DEF HandFits, HandPhase, FreeHand
  <2>3. \A p \in Obj : Carried(q, round[t], p)
    BY <1>a, <2>1, KeptIsCarried DEF FreeHand, SamePulls
  <2> QED BY <2>1, <2>2, <2>3 DEF CarriesOn
<1>3. CASE PushTomb(t)
  <2>1. PICK q : Moved(t, q) /\ SamePulls(q, round[t]) /\ q.pc = "transfer" /\ FreeHand(q)
    BY <1>3, PushTombShape
  <2>2. HandFits(q) BY <1>a, <2>1 DEF HandFits, HandPhase, FreeHand
  <2>3. \A p \in Obj : Carried(q, round[t], p)
    BY <1>a, <2>1, KeptIsCarried DEF FreeHand, SamePulls
  <2> QED BY <2>1, <2>2, <2>3 DEF CarriesOn
<1> QED BY <1>1, <1>2, <1>3

(* ... one that is given up nothing at all ... *)
LEMMA GivingUpCarries ==
  ASSUME TypeOK, NEW t \in Syncer, Become(t, NoRound)
  PROVE  CarriesOn(t)
<1>0. round \in [Syncer -> Round] BY DEF TypeOK
<1>1. PICK q : q = NoRound OBVIOUS
<1>2. /\ q.imports = [o \in Obj |-> NoImport] /\ q.obj = {} /\ q.blob = NoBlob
      /\ q.import.blob = NoBlob /\ q.pc = "idle" /\ NoImport.blob = NoBlob
      /\ NoImport.tomb = 0
  BY <1>1 DEF NoRound, NoImport
<1>3. Moved(t, q) BY <1>0, <1>1, NoRoundType, BecomeMoves
<1>4. HandFits(q) BY <1>2 DEF HandFits, HandPhase
<1>5. \A o \in Obj : Carried(q, round[t], o)
  BY <1>2, WhereBodies, WhereStones DEF Carried
<1> QED BY <1>3, <1>4, <1>5 DEF CarriesOn

(* ... a conflict the body it runs into ... *)
LEMMA ResolvingCarries ==
  ASSUME TypeOK, NEW t \in Syncer, HandFits(round[t]),
         Resolve(t) \/ Arbitrate(t) \/ Refresh(t)
  PROVE  CarriesOn(t)
<1>0. round[t] \in Round /\ round \in [Syncer -> Round] BY DEF TypeOK
<1>1. CASE Become(t, NoRound) BY <1>1, GivingUpCarries
<1>2. CASE ~Become(t, NoRound)
  <2>1. PICK o \in round[t].obj, q \in Round :
          /\ Moved(t, q)
          /\ \/ /\ q.imports = round[t].imports
                /\ q.obj = round[t].obj /\ q.blob = round[t].blob
                /\ q.pc \in {"put", "refresh"} \/ (q.pc = "arbitrate" /\ o \in Rule)
                /\ q.import.blob \in {round[t].import.blob, NoBlob, rfile[o]}
             \/ \E i \in Import :
                  /\ InHandOrBuffered(q, round[t], o, i) /\ i.tomb = 0
                  /\ \/ i.blob = rfile[o] /\ i.deleted = i.blob.deleted
                     \/ i.blob = round[t].import.blob /\ round[t].pc = "arbitrate"
    BY <1>2, ResolveShape DEF Moved
  <2>2. o \in Obj BY <1>0 DEF Round
  <2>3. \A p \in round[t].obj : p = o BY DEF HandFits
  <2>4. CASE /\ q.imports = round[t].imports
             /\ q.obj = round[t].obj /\ q.blob = round[t].blob
             /\ q.pc \in {"put", "refresh"} \/ (q.pc = "arbitrate" /\ o \in Rule)
             /\ q.import.blob \in {round[t].import.blob, NoBlob, rfile[o]}
    <3>1. HandFits(q) BY <2>3, <2>4 DEF HandFits, HandPhase
    <3>2. \A p \in Obj : Carried(q, round[t], p)
      BY <2>3, <2>4, WhereBodies, WhereStones DEF Carried
    <3> QED BY <2>1, <3>1, <3>2 DEF CarriesOn
  <2>5. ASSUME NEW i \in Import, InHandOrBuffered(q, round[t], o, i), i.tomb = 0,
               \/ i.blob = rfile[o] /\ i.deleted = i.blob.deleted
               \/ i.blob = round[t].import.blob /\ round[t].pc = "arbitrate"
        PROVE  CarriesOn(t)
    <3>1. i.blob \in Bodies(o) BY <2>2, <2>5, WhereBodies
    <3>2. o \in Item => i.deleted = i.blob.deleted
      BY <2>5, KindsAssumption DEF HandFits
    <3>3. HandFits(q) /\ \A p \in Obj : Carried(q, round[t], p)
      BY <2>2, <2>5, <3>1, <3>2, AssembledIsCarried
    <3> QED BY <2>1, <3>3 DEF CarriesOn
  <2> QED BY <2>1, <2>4, <2>5
<1> QED BY <1>1, <1>2

(* ... and a purge, the index and the apply phase nothing new either. *)
LEMMA FinishingCarries ==
  ASSUME TypeOK, NEW t \in Syncer, HandFits(round[t]),
         \/ BeginPurge(t) \/ PurgeBody(t) \/ PurgeTomb(t) \/ PutIndex(t) \/ Reget(t)
         \/ Apply(t) \/ Abandon(t)
  PROVE  CarriesOn(t)
<1>0. round[t] \in Round /\ round \in [Syncer -> Round] BY DEF TypeOK
<1>1. CASE BeginPurge(t)
  <2>1. PICK q : /\ Moved(t, q) /\ SamePulls(q, round[t]) /\ SameHand(q, round[t])
                 /\ q.pc = "purge"
    BY <1>1, BeginPurgeShape
  <2>2. round[t].pc = "transfer" BY <1>1 DEF BeginPurge, At
  <2>3. HandFits(q) BY <2>1, <2>2 DEF HandFits, HandPhase, SameHand
  <2>4. \A p \in Obj : Carried(q, round[t], p)
    BY <2>1, KeptIsCarried DEF SameHand, SamePulls
  <2> QED BY <2>1, <2>3, <2>4 DEF CarriesOn
<1>2. CASE PurgeBody(t) \/ PurgeTomb(t)
  <2>1. round[t].pc \in {"purge", "purgeTomb"} BY <1>2 DEF PurgeBody, PurgeTomb, At
  <2>2. PICK q : /\ Moved(t, q) /\ SamePulls(q, round[t]) /\ q.blob = round[t].blob
                 /\ q.import = round[t].import
                 /\ \/ q.pc = "purge" /\ q.obj = {}
                    \/ q.pc = "purgeTomb" /\ \E o \in Obj : q.obj = {o}
    <3>1. CASE PurgeBody(t) BY <3>1, PurgeBodyShape
    <3>2. CASE PurgeTomb(t) BY <3>2, PurgeTombShape
    <3> QED BY <1>2, <3>1, <3>2
  <2>3. round[t].blob = NoBlob /\ round[t].import.blob = NoBlob
    BY <2>1 DEF HandFits, HandPhase
  <2>4. HandFits(q) BY <2>2, <2>3 DEF HandFits, HandPhase
  <2>5. \A p \in Obj : Carried(q, round[t], p)
    BY <2>2, <2>3, WhereBodies, WhereStones DEF Carried, SamePulls
  <2> QED BY <2>2, <2>4, <2>5 DEF CarriesOn
<1>3. CASE PutIndex(t) \/ Reget(t)
  <2>1. round[t].pc \in {"purge", "reget"} BY <1>3 DEF PutIndex, Reget, At
  <2>2. PICK q : /\ Moved(t, q) /\ SamePulls(q, round[t]) /\ SameHand(q, round[t])
                 /\ q.pc \in {"apply", "reget", "plan"}
    <3>1. CASE PutIndex(t)
      <4>1. PICK p \in {"apply", "reget"} : Become(t, [round[t] EXCEPT !.pc = p])
        BY <3>1 DEF PutIndex
      <4>2. p \in Phase BY DEF Phase
      <4> QED BY <4>1, <4>2, PhaseShape DEF OnlyPhase
    <3>2. CASE Reget(t) BY <3>2, RegetShape
    <3> QED BY <1>3, <3>1, <3>2
  <2>3. HandFits(q) BY <2>1, <2>2 DEF HandFits, HandPhase, SameHand
  <2>4. \A p \in Obj : Carried(q, round[t], p)
    BY <2>2, KeptIsCarried DEF SameHand, SamePulls
  <2> QED BY <2>2, <2>3, <2>4 DEF CarriesOn
<1>4. CASE Apply(t) \/ Abandon(t)
  <2>1. Become(t, NoRound) BY <1>4 DEF Apply, Abandon
  <2> QED BY <2>1, GivingUpCarries
<1> QED BY <1>1, <1>2, <1>3, <1>4

(* A round carries only what was there, whatever its step. *)
LEMMA RoundCarries ==
  ASSUME TypeOK, NEW t \in Syncer, HandFits(round[t]),
         StartRound(t) \/ Advance(t) \/ Abandon(t)
  PROVE  CarriesOn(t)
  BY PlanningCarries, PullingCarries, PushingCarries, ResolvingCarries, FinishingCarries
     DEF Advance

-----------------------------------------------------------------------------
(***************************************************************************)
(* The apply phase, object by object: what the device holds of o once the  *)
(* import has been arbitrated, and what is left after the hard deletions.  *)
(***************************************************************************)
Arbitrated(t, o, f, e, s) ==
  LET d == Home[t]
      i == round[t].imports[o]
  IN  \/ f = file[d][o] /\ e = index[d][o] /\ s = tomb[d][o]
      \/ /\ i.rev # 0 /\ RemoteWins(d, o, i)
         /\ f = i.blob /\ e = ImportedEntry(o, i)
         /\ s = IF i.tomb # 0 THEN i.tomb ELSE tomb[d][o]

(* After the step, device d holds of o body f, entry e and tombstone s. *)
HoldsNow(d, o, f, e, s) == file'[d][o] = f /\ index'[d][o] = e /\ tomb'[d][o] = s

(* After Apply each object of the device is as arbitrated, or hard-deleted. *)
LEMMA ApplyShape ==
  ASSUME TypeOK, NEW t \in Syncer, Apply(t), NEW o \in Obj
  PROVE  /\ \A c \in Device : c # Home[t] => HoldsNow(c, o, file[c][o], index[c][o], tomb[c][o])
         /\ \E f \in Blob, e \in Entry, s \in Nat :
              /\ Arbitrated(t, o, f, e, s)
              /\ \/ HoldsNow(Home[t], o, f, e, s)
                 \/ /\ HoldsNow(Home[t], o, NoBlob, Absent, 0)
                    /\ \E p \in round[t].condemned : p[1] = o /\ StillDead(o, p[2], f, e, s)
<1> DEFINE d    == Home[t]
           imp  == round[t].imports
           wins == {p \in Obj : imp[p].rev # 0 /\ RemoteWins(d, p, imp[p])}
           newFile  == [p \in Obj |-> IF p \in wins THEN imp[p].blob ELSE file[d][p]]
           newIndex == [p \in Obj |-> IF p \in wins THEN ImportedEntry(p, imp[p])
                                                    ELSE index[d][p]]
           newTomb  == [p \in Obj |-> IF p \in wins /\ imp[p].tomb # 0
                                        THEN imp[p].tomb ELSE tomb[d][p]]
           dead == {p \in Obj : \E c \in round[t].condemned :
                      c[1] = p /\ StillDead(p, c[2], newFile[p], newIndex[p], newTomb[p])}
<1>1. d \in Device BY HomeAssumption
<1>2. /\ file \in [Device -> [Obj -> Blob]] /\ index \in [Device -> [Obj -> Entry]]
      /\ tomb \in [Device -> [Obj -> Nat]] /\ imp \in [Obj -> Import]
  BY DEF TypeOK, Index, Round
<1>3. /\ file'  = [file EXCEPT ![d] = [p \in Obj |-> IF p \in dead THEN NoBlob ELSE newFile[p]]]
      /\ index' = [index EXCEPT ![d] = [p \in Obj |-> IF p \in dead THEN Absent ELSE newIndex[p]]]
      /\ tomb'  = [tomb EXCEPT ![d] = [p \in Obj |-> IF p \in dead THEN 0 ELSE newTomb[p]]]
  BY DEF Apply
<1>4. imp[o] \in Import BY <1>2
<1>6. o \in wins => imp[o].rev # 0 /\ RemoteWins(d, o, imp[o]) OBVIOUS
<1>7. /\ newFile[o] = IF o \in wins THEN imp[o].blob ELSE file[d][o]
      /\ newIndex[o] = IF o \in wins THEN ImportedEntry(o, imp[o]) ELSE index[d][o]
      /\ newTomb[o] = IF o \in wins /\ imp[o].tomb # 0 THEN imp[o].tomb ELSE tomb[d][o]
  OBVIOUS
<1>8. o \in dead => \E c \in round[t].condemned :
        c[1] = o /\ StillDead(o, c[2], newFile[o], newIndex[o], newTomb[o])
  OBVIOUS
<1>9. ImportedEntry(o, imp[o]) \in Entry /\ imp[o].blob \in Blob /\ imp[o].tomb \in Nat
  <2> HIDE DEF imp
  <2>1. imp[o].rev \in Nat /\ imp[o].deleted \in BOOLEAN /\ imp[o].blob \in Blob
        /\ imp[o].tomb \in Nat
    BY <1>4 DEF Import
  <2> QED BY <2>1 DEF ImportedEntry, EntryOf, Entry, Blob
<1> HIDE DEF d, imp, wins, newFile, newIndex, newTomb, dead
<1>10. /\ o \in dead => HoldsNow(d, o, NoBlob, Absent, 0)
       /\ o \notin dead => HoldsNow(d, o, newFile[o], newIndex[o], newTomb[o])
       /\ \A c \in Device : c # d => HoldsNow(c, o, file[c][o], index[c][o], tomb[c][o])
  BY <1>1, <1>2, <1>3 DEF HoldsNow
<1>11. newFile[o] \in Blob /\ newIndex[o] \in Entry /\ newTomb[o] \in Nat
  BY <1>1, <1>2, <1>7, <1>9
<1>12. Arbitrated(t, o, newFile[o], newIndex[o], newTomb[o])
  BY <1>6, <1>7 DEF Arbitrated, d, imp
<1>13. PICK f \in Blob, e \in Entry, s \in Nat :
         f = newFile[o] /\ e = newIndex[o] /\ s = newTomb[o]
  BY <1>11
<1>14. /\ Arbitrated(t, o, f, e, s)
       /\ \/ HoldsNow(d, o, f, e, s)
          \/ /\ HoldsNow(d, o, NoBlob, Absent, 0)
             /\ \E p \in round[t].condemned : p[1] = o /\ StillDead(o, p[2], f, e, s)
  BY <1>8, <1>10, <1>12, <1>13
<1> QED BY <1>10, <1>14 DEF d

(* A round that is given up has nothing left to purge. *)
LEMMA NoRoundFits == HandFits(NoRound) /\ NoRound.purges = {} /\ NoRound.condemned = {}
<1>1. PICK q : q = NoRound OBVIOUS
<1>2. /\ q.pc = "idle" /\ q.obj = {} /\ q.blob = NoBlob /\ q.import.blob = NoBlob
      /\ q.purges = {} /\ q.condemned = {}
  BY <1>1 DEF NoRound, NoImport
<1>3. HandFits(q) BY <1>2 DEF HandFits, HandPhase
<1> QED BY <1>1, <1>2, <1>3

(* No step of a round moves the horizon, or issues a version. *)
LEMMA RoundIssuesNothing ==
  ASSUME NEW t \in Syncer, StartRound(t) \/ Advance(t) \/ Abandon(t)
  PROVE  UNCHANGED <<horizon, winner>>
  BY DEF Advance, StartRound, ListBody, ListTomb, ListDone, Plan, Pull, FetchTomb,
         BeginPush, Put, Resolve, Arbitrate, Refresh, PushTomb, BeginPurge, PurgeBody,
         PurgeTomb, PutIndex, Reget, Abandon, Apply

(* Only a purge decides on deletions, and only on expired ones. *)
LEMMA PurgesDecided ==
  ASSUME TypeOK, NEW t \in Syncer, StartRound(t) \/ Advance(t) \/ Abandon(t)
  PROVE  \E q : /\ Moved(t, q)
                /\ \A p \in q.purges \cup q.condemned :
                     p \in round[t].purges \cup round[t].condemned \/ Expired(p[2])
<1>0. round \in [Syncer -> Round] BY DEF TypeOK
<1>1. ASSUME NEW q, Moved(t, q), SamePurges(q, round[t])
      PROVE  \E s : /\ Moved(t, s)
                    /\ \A p \in s.purges \cup s.condemned :
                         p \in round[t].purges \cup round[t].condemned \/ Expired(p[2])
  BY <1>1 DEF SamePurges
<1>2. CASE Become(t, NoRound)
  <2>1. Moved(t, NoRound) BY <1>0, <1>2, NoRoundType, BecomeMoves
  <2> QED BY <2>1, NoRoundFits
<1>3. CASE StartRound(t) BY <1>3, StartShape
<1>4. CASE ListBody(t) \/ ListTomb(t) BY <1>1, <1>4, ListShape
<1>5. CASE ListDone(t)
  <2>1. Become(t, [round[t] EXCEPT !.pc = "plan"]) /\ "plan" \in Phase
    BY <1>5 DEF ListDone, Phase
  <2>2. PICK q : Moved(t, q) /\ OnlyPhase(q, round[t]) BY <2>1, PhaseShape
  <2> QED BY <1>1, <2>2 DEF OnlyPhase
<1>6. CASE Plan(t)
  <2>1. PICK q : /\ Moved(t, q) /\ q.purges = round[t].purges
                 /\ q.condemned = round[t].condemned
    BY <1>6, PlanShape
  <2> QED BY <2>1
<1>7. CASE Pull(t) BY <1>1, <1>7, PullShape
<1>8. CASE FetchTomb(t) BY <1>1, <1>8, FetchTombShape
<1>9. CASE BeginPush(t) BY <1>1, <1>9, BeginPushShape
<1>10. CASE Put(t) BY <1>1, <1>10, PutShape
<1>11. CASE PushTomb(t) BY <1>1, <1>11, PushTombShape
<1>12. CASE Resolve(t) \/ Arbitrate(t) \/ Refresh(t)
  <2>1. Become(t, NoRound) \/ \E q : Moved(t, q) /\ SamePurges(q, round[t])
    BY <1>12, ResolveShape
  <2> QED BY <1>1, <1>2, <2>1
<1>13. CASE BeginPurge(t)
  <2> DEFINE d == Home[t]
  <2>1. PICK q : /\ Moved(t, q)
                 /\ q.purges = {<<o, tomb[d][o]>> : o \in Confirmed(d, round[t].base)}
                 /\ q.purged = Vanished(d, round[t].base) \ round[t].pushed
                 /\ q.condemned = round[t].condemned \cup {<<o, tomb[d][o]>> : o \in q.purged}
    BY <1>13, BeginPurgeShape
  <2>2. \A o \in Confirmed(d, round[t].base) : Expired(tomb[d][o]) BY DEF Confirmed
  <2>3. \A o \in q.purged : Expired(tomb[d][o]) BY <2>1 DEF Vanished
  <2> HIDE DEF d
  <2>4. \A p \in q.purges : Expired(p[2]) BY <2>1, <2>2
  <2>5. \A p \in q.condemned : p \in round[t].condemned \/ Expired(p[2]) BY <2>1, <2>3
  <2> QED BY <2>1, <2>4, <2>5
<1>14. CASE PurgeBody(t) BY <1>1, <1>14, PurgeBodyShape
<1>15. CASE PurgeTomb(t)
  <2>1. PICK o \in round[t].obj : \E q :
          /\ Moved(t, q) /\ q.purges = {p \in round[t].purges : p[1] # o}
          /\ q.condemned = round[t].condemned \cup {p \in round[t].purges : p[1] = o}
    BY <1>15, PurgeTombShape
  <2> QED BY <2>1
<1>16. CASE PutIndex(t)
  <2>1. PICK p \in {"apply", "reget"} : Become(t, [round[t] EXCEPT !.pc = p])
    BY <1>16 DEF PutIndex
  <2>2. p \in Phase BY DEF Phase
  <2>3. PICK q : Moved(t, q) /\ OnlyPhase(q, round[t]) BY <2>1, <2>2, PhaseShape
  <2> QED BY <1>1, <2>3 DEF OnlyPhase
<1>17. CASE Reget(t) BY <1>1, <1>17, RegetShape
<1>18. CASE Apply(t) \/ Abandon(t) BY <1>2, <1>18 DEF Apply, Abandon
<1> QED BY <1>3, <1>4, <1>5, <1>6, <1>7, <1>8, <1>9, <1>10, <1>11, <1>12, <1>13, <1>14,
           <1>15, <1>16, <1>17, <1>18 DEF Advance

(* What a round holds fits its phase, whatever happens. *)
LEMMA RoundsFitStep ==
  ASSUME TypeOK, RoundsFit, [Next]_vars
  PROVE  RoundsFit'
<1>0. horizon \in Nat /\ round \in [Syncer -> Round] BY DEF TypeOK
<1>1. CASE UNCHANGED <<round, horizon>>
  BY <1>1 DEF RoundsFit, PurgesFit, Expired
<1>2. ASSUME NEW t \in Syncer, StartRound(t) \/ Advance(t) \/ Abandon(t)
      PROVE  RoundsFit'
  <2>1. UNCHANGED horizon BY <1>2, RoundIssuesNothing
  <2>2. HandFits(round[t]) BY DEF RoundsFit
  <2>3. PICK q : Moved(t, q) /\ HandFits(q) BY <1>2, <2>2, RoundCarries DEF CarriesOn
  <2>4. PICK s : /\ Moved(t, s)
                 /\ \A p \in s.purges \cup s.condemned :
                      p \in round[t].purges \cup round[t].condemned \/ Expired(p[2])
    BY <1>2, PurgesDecided
  <2>5. s = q BY <2>3, <2>4 DEF Moved
  <2>6. \A p \in q.purges \cup q.condemned : p[2] # 0 /\ p[2] <= horizon
    BY <2>4, <2>5 DEF RoundsFit, PurgesFit, Expired
  <2> SUFFICES ASSUME NEW u \in Syncer PROVE (HandFits(round[u]) /\ PurgesFit(round[u]))'
    BY DEF RoundsFit
  <2>7. CASE u = t
    <3>1. round'[u] = q BY <2>3, <2>7 DEF Moved
    <3> QED BY <2>1, <2>3, <2>6, <3>1 DEF HandFits, PurgesFit, Expired
  <2>8. CASE u # t
    <3>1. round'[u] = round[u] BY <2>3, <2>8 DEF Moved
    <3> QED BY <2>1, <3>1 DEF RoundsFit, HandFits, PurgesFit, Expired
  <2> QED BY <2>7, <2>8
<1>3. ASSUME NEW d \in Device, Restart(d) PROVE RoundsFit'
  <2> SUFFICES ASSUME NEW u \in Syncer PROVE (HandFits(round[u]) /\ PurgesFit(round[u]))'
    BY DEF RoundsFit
  <2>1. round'[u] = NoRound \/ round'[u] = round[u] BY <1>0, <1>3 DEF Restart
  <2>2. UNCHANGED horizon BY <1>3 DEF Restart
  <2>3. CASE round'[u] = NoRound
    <3>1. HandFits(NoRound) /\ PurgesFit(NoRound) BY NoRoundFits DEF PurgesFit
    <3> QED BY <2>2, <2>3, <3>1 DEF HandFits, PurgesFit, Expired
  <2>4. CASE round'[u] = round[u]
    BY <2>2, <2>4 DEF RoundsFit, HandFits, PurgesFit, Expired
  <2> QED BY <2>1, <2>3, <2>4
<1>4. ASSUME NEW h \in 1..MaxRev, GraceElapses(h) PROVE RoundsFit'
  <2>1. UNCHANGED round /\ horizon' = h /\ h > horizon /\ h \in Nat
    BY <1>4, BoundAssumption DEF GraceElapses
  <2>2. ASSUME NEW k, k # 0, k <= horizon, k \in Nat PROVE k <= horizon'
    BY <1>0, <2>1, <2>2
  <2>3. ASSUME NEW u \in Syncer, NEW p \in round[u].purges \cup round[u].condemned
        PROVE  Expired(p[2])'
    <3>1. round[u] \in Round BY <1>0
    <3>2. p \in Obj \X Nat BY <2>3, <3>1 DEF Round
    <3>3. p[2] \in Nat BY <3>2
    <3>4. Expired(p[2]) BY DEF RoundsFit, PurgesFit
    <3> QED BY <2>2, <3>3, <3>4 DEF Expired
  <2> QED BY <2>1, <2>3 DEF RoundsFit, HandFits, PurgesFit
<1>5. ASSUME NEW d \in Device, Edit(d) PROVE RoundsFit'
  BY ZenonT(60), <1>1, <1>5 DEF Edit, Create, UpdateItem, UpdateRule, Delete
<1>6. CASE LoseIndex BY <1>1, <1>6 DEF LoseIndex
<1>7. CASE UNCHANGED vars BY <1>1, <1>7 DEF vars
<1> QED BY <1>2, <1>3, <1>4, <1>5, <1>6, <1>7 DEF Next

-----------------------------------------------------------------------------
(***************************************************************************)
(* The clocks.  No clock is behind what its device has seen, and no two    *)
(* devices read the same time: then no two versions are ever issued under  *)
(* one revision.  Without this, two edits at the same millisecond share a  *)
(* revision and the devices part (found_same_revision.cfg).                *)
(***************************************************************************)
ClocksApart ==
  /\ ~SkewedClocks
  /\ \A d, e \in Device : d # e => Clock[d] \cap Clock[e] = {}

(* The edit of o by d, under revision now, leaves body b, entry e and tombstone s. *)
Edited(d, o, now, b, e, s) ==
  /\ HoldsNow(d, o, b, e, s)
  /\ \A c \in Device, p \in Obj :
       c # d \/ p # o => HoldsNow(c, p, file[c][p], index[c][p], tomb[c][p])
  /\ e.rev = now
  /\ winner'[o] = IF now >= winner[o].rev THEN e ELSE winner[o]
  /\ \A p \in Obj : p # o => winner'[p] = winner[p]
  /\ \/ ~e.deleted /\ s \in {0, tomb[d][o]} /\ b.rev = now
     \/ /\ e.deleted /\ s = now /\ file[d][o].rev # 0
        /\ o \in Item \/ b = file[d][o]
  /\ o \in Item => e = EntryOf(b)

(* What an edit by d does, and under which revision. *)
LEMMA EditShape ==
  ASSUME TypeOK, VaultConsistent, NEW d \in Device, Edit(d)
  PROVE  \E o \in Obj, now \in Nat \ {0}, b \in Blob, e \in Entry, s \in Nat :
           /\ now > horizon /\ now > index[d][o].rev
           /\ ~SkewedClocks => now \in Clock[d]
           /\ Edited(d, o, now, b, e, s)
           /\ UNCHANGED <<remote, round, horizon, failures>>
<1>1. PICK o \in Obj, time \in Clock[d] :
        \/ \E c \in Content : \/ Create(d, o, c, time)
                              \/ UpdateItem(d, o, c, time)
                              \/ UpdateRule(d, o, c, time)
        \/ Delete(d, o, time)
  BY DEF Edit
<1>2. /\ file \in [Device -> [Obj -> Blob]] /\ index \in [Device -> [Obj -> Entry]]
      /\ tomb \in [Device -> [Obj -> Nat]] /\ winner \in [Obj -> Entry]
      /\ last[d] \in Nat
  BY DEF TypeOK, Index
<1>3. file[d][o] \in Blob /\ index[d][o] \in Entry /\ tomb[d][o] \in Nat BY <1>2
<1>4. Reading(d, time)
  BY <1>1 DEF Create, UpdateItem, UpdateRule, Delete
<1>5. PICK now \in Nat \ {0} :
        /\ now > horizon /\ now > last[d] /\ NextRev(d, time) = now
        /\ ~SkewedClocks => now \in Clock[d]
  <2>1. time \in Nat \ {0} /\ time > horizon BY <1>4, ClockAssumption DEF Reading
  <2>2. horizon \in Nat BY DEF TypeOK
  <2>3. ~SkewedClocks => time > last[d] BY <1>4 DEF Reading
  <2> QED BY <1>2, <2>1, <2>2, <2>3 DEF NextRev
<1>6. now > index[d][o].rev
  BY <1>2, <1>3, <1>5 DEF VaultConsistent, LastBoundsIndex, Entry
<1>7. ASSUME NEW b \in Blob, NEW e \in Entry, NEW s \in Nat, e.rev = now,
             file' = [file EXCEPT ![d][o] = b], index' = [index EXCEPT ![d][o] = e],
             tomb' = [tomb EXCEPT ![d][o] = s]
      PROVE  /\ HoldsNow(d, o, b, e, s)
             /\ \A c \in Device, p \in Obj :
                  c # d \/ p # o => HoldsNow(c, p, file[c][p], index[c][p], tomb[c][p])
  BY <1>2, <1>7 DEF HoldsNow
<1>8. ASSUME NEW e \in Entry, e.rev = now, Issue(o, e)
      PROVE  /\ winner'[o] = IF now >= winner[o].rev THEN e ELSE winner[o]
             /\ \A p \in Obj : p # o => winner'[p] = winner[p]
  BY <1>2, <1>8 DEF Issue
<1>9. UNCHANGED <<remote, round, horizon, failures>>
  BY <1>1 DEF Create, UpdateItem, UpdateRule, Delete
<1>10. tomb = [tomb EXCEPT ![d][o] = tomb[d][o]]
       /\ file = [file EXCEPT ![d][o] = file[d][o]]
  BY <1>2
<1>11. PICK e \in Entry : e = [rev |-> now, deleted |-> FALSE] BY <1>5 DEF Entry
<1>12. ASSUME NEW b \in Blob, NEW s \in {0, tomb[d][o]}, b.rev = now,
              o \in Item => ~b.deleted,
              Store(d, o, b, now), tomb' = [tomb EXCEPT ![d][o] = s]
       PROVE  \E b1 \in Blob, e1 \in Entry, s1 \in Nat : Edited(d, o, now, b1, e1, s1)
  <2>1. s \in Nat BY <1>3
  <2>2. /\ file' = [file EXCEPT ![d][o] = b] /\ index' = [index EXCEPT ![d][o] = e]
        /\ Issue(o, e)
    BY <1>11, <1>12 DEF Store
  <2>3. e.rev = now /\ ~e.deleted BY <1>11
  <2>4. o \in Item => e = EntryOf(b) BY <1>11, <1>12 DEF EntryOf, Blob
  <2>5. /\ HoldsNow(d, o, b, e, s)
        /\ \A c \in Device, p \in Obj :
             c # d \/ p # o => HoldsNow(c, p, file[c][p], index[c][p], tomb[c][p])
    BY <1>7, <1>12, <2>1, <2>2, <2>3
  <2>6. /\ winner'[o] = IF now >= winner[o].rev THEN e ELSE winner[o]
        /\ \A p \in Obj : p # o => winner'[p] = winner[p]
    BY <1>8, <2>2, <2>3
  <2>7. Edited(d, o, now, b, e, s) BY <1>12, <2>3, <2>4, <2>5, <2>6 DEF Edited
  <2> QED BY <2>1, <2>7
<1>13. ASSUME NEW c \in Content, Create(d, o, c, time) \/ UpdateItem(d, o, c, time)
       PROVE  \E b \in Blob : /\ b.rev = now /\ (o \in Item => ~b.deleted)
                              /\ Store(d, o, b, now)
                              /\ tomb' = [tomb EXCEPT ![d][o] = tomb[d][o]]
  <2>1. PICK k \in {0, now} :
          Store(d, o, [rev |-> now, deleted |-> FALSE, content |-> c, created |-> k], now)
    BY <1>5, <1>13 DEF Create, UpdateItem
  <2>2. PICK b : b = [rev |-> now, deleted |-> FALSE, content |-> c, created |-> k] OBVIOUS
  <2>3. b \in Blob /\ b.rev = now /\ ~b.deleted
    BY <1>5, <2>2, ContentAssumption DEF Blob
  <2>4. tomb' = tomb BY <1>13 DEF Create, UpdateItem
  <2> QED BY <1>10, <2>1, <2>2, <2>3, <2>4
<1>14. ASSUME NEW c \in Content, UpdateRule(d, o, c, time)
       PROVE  \E b \in Blob : /\ b.rev = now /\ (o \in Item => ~b.deleted)
                              /\ Store(d, o, b, now)
                              /\ tomb' = [tomb EXCEPT ![d][o] = 0]
  <2>1. Store(d, o, [file[d][o] EXCEPT !.rev = now, !.content = c], now)
    BY <1>5, <1>14 DEF UpdateRule
  <2>2. PICK b : b = [file[d][o] EXCEPT !.rev = now, !.content = c] OBVIOUS
  <2>3. b \in Blob /\ b.rev = now
    BY <1>3, <1>5, <2>2, ContentAssumption DEF Blob
  <2>4. tomb' = [tomb EXCEPT ![d][o] = 0] /\ o \notin Item
    BY <1>14, KindsAssumption DEF UpdateRule
  <2> QED BY <2>1, <2>2, <2>3, <2>4
<1>15. CASE Delete(d, o, time)
  <2>1. PICK b : b = IF o \in Item THEN [file[d][o] EXCEPT !.rev = now, !.deleted = TRUE]
                                   ELSE file[d][o]
    OBVIOUS
  <2>2. b \in Blob /\ (o \in Item => b.rev = now /\ b.deleted = TRUE)
        /\ (o \notin Item => b = file[d][o])
    BY <1>3, <1>5, <2>1 DEF Blob
  <2>3. PICK del \in Entry : del = [rev |-> now, deleted |-> TRUE] BY <1>5 DEF Entry
  <2>4. /\ index' = [index EXCEPT ![d][o] = del] /\ tomb' = [tomb EXCEPT ![d][o] = now]
        /\ Issue(o, del) /\ file[d][o].rev # 0
    BY <1>5, <1>15, <2>3 DEF Delete
  <2>5. file' = [file EXCEPT ![d][o] = b]
    <3>1. CASE o \in Item
      <4>1. file' = [file EXCEPT ![d][o].rev = now, ![d][o].deleted = TRUE]
        BY <1>5, <1>15, <3>1 DEF Delete
      <4> QED BY <1>2, <1>3, <2>1, <3>1, <4>1 DEF Blob
    <3>2. CASE o \notin Item
      BY <1>10, <1>15, <2>2, <3>2 DEF Delete
    <3> QED BY <3>1, <3>2
  <2>6. del.rev = now /\ del.deleted = TRUE BY <2>3
  <2>7. /\ HoldsNow(d, o, b, del, now)
        /\ \A c \in Device, p \in Obj :
             c # d \/ p # o => HoldsNow(c, p, file[c][p], index[c][p], tomb[c][p])
    BY <1>5, <1>7, <2>2, <2>4, <2>5, <2>6
  <2>8. /\ winner'[o] = IF now >= winner[o].rev THEN del ELSE winner[o]
        /\ \A p \in Obj : p # o => winner'[p] = winner[p]
    BY <1>8, <2>4, <2>6
  <2>9. o \in Item => del = EntryOf(b) BY <2>2, <2>3 DEF EntryOf
  <2>10. Edited(d, o, now, b, del, now)
    BY <2>2, <2>4, <2>6, <2>7, <2>8, <2>9 DEF Edited
  <2>11. now \in Nat BY <1>5
  <2> QED BY <1>5, <1>6, <1>9, <2>2, <2>10, <2>11
<1>16. ASSUME NEW c \in Content,
              Create(d, o, c, time) \/ UpdateItem(d, o, c, time) \/ UpdateRule(d, o, c, time)
       PROVE  \E b1 \in Blob, e1 \in Entry, s1 \in Nat : Edited(d, o, now, b1, e1, s1)
  <2>1. PICK b \in Blob, s \in {0, tomb[d][o]} :
          /\ b.rev = now /\ (o \in Item => ~b.deleted)
          /\ Store(d, o, b, now) /\ tomb' = [tomb EXCEPT ![d][o] = s]
    BY <1>13, <1>14, <1>16
  <2> QED BY <1>12, <2>1
<1> QED BY <1>1, <1>5, <1>6, <1>9, <1>15, <1>16

(***************************************************************************)
(* The device that could have issued a revision k of o under its clock has *)
(* seen it, or the horizon has passed it: no version of o that is yet to   *)
(* be issued will carry k again.                                           *)
(***************************************************************************)
Seen(o, k) ==
  /\ k <= winner[o].rev
  /\ \A d \in Device : k \in Clock[d] => k <= horizon \/ k <= index[d][o].rev

(* The numbers compared are natural numbers. *)
LEMMA RevisionTypes ==
  ASSUME TypeOK, NEW o \in Obj
  PROVE  /\ horizon \in Nat /\ winner[o] \in Entry /\ winner[o].rev \in Nat
         /\ \A d \in Device : /\ index[d][o] \in Entry /\ index[d][o].rev \in Nat
                              /\ file[d][o] \in Blob /\ file[d][o].rev \in Nat
                              /\ tomb[d][o] \in Nat
  BY DEF TypeOK, Index, Entry, Blob

(* Arbitration never takes a device back, and seals what it indexes. *)
LEMMA ArbitratedUp ==
  ASSUME TypeOK, VaultConsistent, NEW t \in Syncer, NEW o \in Obj,
         NEW f \in Blob, NEW e \in Entry, NEW s \in Nat, Arbitrated(t, o, f, e, s)
  PROVE  /\ e.rev >= index[Home[t]][o].rev
         /\ o \in Item => e = EntryOf(f)
<1> DEFINE d == Home[t]
           i == round[t].imports[o]
<1>1. d \in Device BY HomeAssumption
<1>2. index[d][o].rev \in Nat /\ file[d][o].rev \in Nat BY <1>1, RevisionTypes
<1>3. i \in Import BY DEF TypeOK, Round
<1>4. i.rev \in Nat /\ i.blob.rev \in Nat
  <2> HIDE DEF i
  <2> QED BY <1>3 DEF Import, Blob
<1>5. o \in Item => index[d][o] = EntryOf(file[d][o])
  BY <1>1 DEF VaultConsistent, ItemsIndexedAsSealed
<1>6. CASE f = file[d][o] /\ e = index[d][o] BY <1>2, <1>5, <1>6
<1>7. CASE RemoteWins(d, o, i) /\ f = i.blob /\ e = ImportedEntry(o, i)
  <2> HIDE DEF i, d
  <2>1. CASE o \in Item
    <3>1. i.blob.rev >= file[d][o].rev BY <1>2, <1>4, <1>7, <2>1 DEF RemoteWins, Beats
    <3>2. e = EntryOf(f) BY <1>7, <2>1 DEF ImportedEntry
    <3>3. e.rev = i.blob.rev BY <1>7, <3>2 DEF EntryOf
    <3>4. index[d][o].rev = file[d][o].rev BY <1>5, <2>1 DEF EntryOf
    <3> QED BY <3>1, <3>2, <3>3, <3>4 DEF d
  <2>2. CASE o \notin Item
    <3>1. i.rev > index[d][o].rev BY <1>7, <2>2 DEF RemoteWins
    <3>2. e.rev = i.rev BY <1>7, <2>2 DEF ImportedEntry
    <3> QED BY <1>2, <1>4, <2>2, <3>1, <3>2 DEF d
  <2> QED BY <2>1, <2>2
<1> QED BY <1>6, <1>7 DEF Arbitrated

(* What a hard deletion takes away is older than the horizon. *)
LEMMA HardDeletedIsOld ==
  ASSUME TypeOK, VaultConsistent, RoundsFit, NEW t \in Syncer, NEW o \in Obj,
         NEW f \in Blob, NEW e \in Entry, NEW s \in Nat, Arbitrated(t, o, f, e, s),
         NEW p \in round[t].condemned, StillDead(o, p[2], f, e, s)
  PROVE  e.rev <= horizon /\ s # 0 /\ s = p[2] /\ Expired(s)
<1>1. horizon \in Nat BY RevisionTypes
<1>2. Expired(p[2]) BY DEF RoundsFit, PurgesFit
<1>3. s = p[2] /\ s # 0 /\ s <= horizon BY <1>2 DEF StillDead, Expired
<1>4. CASE o \in Rule
  <2>1. e.rev = 0 \/ e = [rev |-> s, deleted |-> TRUE] BY <1>3, <1>4 DEF StillDead
  <2>2. e.rev = 0 \/ e.rev = s BY <2>1
  <2> QED BY <1>1, <1>2, <1>3, <2>2
<1>5. CASE o \in Item
  <2>1. f.rev = 0 \/ f.rev = s BY <1>3, <1>5, KindsAssumption DEF StillDead
  <2>2. e = EntryOf(f) BY <1>5, ArbitratedUp
  <2>3. e.rev = f.rev BY <2>2 DEF EntryOf
  <2> QED BY <1>1, <1>2, <1>3, <2>1, <2>3
<1> QED BY <1>4, <1>5 DEF Obj

(* Time and history only go on ... *)
LEMMA HistoryGoesOn ==
  ASSUME TypeOK, VaultConsistent, [Next]_vars, NEW o \in Obj
  PROVE  horizon <= horizon' /\ winner[o].rev <= winner'[o].rev
<1>1. horizon \in Nat /\ winner[o].rev \in Nat BY RevisionTypes
<1>2. CASE UNCHANGED <<horizon, winner>> BY <1>1, <1>2
<1>3. ASSUME NEW t \in Syncer, StartRound(t) \/ Advance(t) \/ Abandon(t)
      PROVE  UNCHANGED <<horizon, winner>>
  BY <1>3, RoundIssuesNothing
<1>4. ASSUME NEW d \in Device, Edit(d)
      PROVE  horizon <= horizon' /\ winner[o].rev <= winner'[o].rev
  <2>1. PICK p \in Obj, now \in Nat \ {0}, b \in Blob, e \in Entry, s \in Nat :
          /\ Edited(d, p, now, b, e, s) /\ UNCHANGED horizon
    BY <1>4, EditShape
  <2>2. winner'[o] = winner[o] \/ (winner'[o] = e /\ now >= winner[o].rev /\ e.rev = now)
    BY <2>1 DEF Edited
  <2> QED BY <1>1, <2>1, <2>2
<1>5. ASSUME NEW h \in 1..MaxRev, GraceElapses(h)
      PROVE  horizon <= horizon' /\ winner[o].rev <= winner'[o].rev
  <2>1. h \in Nat BY BoundAssumption
  <2> QED BY <1>1, <1>5, <2>1 DEF GraceElapses
<1>6. ASSUME (\E d \in Device : Restart(d)) \/ LoseIndex \/ UNCHANGED vars
      PROVE  UNCHANGED <<horizon, winner>>
  BY <1>6 DEF Restart, LoseIndex, vars
<1> QED BY <1>2, <1>3, <1>4, <1>5, <1>6 DEF Next

(* ... and so does an index, but for what is older than the horizon. *)
LEMMA IndexGoesOn ==
  ASSUME TypeOK, VaultConsistent, RoundsFit, [Next]_vars,
         NEW d \in Device, NEW o \in Obj
  PROVE  index[d][o].rev <= index'[d][o].rev \/ index[d][o].rev <= horizon
<1>1. horizon \in Nat /\ index[d][o].rev \in Nat BY RevisionTypes
<1>2. CASE UNCHANGED index BY <1>1, <1>2
<1>3. ASSUME NEW t \in Syncer, Apply(t)
      PROVE  index[d][o].rev <= index'[d][o].rev \/ index[d][o].rev <= horizon
  <2>1. CASE d # Home[t]
    <3>1. index'[d][o] = index[d][o] BY <1>3, <2>1, ApplyShape DEF HoldsNow
    <3> QED BY <1>1, <3>1
  <2>2. CASE d = Home[t]
    <3>1. PICK f \in Blob, e \in Entry, s \in Nat :
            /\ Arbitrated(t, o, f, e, s)
            /\ \/ HoldsNow(Home[t], o, f, e, s)
               \/ \E p \in round[t].condemned : StillDead(o, p[2], f, e, s)
      BY <1>3, ApplyShape
    <3>2. e.rev >= index[d][o].rev /\ e.rev \in Nat
      BY <2>2, <3>1, ArbitratedUp DEF Entry
    <3>3. CASE HoldsNow(Home[t], o, f, e, s)
      <4>1. index'[d][o] = e BY <2>2, <3>3 DEF HoldsNow
      <4> QED BY <1>1, <3>2, <4>1
    <3>4. CASE \E p \in round[t].condemned : StillDead(o, p[2], f, e, s)
      <4>1. e.rev <= horizon BY <3>1, <3>4, HardDeletedIsOld
      <4> QED BY <1>1, <3>2, <4>1
    <3> QED BY <3>1, <3>3, <3>4
  <2> QED BY <2>1, <2>2
<1>4. ASSUME NEW t \in Syncer, StartRound(t) \/ (Advance(t) /\ ~Apply(t)) \/ Abandon(t)
      PROVE  UNCHANGED index
  BY <1>4, FetchIsRemote DEF local
<1>5. ASSUME NEW c \in Device, Edit(c)
      PROVE  index[d][o].rev <= index'[d][o].rev
  <2>1. PICK p \in Obj, now \in Nat \ {0}, b \in Blob, e \in Entry, s \in Nat :
          /\ now > index[c][p].rev /\ Edited(c, p, now, b, e, s)
    BY <1>5, EditShape
  <2>2. CASE d = c /\ o = p
    <3>1. index'[d][o] = e /\ e.rev = now BY <2>1, <2>2 DEF Edited, HoldsNow
    <3> QED BY <1>1, <2>1, <2>2, <3>1
  <2>3. CASE ~(d = c /\ o = p)
    <3>1. index'[d][o] = index[d][o] BY <2>1, <2>3 DEF Edited, HoldsNow
    <3> QED BY <1>1, <3>1
  <2> QED BY <2>2, <2>3
<1>6. ASSUME (\E c \in Device : Restart(c)) \/ LoseIndex \/ UNCHANGED vars
             \/ \E h \in 1..MaxRev : GraceElapses(h)
      PROVE  UNCHANGED index
  BY <1>6 DEF Restart, LoseIndex, GraceElapses, vars, local
<1> QED BY <1>2, <1>3, <1>4, <1>5, <1>6 DEF Next

(* What was seen stays seen. *)
LEMMA SeenKept ==
  ASSUME TypeOK, VaultConsistent, RoundsFit, [Next]_vars,
         NEW o \in Obj, NEW k \in Nat, Seen(o, k)
  PROVE  Seen(o, k)'
<1>1. TypeOK' BY TypeStep
<1>2. /\ horizon \in Nat /\ horizon' \in Nat
      /\ winner[o].rev \in Nat /\ winner'[o].rev \in Nat
      /\ \A d \in Device : index[d][o].rev \in Nat /\ index'[d][o].rev \in Nat
  <2>1. /\ horizon \in Nat /\ winner[o].rev \in Nat
        /\ \A d \in Device : index[d][o].rev \in Nat
    BY RevisionTypes
  <2>2. /\ horizon' \in Nat /\ winner'[o].rev \in Nat
        /\ \A d \in Device : index'[d][o].rev \in Nat
    BY <1>1 DEF TypeOK, Index, Entry
  <2> QED BY <2>1, <2>2
<1>3. horizon <= horizon' /\ winner[o].rev <= winner'[o].rev BY HistoryGoesOn
<1>4. \A d \in Device : index[d][o].rev <= index'[d][o].rev \/ index[d][o].rev <= horizon
  BY IndexGoesOn
<1>5. k <= winner'[o].rev BY <1>2, <1>3 DEF Seen
<1>6. ASSUME NEW d \in Device, k \in Clock[d]
      PROVE  k <= horizon' \/ k <= index'[d][o].rev
  <2>1. k <= horizon \/ k <= index[d][o].rev BY <1>6 DEF Seen
  <2>2. index[d][o].rev <= index'[d][o].rev \/ index[d][o].rev <= horizon BY <1>4
  <2>3. /\ horizon \in Nat /\ horizon' \in Nat /\ index[d][o].rev \in Nat
        /\ index'[d][o].rev \in Nat
    BY <1>2
  <2> QED BY <1>3, <2>1, <2>2, <2>3
<1> QED BY <1>5, <1>6 DEF Seen

-----------------------------------------------------------------------------
(***************************************************************************)
(* Nothing but an edit makes a body; the tombstones that are not an edit's *)
(* were made up by a round for a deleted body, or a deleted rule.          *)
(***************************************************************************)

(* What a step of a round leaves on the devices and in the store was there before. *)
LEMMA RoundStores ==
  ASSUME TypeOK, NEW t \in Syncer, StartRound(t) \/ Advance(t) \/ Abandon(t), NEW o \in Obj
  PROVE  /\ rfile'[o] \in Bodies(o) /\ rtomb'[o] \in Stones(o)
         /\ \A d \in Device : file'[d][o] \in Bodies(o) /\ tomb'[d][o] \in Stones(o)
<1>0. /\ rfile \in [Obj -> Blob] /\ rtomb \in [Obj -> Nat]
      /\ round[t] \in Round /\ Home[t] \in Device
  BY HomeAssumption DEF TypeOK
<1>1. CASE UNCHANGED <<file, tomb, rfile, rtomb>> BY <1>1, WhereBodies, WhereStones
<1>2. CASE Apply(t)
  <2>1. rfile' = rfile /\ rtomb' = rtomb BY <1>2 DEF Apply
  <2>2. \A c \in Device : c # Home[t] => HoldsNow(c, o, file[c][o], index[c][o], tomb[c][o])
    BY <1>2, ApplyShape
  <2>3. PICK f \in Blob, e \in Entry, s \in Nat :
          /\ Arbitrated(t, o, f, e, s)
          /\ \/ HoldsNow(Home[t], o, f, e, s) \/ HoldsNow(Home[t], o, NoBlob, Absent, 0)
    BY <1>2, ApplyShape
  <2>4. f \in Bodies(o) BY <1>0, <2>3, WhereBodies DEF Arbitrated
  <2>5. s \in Stones(o) BY <1>0, <2>3, WhereStones DEF Arbitrated
  <2> QED BY <2>1, <2>2, <2>3, <2>4, <2>5, WhereBodies, WhereStones DEF HoldsNow
<1>3. CASE Put(t)
  <2>1. UNCHANGED <<file, tomb, rtomb>> BY <1>3 DEF Put, local
  <2>2. PICK p \in round[t].obj :
          rfile' = [rfile EXCEPT ![p] = round[t].blob] \/ rfile' = rfile
    BY <1>3, PutShape
  <2>3. rfile'[o] = rfile[o] \/ (o \in round[t].obj /\ rfile'[o] = round[t].blob)
    BY <1>0, <2>2
  <2> QED BY <2>1, <2>3, WhereBodies, WhereStones
<1>4. CASE PurgeBody(t)
  <2>1. UNCHANGED <<file, tomb, rtomb>> BY <1>4 DEF PurgeBody, local
  <2>2. PICK p \in round[t].purges : rfile' = [rfile EXCEPT ![p[1]] = NoBlob]
    BY <1>4, PurgeBodyShape
  <2>3. rfile'[o] = rfile[o] \/ rfile'[o] = NoBlob BY <1>0, <2>2
  <2> QED BY <2>1, <2>3, WhereBodies, WhereStones
<1>5. CASE PushTomb(t)
  <2>1. UNCHANGED <<file, tomb, rfile>> BY <1>5 DEF PushTomb, local
  <2>2. PICK p \in round[t].obj :
          \E k \in {0, tomb[Home[t]][p], rtomb[p]} : rtomb' = [rtomb EXCEPT ![p] = k]
    BY <1>5, PushTombShape
  <2>3. rtomb'[o] \in {rtomb[o], 0, tomb[Home[t]][o]} BY <1>0, <2>2
  <2> QED BY <1>0, <2>1, <2>3, WhereBodies, WhereStones
<1>6. CASE PurgeTomb(t)
  <2>1. UNCHANGED <<file, tomb, rfile>> BY <1>6 DEF PurgeTomb, local
  <2>2. PICK p \in round[t].obj : rtomb' = [rtomb EXCEPT ![p] = 0]
    BY <1>6, PurgeTombShape
  <2>3. rtomb'[o] \in {rtomb[o], 0} BY <1>0, <2>2
  <2> QED BY <2>1, <2>3, WhereBodies, WhereStones
<1>7. ASSUME \/ StartRound(t) \/ ListBody(t) \/ ListTomb(t) \/ ListDone(t) \/ Plan(t)
             \/ Pull(t) \/ FetchTomb(t) \/ BeginPush(t) \/ Resolve(t) \/ Arbitrate(t)
             \/ Refresh(t) \/ BeginPurge(t) \/ PutIndex(t) \/ Reget(t) \/ Abandon(t)
      PROVE  UNCHANGED <<file, tomb, rfile, rtomb>>
  BY <1>7 DEF StartRound, ListBody, ListTomb, ListDone, Plan, Pull, FetchTomb, BeginPush,
              Resolve, Arbitrate, Refresh, BeginPurge, PutIndex, Reget, Abandon, local, remote
<1> QED BY <1>1, <1>2, <1>3, <1>4, <1>5, <1>6, <1>7 DEF Advance

(* A tombstone k of rule o that some round is about to make up. *)
MadeUp(o, k) ==
  /\ o \in Rule
  /\ \E t \in Syncer : /\ o \in round[t].obj /\ round[t].pc = "fetchTomb"
                       /\ k = round[t].import.rev

(* Whatever happens but an edit, no body is new, and no tombstone but those. *)
LEMMA NothingNew ==
  ASSUME TypeOK, RoundsFit, [Next]_vars, ~\E d \in Device : Edit(d), NEW o \in Obj
  PROVE  /\ Bodies(o)' \subseteq Bodies(o)
         /\ \A k \in Stones(o)' : k \in Stones(o) \cup DeadRevs(o) \/ MadeUp(o, k)
<1>0. round \in [Syncer -> Round] BY DEF TypeOK
<1>1. ASSUME /\ rfile'[o] \in Bodies(o) /\ rtomb'[o] \in Stones(o),
             \A d \in Device : file'[d][o] \in Bodies(o) /\ tomb'[d][o] \in Stones(o),
             \A u \in Syncer :
               /\ round'[u].imports[o].blob \in Bodies(o)
               /\ o \in round'[u].obj => /\ round'[u].blob \in Bodies(o)
                                         /\ round'[u].import.blob \in Bodies(o)
               /\ \/ round'[u].imports[o].tomb \in Stones(o) \cup DeadRevs(o)
                  \/ MadeUp(o, round'[u].imports[o].tomb)
      PROVE  /\ Bodies(o)' \subseteq Bodies(o)
             /\ \A k \in Stones(o)' : k \in Stones(o) \cup DeadRevs(o) \/ MadeUp(o, k)
  <2>1. ASSUME NEW b \in Bodies(o)' PROVE b \in Bodies(o)
    <3>1. \/ b \in {NoBlob, rfile'[o]}
          \/ \E d \in Device : b = file'[d][o]
          \/ \E u \in Syncer : b = round'[u].imports[o].blob
          \/ \E u \in Syncer : o \in round'[u].obj
                               /\ b \in {round'[u].blob, round'[u].import.blob}
      BY <2>1 DEF Bodies
    <3> QED BY <1>1, <3>1, WhereBodies
  <2>2. ASSUME NEW k \in Stones(o)'
        PROVE  k \in Stones(o) \cup DeadRevs(o) \/ MadeUp(o, k)
    <3>1. \/ k \in {0, rtomb'[o]}
          \/ \E d \in Device : k = tomb'[d][o]
          \/ \E u \in Syncer : k = round'[u].imports[o].tomb
      BY <2>2 DEF Stones
    <3> QED BY <1>1, <3>1, WhereStones
  <2> QED BY <2>1, <2>2
<1>2. ASSUME NEW t \in Syncer, StartRound(t) \/ Advance(t) \/ Abandon(t)
      PROVE  /\ Bodies(o)' \subseteq Bodies(o)
             /\ \A k \in Stones(o)' : k \in Stones(o) \cup DeadRevs(o) \/ MadeUp(o, k)
  <2>1. HandFits(round[t]) BY DEF RoundsFit
  <2>2. PICK q : Moved(t, q) /\ Carried(q, round[t], o)
    BY <1>2, <2>1, RoundCarries DEF CarriesOn
  <2>3. /\ rfile'[o] \in Bodies(o) /\ rtomb'[o] \in Stones(o)
        /\ \A d \in Device : file'[d][o] \in Bodies(o) /\ tomb'[d][o] \in Stones(o)
    BY <1>2, RoundStores
  <2>4. ASSUME NEW u \in Syncer
        PROVE  /\ round'[u].imports[o].blob \in Bodies(o)
               /\ o \in round'[u].obj => /\ round'[u].blob \in Bodies(o)
                                         /\ round'[u].import.blob \in Bodies(o)
               /\ \/ round'[u].imports[o].tomb \in Stones(o) \cup DeadRevs(o)
                  \/ MadeUp(o, round'[u].imports[o].tomb)
    <3>1. CASE u = t
      <4>1. round'[u] = q BY <2>2, <3>1 DEF Moved
      <4> QED BY <2>2, <4>1 DEF Carried, MadeUp
    <3>2. CASE u # t
      <4>1. round'[u] = round[u] BY <2>2, <3>2 DEF Moved
      <4> QED BY <4>1, WhereBodies, WhereStones
    <3> QED BY <3>1, <3>2
  <2> QED BY <1>1, <2>3, <2>4
<1>3. ASSUME UNCHANGED <<file, tomb, rfile, rtomb>>,
             \A u \in Syncer : round'[u] = round[u] \/ round'[u] = NoRound
      PROVE  /\ Bodies(o)' \subseteq Bodies(o)
             /\ \A k \in Stones(o)' : k \in Stones(o) \cup DeadRevs(o) \/ MadeUp(o, k)
  <2>1. NoRound.imports[o].blob = NoBlob /\ NoRound.imports[o].tomb = 0 /\ NoRound.obj = {}
    BY DEF NoRound, NoImport
  <2>2. ASSUME NEW u \in Syncer
        PROVE  /\ round'[u].imports[o].blob \in Bodies(o)
               /\ o \in round'[u].obj => /\ round'[u].blob \in Bodies(o)
                                         /\ round'[u].import.blob \in Bodies(o)
               /\ round'[u].imports[o].tomb \in Stones(o)
    <3>1. CASE round'[u] = round[u] BY <3>1, WhereBodies, WhereStones
    <3>2. CASE round'[u] = NoRound BY <2>1, <3>2, WhereBodies, WhereStones
    <3> QED BY <1>3, <3>1, <3>2
  <2> QED BY <1>1, <1>3, <2>2, WhereBodies, WhereStones
<1>4. ASSUME NEW d \in Device, Restart(d)
      PROVE  /\ UNCHANGED <<file, tomb, rfile, rtomb>>
             /\ \A u \in Syncer : round'[u] = round[u] \/ round'[u] = NoRound
  BY <1>0, <1>4 DEF Restart
<1>5. ASSUME LoseIndex \/ UNCHANGED vars \/ \E h \in 1..MaxRev : GraceElapses(h)
      PROVE  /\ UNCHANGED <<file, tomb, rfile, rtomb>>
             /\ \A u \in Syncer : round'[u] = round[u] \/ round'[u] = NoRound
  BY <1>5 DEF LoseIndex, GraceElapses, vars, local, remote
<1> QED BY <1>2, <1>3, <1>4, <1>5 DEF Next

(* An edit adds the one body and the one tombstone it makes. *)
LEMMA EditAdds ==
  ASSUME TypeOK, NEW d \in Device, NEW o \in Obj, NEW now, NEW b \in Blob, NEW e \in Entry,
         NEW s \in Nat, Edited(d, o, now, b, e, s), UNCHANGED <<remote, round>>,
         NEW p \in Obj
  PROVE  /\ \A c \in Bodies(p)' : c \in Bodies(p) \/ (p = o /\ c = b)
         /\ \A k \in Stones(p)' : k \in Stones(p) \/ (p = o /\ k = s)
<1>1. /\ \A c \in Device : file'[c][p] = file[c][p] \/ (p = o /\ file'[c][p] = b)
      /\ \A c \in Device : tomb'[c][p] = tomb[c][p] \/ (p = o /\ tomb'[c][p] = s)
  BY DEF Edited, HoldsNow
<1>2. UNCHANGED <<rfile, rtomb, round>> BY DEF remote
<1>3. ASSUME NEW c \in Bodies(p)' PROVE c \in Bodies(p) \/ (p = o /\ c = b)
  <2>1. \/ c \in {NoBlob, rfile[p]}
        \/ \E a \in Device : c = file'[a][p]
        \/ \E u \in Syncer : c = round[u].imports[p].blob
        \/ \E u \in Syncer : p \in round[u].obj /\ c \in {round[u].blob, round[u].import.blob}
    BY <1>2, <1>3 DEF Bodies
  <2> QED BY <1>1, <2>1, WhereBodies
<1>4. ASSUME NEW k \in Stones(p)' PROVE k \in Stones(p) \/ (p = o /\ k = s)
  <2>1. \/ k \in {0, rtomb[p]}
        \/ \E a \in Device : k = tomb'[a][p]
        \/ \E u \in Syncer : k = round[u].imports[p].tomb
    BY <1>2, <1>4 DEF Stones
  <2> QED BY <1>1, <2>1, WhereStones
<1> QED BY <1>3, <1>4

(* The revision of an edit is new ... *)
LEMMA EditIsNew ==
  ASSUME TypeOK, NEW d \in Device, NEW o \in Obj, NEW now \in Clock[d], now \in Nat,
         now > horizon, now > index[d][o].rev, NEW k, Seen(o, k)
  PROVE  k # now
<1>1. horizon \in Nat /\ index[d][o].rev \in Nat BY RevisionTypes
<1>2. SUFFICES ASSUME k = now PROVE FALSE OBVIOUS
<1>3. now <= horizon \/ now <= index[d][o].rev BY <1>2 DEF Seen
<1> QED BY <1>1, <1>3

(* ... and seen from then on. *)
LEMMA EditIsSeen ==
  ASSUME TypeOK, TypeOK', ClocksApart, NEW d \in Device, NEW o \in Obj,
         NEW now \in Clock[d], now \in Nat,
         NEW b \in Blob, NEW e \in Entry, NEW s \in Nat, Edited(d, o, now, b, e, s)
  PROVE  Seen(o, now)'
<1>1. winner[o].rev \in Nat /\ winner'[o].rev \in Nat
      /\ \A c \in Device : index'[c][o].rev \in Nat
  <2>1. winner[o].rev \in Nat BY RevisionTypes
  <2>2. winner'[o].rev \in Nat /\ \A c \in Device : index'[c][o].rev \in Nat
    BY DEF TypeOK, Index, Entry
  <2> QED BY <2>1, <2>2
<1>2. now <= winner'[o].rev
  <2>1. /\ e.rev = now
        /\ winner'[o] = IF now >= winner[o].rev THEN e ELSE winner[o]
    BY DEF Edited
  <2> QED BY <1>1, <2>1
<1>3. index'[d][o].rev = now BY DEF Edited, HoldsNow
<1>4. ASSUME NEW c \in Device, now \in Clock[c] PROVE now <= index'[c][o].rev
  <2>1. c = d BY <1>4 DEF ClocksApart
  <2> QED BY <1>1, <1>3, <2>1
<1> QED BY <1>2, <1>4 DEF Seen

-----------------------------------------------------------------------------
(***************************************************************************)
(* The circulation invariant: one revision, one body; every revision that  *)
(* is about was seen by the device whose clock could issue it again.       *)
(***************************************************************************)
Told(o) ==
  /\ \A b, c \in Bodies(o) : b.rev = c.rev => b = c
  /\ \A b \in Bodies(o) : Seen(o, b.rev)
  /\ Seen(o, winner[o].rev)

(* Some device indexes the newest version, unless that is an old deletion. *)
Held(o) ==
  \/ Device = {} \/ winner[o].rev = 0
  \/ \E d \in Device : index[d][o] = winner[o]
  \/ winner[o].deleted /\ Expired(winner[o].rev)

(***************************************************************************)
(* Of an item, moreover, the body of the newest revision is the newest     *)
(* version, and a tombstone is that of a deletion: whichever round carried *)
(* it, it cannot take away a version that is alive.                        *)
(***************************************************************************)
ToldOfItem(o) ==
  /\ \A b \in Bodies(o) : b.rev = winner[o].rev => EntryOf(b) = winner[o]
  /\ \A k \in Stones(o), b \in Bodies(o) : k # 0 /\ b.rev = k => b.deleted
  /\ \A k \in Stones(o) : Seen(o, k)
  /\ Held(o)

(* Only an edit issues a version. *)
LEMMA OnlyEditsIssue ==
  ASSUME [Next]_vars, ~\E d \in Device : Edit(d)
  PROVE  UNCHANGED winner
<1>1. ASSUME NEW t \in Syncer, StartRound(t) \/ Advance(t) \/ Abandon(t)
      PROVE  UNCHANGED winner
  BY <1>1, RoundIssuesNothing
<1>2. ASSUME \/ \E d \in Device : Restart(d)
             \/ LoseIndex \/ UNCHANGED vars
             \/ \E h \in 1..MaxRev : GraceElapses(h)
      PROVE  UNCHANGED winner
  BY <1>2 DEF Restart, LoseIndex, vars, GraceElapses
<1> QED BY <1>1, <1>2 DEF Next

(* One revision, one body, whatever happens. *)
LEMMA ToldStep ==
  ASSUME TypeOK, VaultConsistent, RoundsFit, ClocksApart, [Next]_vars,
         NEW o \in Obj, Told(o)
  PROVE  Told(o)'
<1>1. ~SkewedClocks BY DEF ClocksApart
<1>2. TypeOK' BY TypeStep
<1>3. Bodies(o) \subseteq Blob /\ winner[o].rev \in Nat BY CirculationType, RevisionTypes
<1>4. ASSUME NEW b \in Bodies(o) PROVE Seen(o, b.rev)'
  <2>1. b.rev \in Nat BY <1>3 DEF Blob
  <2>2. Seen(o, b.rev) BY DEF Told
  <2>3. PICK k \in Nat : k = b.rev BY <2>1
  <2>4. Seen(o, k)' BY <1>1, <2>2, <2>3, SeenKept
  <2> QED BY <2>3, <2>4
<1>5. PICK w \in Nat : w = winner[o].rev BY <1>3
<1>6. Seen(o, w)' BY <1>1, <1>5, SeenKept DEF Told
<1>7. CASE ~\E d \in Device : Edit(d)
  <2>1. Bodies(o)' \subseteq Bodies(o) BY <1>7, NothingNew
  <2>2. UNCHANGED winner BY <1>7, OnlyEditsIssue
  <2>3. \A b, c \in Bodies(o)' : b.rev = c.rev => b = c BY <2>1 DEF Told
  <2>4. \A b \in Bodies(o)' : Seen(o, b.rev)' BY <1>4, <2>1
  <2>5. Seen(o, winner[o].rev)' BY <1>5, <1>6, <2>2 DEF Seen
  <2> QED BY <2>3, <2>4, <2>5 DEF Told
<1>8. ASSUME NEW d \in Device, Edit(d) PROVE Told(o)'
  <2>1. PICK p \in Obj, now \in Nat \ {0}, b \in Blob, e \in Entry, s \in Nat :
          /\ now \in Clock[d] /\ now > horizon /\ now > index[d][p].rev
          /\ Edited(d, p, now, b, e, s)
          /\ UNCHANGED <<remote, round>>
    BY <1>1, <1>8, EditShape
  <2>2. \A c \in Bodies(o)' : c \in Bodies(o) \/ (o = p /\ c = b) BY <2>1, EditAdds
  <2>3. CASE \A c \in Bodies(o)' : c \in Bodies(o)
    <3>1. \A c1, c2 \in Bodies(o)' : c1.rev = c2.rev => c1 = c2 BY <2>3 DEF Told
    <3>2. \A c \in Bodies(o)' : Seen(o, c.rev)' BY <1>4, <2>3
    <3>3. winner'[o].rev = w \/ (o = p /\ winner'[o].rev = now) BY <1>5, <2>1 DEF Edited
    <3>4. o = p => Seen(o, now)' BY <1>2, <2>1, EditIsSeen
    <3>5. Seen(o, winner[o].rev)' BY <1>6, <3>3, <3>4 DEF Seen
    <3> QED BY <3>1, <3>2, <3>5 DEF Told
  <2>4. CASE o = p /\ b.rev = now
    <3>1. Seen(o, now)' BY <1>2, <2>1, <2>4, EditIsSeen
    <3>2. ASSUME NEW c \in Bodies(o) PROVE c.rev # now
      <4>1. Seen(o, c.rev) BY DEF Told
      <4> QED BY <2>1, <2>4, <4>1, EditIsNew
    <3>3. \A c1, c2 \in Bodies(o)' : c1.rev = c2.rev => c1 = c2 BY <2>2, <2>4, <3>2 DEF Told
    <3>4. \A c \in Bodies(o)' : Seen(o, c.rev)' BY <1>4, <2>2, <2>4, <3>1
    <3>5. winner'[o].rev = w \/ winner'[o].rev = now BY <1>5, <2>1, <2>4 DEF Edited
    <3>6. Seen(o, winner[o].rev)' BY <1>6, <3>1, <3>5 DEF Seen
    <3> QED BY <3>3, <3>4, <3>6 DEF Told
  <2>5. b.rev = now \/ b \in Bodies(p)
    <3>1. b.rev = now \/ b = file[d][p] \/ (p \in Item /\ e = EntryOf(b) /\ e.rev = now)
      BY <2>1 DEF Edited
    <3> QED BY <3>1, WhereBodies DEF EntryOf
  <2> QED BY <2>2, <2>3, <2>4, <2>5
<1> QED BY <1>7, <1>8

(* An apply phase leaves the newest version of an item where it is. *)
LEMMA ApplyHolds ==
  ASSUME TypeOK, VaultConsistent, RoundsFit, NEW o \in Item, Told(o), ToldOfItem(o),
         winner[o].rev # 0, NEW t \in Syncer, Apply(t), index[Home[t]][o] = winner[o]
  PROVE  index'[Home[t]][o] = winner[o] \/ (winner[o].deleted /\ Expired(winner[o].rev))
<1>0. o \in Obj /\ o \notin Rule BY KindsAssumption DEF Obj
<1>1. winner[o].rev \in Nat BY <1>0, RevisionTypes
<1>2. PICK f \in Blob, e \in Entry, s \in Nat :
        /\ Arbitrated(t, o, f, e, s)
        /\ \/ HoldsNow(Home[t], o, f, e, s)
           \/ \E p \in round[t].condemned : StillDead(o, p[2], f, e, s)
  BY <1>0, ApplyShape
<1>3. Home[t] \in Device BY HomeAssumption
<1>4. f \in Bodies(o) BY <1>0, <1>2, <1>3, WhereBodies DEF Arbitrated
<1>5. s \in Stones(o) BY <1>0, <1>2, <1>3, WhereStones DEF Arbitrated
<1>6. e = EntryOf(f) /\ e.rev >= winner[o].rev BY <1>0, <1>2, ArbitratedUp
<1>7. f.rev = e.rev /\ f.rev \in Nat BY <1>6 DEF EntryOf, Blob
<1>8. f.rev <= winner[o].rev BY <1>4 DEF Told, Seen
<1>9. f.rev = winner[o].rev BY <1>1, <1>6, <1>7, <1>8
<1>10. e = winner[o] BY <1>4, <1>6, <1>9 DEF ToldOfItem
<1>11. CASE HoldsNow(Home[t], o, f, e, s) BY <1>10, <1>11 DEF HoldsNow
<1>12. ASSUME NEW p \in round[t].condemned, StillDead(o, p[2], f, e, s)
       PROVE  winner[o].deleted /\ Expired(winner[o].rev)
  <2>1. s # 0 /\ s = p[2] /\ Expired(s) BY <1>0, <1>2, <1>12, HardDeletedIsOld
  <2>2. f.rev \in {0, s} BY <1>0, <1>12, <2>1 DEF StillDead
  <2>3. f.rev = s BY <1>9, <2>2
  <2>4. f.deleted BY <1>4, <1>5, <2>1, <2>3 DEF ToldOfItem
  <2>5. winner[o].deleted BY <1>6, <1>10, <2>4 DEF EntryOf
  <2> QED BY <1>9, <2>1, <2>3, <2>5
<1> QED BY <1>2, <1>11, <1>12

(* Without an edit, the newest version stays held. *)
LEMMA HeldKept ==
  ASSUME TypeOK, VaultConsistent, RoundsFit, [Next]_vars,
         ~\E d \in Device : Edit(d), NEW o \in Item, Told(o), ToldOfItem(o)
  PROVE  Held(o)'
<1>0. o \in Obj BY DEF Obj
<1>1. UNCHANGED winner BY OnlyEditsIssue
<1>2. horizon \in Nat /\ horizon' \in Nat /\ winner[o].rev \in Nat
  BY <1>0, TypeStep, RevisionTypes DEF TypeOK
<1>3. horizon <= horizon' BY <1>0, HistoryGoesOn
<1>4. winner[o].deleted /\ Expired(winner[o].rev) => Held(o)'
  BY <1>1, <1>2, <1>3 DEF Held, Expired
<1>5. ASSUME NEW d \in Device, index[d][o] = winner[o], winner[o].rev # 0 PROVE Held(o)'
  <2>1. CASE UNCHANGED index BY <1>1, <1>5, <2>1 DEF Held
  <2>2. ASSUME NEW t \in Syncer, Apply(t) PROVE Held(o)'
    <3>1. CASE d = Home[t]
      <4>1. index'[d][o] = winner[o] \/ (winner[o].deleted /\ Expired(winner[o].rev))
        BY <1>5, <2>2, <3>1, ApplyHolds
      <4> QED BY <1>1, <1>4, <4>1 DEF Held
    <3>2. CASE d # Home[t]
      <4>1. index'[d][o] = index[d][o] BY <1>0, <2>2, <3>2, ApplyShape DEF HoldsNow
      <4> QED BY <1>1, <1>5, <4>1 DEF Held
    <3> QED BY <3>1, <3>2
  <2>3. ASSUME NEW t \in Syncer, StartRound(t) \/ (Advance(t) /\ ~Apply(t)) \/ Abandon(t)
        PROVE  UNCHANGED index
    BY <2>3, FetchIsRemote DEF local
  <2>4. ASSUME (\E c \in Device : Restart(c)) \/ LoseIndex \/ UNCHANGED vars
               \/ \E h \in 1..MaxRev : GraceElapses(h)
        PROVE  UNCHANGED index
    BY <2>4 DEF Restart, LoseIndex, GraceElapses, vars, local
  <2> QED BY <2>1, <2>2, <2>3, <2>4 DEF Next
<1>6. Device = {} \/ winner[o].rev = 0 => Held(o)' BY <1>1 DEF Held
<1> QED BY <1>4, <1>5, <1>6 DEF ToldOfItem, Held

(* An edit of another object leaves o alone; an edit of o issues a new version. *)
LEMMA ItemEditStep ==
  ASSUME TypeOK, VaultConsistent, RoundsFit, ClocksApart, [Next]_vars,
         NEW d \in Device, Edit(d), NEW o \in Item, Told(o), ToldOfItem(o)
  PROVE  ToldOfItem(o)'
<1>0. o \in Obj /\ ~SkewedClocks BY DEF Obj, ClocksApart
<1>1. TypeOK' BY TypeStep
<1>2. PICK p \in Obj, now \in Nat \ {0}, b \in Blob, e \in Entry, s \in Nat :
        /\ now \in Clock[d] /\ now > horizon /\ now > index[d][p].rev
        /\ Edited(d, p, now, b, e, s)
        /\ UNCHANGED <<remote, round, horizon>>
  BY <1>0, EditShape
<1>3. /\ winner[o] \in Entry /\ winner[o].rev \in Nat
      /\ Bodies(o) \subseteq Blob /\ Stones(o) \subseteq Nat
  BY <1>0, CirculationType, RevisionTypes
<1>4. /\ \A c \in Bodies(o)' : c \in Bodies(o) \/ (o = p /\ c = b)
      /\ \A k \in Stones(o)' : k \in Stones(o) \/ (o = p /\ k = s)
  BY <1>0, <1>2, EditAdds
<1>5. ASSUME NEW k \in Stones(o) PROVE Seen(o, k)'
  BY <1>0, <1>3, SeenKept DEF ToldOfItem
<1>6. CASE o # p
  <2>1. UNCHANGED horizon /\ winner'[o] = winner[o]
        /\ \A c \in Device : index'[c][o] = index[c][o]
    BY <1>0, <1>2, <1>6 DEF Edited, HoldsNow
  <2>2. \A c \in Bodies(o)' : c.rev = winner'[o].rev => EntryOf(c) = winner'[o]
    BY <1>4, <1>6, <2>1 DEF ToldOfItem
  <2>3. \A k \in Stones(o)', c \in Bodies(o)' : k # 0 /\ c.rev = k => c.deleted
    BY <1>4, <1>6 DEF ToldOfItem
  <2>4. \A k \in Stones(o)' : Seen(o, k)' BY <1>4, <1>5, <1>6
  <2>5. Held(o)' BY <2>1 DEF ToldOfItem, Held, Expired
  <2> QED BY <2>2, <2>3, <2>4, <2>5 DEF ToldOfItem
<1>7. CASE o = p
  <2>1. ASSUME NEW k, Seen(o, k) PROVE k # now BY <1>0, <1>2, <1>7, <2>1, EditIsNew
  <2>2. Seen(o, now)' BY <1>0, <1>1, <1>2, <1>7, EditIsSeen
  <2>3. /\ e = EntryOf(b) /\ e.rev = now /\ b.rev = now /\ b.deleted = e.deleted
        /\ winner'[o] = IF now >= winner[o].rev THEN e ELSE winner[o]
        /\ index'[d][o] = e
        /\ \A c \in Device : c # d => index'[c][o] = index[c][o]
    BY <1>0, <1>2, <1>7 DEF Edited, EntryOf, HoldsNow
  <2>4. \/ s \in Stones(o)
        \/ s = now /\ b.deleted
    BY <1>2, <1>7, <2>3, WhereStones DEF Edited
  <2>5. \A c \in Bodies(o) : c.rev # now /\ c.rev <= winner[o].rev /\ c.rev \in Nat
    BY <1>3, <2>1 DEF Told, Seen, Blob
  <2>6. \A k \in Stones(o) : k # now BY <2>1 DEF ToldOfItem
  <2>7. \A c \in Bodies(o)' : c.rev = winner'[o].rev => EntryOf(c) = winner'[o]
    <3> SUFFICES ASSUME NEW c \in Bodies(o)', c.rev = winner'[o].rev
        PROVE  EntryOf(c) = winner'[o]
      OBVIOUS
    <3>1. CASE c = b BY <1>2, <1>3, <2>3, <3>1
    <3>2. CASE c \in Bodies(o) BY <1>2, <1>3, <2>3, <2>5, <3>2 DEF ToldOfItem
    <3> QED BY <1>4, <3>1, <3>2
  <2>8. \A k \in Stones(o)', c \in Bodies(o)' : k # 0 /\ c.rev = k => c.deleted
    BY <1>4, <2>3, <2>4, <2>5, <2>6 DEF ToldOfItem
  <2>9. \A k \in Stones(o)' : Seen(o, k)' BY <1>4, <1>5, <2>2, <2>4
  <2>10. Held(o)'
    <3>1. CASE now >= winner[o].rev
      <4>1. winner'[o] = e /\ index'[d][o] = winner'[o] BY <2>3, <3>1
      <4> QED BY <4>1 DEF Held
    <3>2. CASE ~(now >= winner[o].rev)
      <4>1. UNCHANGED horizon /\ winner'[o] = winner[o] BY <1>2, <2>3, <3>2
      <4>2. index[d][o] # winner[o]
        <5>1. index[d][o].rev \in Nat /\ now > index[d][o].rev BY <1>0, <1>2, <1>7, RevisionTypes
        <5> QED BY <1>2, <1>3, <3>2, <5>1
      <4> QED BY <2>3, <4>1, <4>2 DEF ToldOfItem, Held, Expired
    <3> QED BY <3>1, <3>2
  <2> QED BY <2>7, <2>8, <2>9, <2>10 DEF ToldOfItem
<1> QED BY <1>6, <1>7

(* What holds of an item's versions goes on holding. *)
LEMMA ToldOfItemStep ==
  ASSUME TypeOK, VaultConsistent, RoundsFit, ClocksApart, [Next]_vars,
         NEW o \in Item, Told(o), ToldOfItem(o)
  PROVE  ToldOfItem(o)'
<1>0. o \in Obj /\ o \notin Rule BY KindsAssumption DEF Obj
<1>1. CASE ~\E d \in Device : Edit(d)
  <2>1. /\ Bodies(o)' \subseteq Bodies(o)
        /\ \A k \in Stones(o)' : k \in Stones(o) \cup DeadRevs(o)
    BY <1>0, <1>1, NothingNew DEF MadeUp
  <2>2. UNCHANGED winner BY <1>1, OnlyEditsIssue
  <2>3. Bodies(o) \subseteq Blob /\ Stones(o) \subseteq Nat BY <1>0, CirculationType
  <2>4. \A k \in DeadRevs(o) : \E c \in Bodies(o) : c.deleted /\ k = c.rev BY DEF DeadRevs
  <2>5. \A c \in Bodies(o)' : c.rev = winner'[o].rev => EntryOf(c) = winner'[o]
    BY <2>1, <2>2 DEF ToldOfItem
  <2>6. \A k \in Stones(o)', c \in Bodies(o)' : k # 0 /\ c.rev = k => c.deleted
    BY <2>1, <2>4 DEF ToldOfItem, Told
  <2>7. ASSUME NEW k \in Stones(o)' PROVE Seen(o, k)'
    <3>1. k \in Nat /\ Seen(o, k)
      BY <2>1, <2>3, <2>4, <2>7 DEF ToldOfItem, Told, Blob
    <3> QED BY <1>0, <3>1, SeenKept
  <2>8. Held(o)' BY <1>1, HeldKept
  <2> QED BY <2>5, <2>6, <2>7, <2>8 DEF ToldOfItem
<1> QED BY <1>1, ItemEditStep

(* The inductive invariant of the circulation. *)
Circulation ==
  /\ RoundsFit
  /\ \A o \in Obj : Told(o)
  /\ \A o \in Item : ToldOfItem(o)

(* At the start every device holds the seed, and nothing else is about. *)
LEMMA CirculationInit ==
  ASSUME Init
  PROVE  Circulation
<1>1. RoundsFit
  <2>1. \A t \in Syncer : round[t] = NoRound BY DEF Init
  <2> QED BY <2>1, NoRoundFits DEF RoundsFit, PurgesFit
<1>2. ASSUME NEW o \in Obj
      PROVE  /\ rfile[o] = SeedBlob(o) /\ rtomb[o] = 0
             /\ \A d \in Device : /\ file[d][o] = SeedBlob(o) /\ tomb[d][o] = 0
                                  /\ index[d][o] = SeedEntry(o)
             /\ \A t \in Syncer : /\ round[t].obj = {} /\ round[t].imports[o].blob = NoBlob
                                  /\ round[t].imports[o].tomb = 0
             /\ winner[o] = SeedEntry(o) /\ horizon = 0
  BY DEF Init, NoRound, NoImport
<1>3. ASSUME NEW o \in Obj
      PROVE  /\ EntryOf(SeedBlob(o)) = SeedEntry(o) /\ EntryOf(NoBlob) = Absent
             /\ SeedEntry(o) \in {Absent, [rev |-> 1, deleted |-> FALSE]}
             /\ SeedBlob(o).rev = SeedEntry(o).rev
             /\ SeedEntry(o).rev = 0 => SeedBlob(o) = NoBlob /\ SeedEntry(o) = Absent
             /\ SeedEntry(o).rev \in {0, 1} /\ NoBlob.rev = 0
  BY DEF SeedBlob, SeedEntry, EntryOf, NoBlob, Absent
<1>4. ASSUME NEW o \in Obj
      PROVE  Bodies(o) \subseteq {NoBlob, SeedBlob(o)} /\ Stones(o) = {0}
  BY <1>2 DEF Bodies, Stones
<1>5. ASSUME NEW o \in Obj PROVE Seen(o, SeedEntry(o).rev) /\ Seen(o, 0)
  BY <1>2, <1>3 DEF Seen
<1>6. ASSUME NEW o \in Obj PROVE Told(o)
  BY <1>2, <1>3, <1>4, <1>5 DEF Told
<1>7. ASSUME NEW o \in Item PROVE ToldOfItem(o)
  <2>1. o \in Obj BY DEF Obj
  <2>2. \A b \in Bodies(o) : b.rev = winner[o].rev => EntryOf(b) = winner[o]
    BY <1>2, <1>3, <1>4, <2>1
  <2>3. Held(o) BY <1>2, <2>1 DEF Held
  <2> QED BY <1>4, <1>5, <2>1, <2>2, <2>3 DEF ToldOfItem
<1> QED BY <1>1, <1>6, <1>7 DEF Circulation

(* Is the newest version of o a deletion 30 days old? *)
LongDeleted(o) == winner[o].deleted /\ Expired(winner[o].rev)

(* What the devices show of an item once they have nothing left to exchange. *)
ItemSettled(o) ==
  \A d \in Device :
    /\ \A e \in Device : Visible(d, o) = Visible(e, o)
    /\ Visible(d, o) # NoBlob => index[d][o] = winner[o] \/ LongDeleted(o)
    /\ winner[o].rev # 0 /\ ~winner[o].deleted => Visible(d, o) # NoBlob

(* A quiet device holds of o what the remote index names. *)
LEMMA QuietHolds ==
  ASSUME TypeOK, NEW d \in Device, Quiet(d), NEW o \in Obj
  PROVE  IF rindex[o].rev # 0 THEN index[d][o] = rindex[o]
                              ELSE index[d][o].rev = 0 \/ index[d][o].deleted
<1>1. index[d][o] \in Entry /\ rindex[o] \in Entry BY DEF TypeOK, Index
<1>2. DiffPull(index[d], rindex) = {} /\ DiffPush(index[d], rindex) = {} BY DEF Quiet
<1>3. o \notin DiffPull(index[d], rindex) /\ o \notin DiffPush(index[d], rindex) BY <1>2
<1>4. ~(rindex[o].rev # 0 /\ \/ index[d][o].rev < rindex[o].rev
                             \/ /\ index[d][o].rev = rindex[o].rev
                                /\ index[d][o].deleted # rindex[o].deleted)
  BY <1>3 DEF DiffPull
<1>5. ~(rindex[o].rev # 0 /\ index[d][o].rev > rindex[o].rev)
      /\ ~(rindex[o].rev = 0 /\ index[d][o].rev # 0 /\ ~index[d][o].deleted)
  BY <1>3 DEF DiffPush
<1>6. PICK e \in Entry : e = index[d][o] BY <1>1
<1>7. PICK r \in Entry : r = rindex[o] BY <1>1
<1>8. e.rev \in Nat /\ r.rev \in Nat BY DEF Entry
<1>9. r.rev # 0 => e.rev = r.rev /\ e.deleted = r.deleted BY <1>4, <1>5, <1>6, <1>7, <1>8
<1>10. r.rev # 0 => e = r BY <1>9 DEF Entry
<1> QED BY <1>5, <1>6, <1>7, <1>10

(* With the circulation right, quiet devices agree on an item. *)
LEMMA QuietItemsAgree ==
  ASSUME TypeOK, VaultConsistent, Circulation, Settled, NEW o \in Item
  PROVE  ItemSettled(o)
<1>0. o \in Obj /\ Told(o) /\ ToldOfItem(o) BY DEF Obj, Circulation
<1> SUFFICES ASSUME NEW d \in Device
    PROVE  /\ \A e \in Device : Visible(d, o) = Visible(e, o)
           /\ Visible(d, o) # NoBlob => index[d][o] = winner[o] \/ LongDeleted(o)
           /\ winner[o].rev # 0 /\ ~winner[o].deleted => Visible(d, o) # NoBlob
  BY DEF ItemSettled
<1>1. \A e \in Device : IF rindex[o].rev # 0 THEN index[e][o] = rindex[o]
                        ELSE index[e][o].rev = 0 \/ index[e][o].deleted
  BY <1>0, QuietHolds DEF Settled
<1>2. \A e \in Device : /\ index[e][o] = EntryOf(file[e][o])
                        /\ file[e][o] \in Bodies(o)
  BY <1>0, WhereBodies DEF VaultConsistent, ItemsIndexedAsSealed
<1>3. ASSUME NEW e \in Device PROVE index[e][o].rev = file[e][o].rev
  <2>1. index[e][o] = [rev |-> file[e][o].rev, deleted |-> file[e][o].deleted]
    BY <1>2 DEF EntryOf
  <2> QED BY <2>1
<1>4. CASE rindex[o].rev # 0
  <2>1. \A e \in Device : file[e][o].rev = rindex[o].rev BY <1>1, <1>3, <1>4
  <2>2. \A e \in Device : file[e][o] = file[d][o] BY <1>0, <1>2, <2>1 DEF Told
  <2>3. \A e \in Device : Visible(d, o) = Visible(e, o) BY <1>1, <1>4, <2>2 DEF Visible
  <2>4. file[d][o].rev <= winner[o].rev /\ winner[o].rev \in Nat /\ file[d][o].rev \in Nat
    BY <1>0, <1>2, RevisionTypes DEF Told, Seen
  <2>5. winner[o].rev # 0 BY <1>4, <2>1, <2>4, NothingType
  <2>6. index[d][o] = winner[o] \/ LongDeleted(o)
    BY <1>0, <1>1, <1>4, <2>5 DEF ToldOfItem, Held, LongDeleted
  <2>7. winner[o].rev # 0 /\ ~winner[o].deleted => Visible(d, o) # NoBlob
    <3>1. file[d][o] # NoBlob BY <1>4, <2>1 DEF NoBlob
    <3> QED BY <2>6, <3>1 DEF LongDeleted, Visible
  <2> QED BY <2>3, <2>6, <2>7
<1>5. CASE rindex[o].rev = 0
  <2>1. \A e \in Device : Visible(e, o) = NoBlob BY <1>1, <1>5 DEF Visible
  <2>2. winner[o].rev # 0 => winner[o].deleted
    BY <1>0, <1>1, <1>5 DEF ToldOfItem, Held
  <2> QED BY <2>1, <2>2
<1> QED BY <1>4, <1>5

(* The circulation invariant holds throughout. *)
LEMMA CirculationHolds ==
  ASSUME ClocksApart
  PROVE  Spec => []Circulation
<1>1. Init => Circulation BY CirculationInit
<1>2. TypeOK /\ VaultConsistent /\ Circulation /\ [Next]_vars => Circulation'
  <2> SUFFICES ASSUME TypeOK, VaultConsistent, Circulation, [Next]_vars PROVE Circulation'
    OBVIOUS
  <2>1. RoundsFit' BY RoundsFitStep DEF Circulation
  <2>2. \A o \in Obj : Told(o)' BY ToldStep DEF Circulation
  <2>3. \A o \in Item : ToldOfItem(o)' BY ToldOfItemStep DEF Circulation, Obj
  <2> QED BY <2>1, <2>2, <2>3 DEF Circulation
<1> QED BY <1>1, <1>2, TypeCorrect, VaultConsistency, PTL DEF Spec

(***************************************************************************)
(* However the rounds of any number of devices overlap, fail and are       *)
(* retried, and however often the remote index is lost: once no device has *)
(* anything left to exchange, all of them show the same items, in their    *)
(* newest version.  The exception is an item whose newest version is a     *)
(* deletion 30 days old: a device that was away for so long may have       *)
(* brought an older version back, and then all of them show that one       *)
(* (engine.rs, apply_round and vault.rs, import_item).                     *)
(***************************************************************************)
THEOREM ItemsSettle ==
  ASSUME ClocksApart
  PROVE  Spec => [](Settled => \A o \in Item : ItemSettled(o))
<1>1. TypeOK /\ VaultConsistent /\ Circulation => (Settled => \A o \in Item : ItemSettled(o))
  BY QuietItemsAgree
<1> QED BY <1>1, CirculationHolds, TypeCorrect, VaultConsistency, PTL

(***************************************************************************)
(* In particular the devices agree on every item, and no edit was lost,    *)
(* for as long as no deletion is 30 days old.                              *)
(***************************************************************************)
THEOREM SettledItemsAgreement ==
  ASSUME ClocksApart
  PROVE  Spec => []((\A o \in Item : ~LongDeleted(o)) => SettledItemsAgree)
<1>1. (Settled => \A o \in Item : ItemSettled(o)) =>
        ((\A o \in Item : ~LongDeleted(o)) => SettledItemsAgree)
  BY DEF ItemSettled, SettledItemsAgree, AgreedOn
<1> QED BY <1>1, ItemsSettle, PTL

-----------------------------------------------------------------------------
(***************************************************************************)
(* Hard deletions.  A device loses a body only to a deletion 30 days old:  *)
(* its own, or one that the same round brings.  For this, what a round     *)
(* imports must have a body, and a rule without an entry must have none.   *)
(***************************************************************************)
GotBody(r) ==
  /\ \A o \in Obj : r.imports[o].rev # 0 => r.imports[o].blob.rev # 0
  /\ r.pc \in {"fetchTomb", "arbitrate"} => r.import.blob.rev # 0

RulesIndexed == \A d \in Device, o \in Rule : index[d][o].rev = 0 => file[d][o] = NoBlob

WholeImports == RulesIndexed /\ \A t \in Syncer : GotBody(round[t])

(* An import in hand or buffered keeps its body. *)
LEMMA AssembledGotBody ==
  ASSUME NEW r \in Round, GotBody(r), NEW q, NEW o \in Obj, NEW i \in Import,
         InHandOrBuffered(q, r, o, i), i.blob.rev # 0
  PROVE  GotBody(q)
<1>1. r.imports \in [Obj -> Import] BY DEF Round
<1>2. q.imports = r.imports \/ q.imports = [r.imports EXCEPT ![o] = i]
  BY DEF InHandOrBuffered
<1>3. \A p \in Obj : q.imports[p] = r.imports[p] \/ q.imports[p] = i BY <1>1, <1>2
<1>4. q.pc = "transfer" \/ (q.pc = "fetchTomb" /\ q.import = i) BY DEF InHandOrBuffered
<1> QED BY <1>3, <1>4 DEF GotBody

(* A round that gives up has none. *)
LEMMA NoRoundGotBody == GotBody(NoRound)
  BY DEF GotBody, NoRound, NoImport

(* No step of a round takes an import without a body. *)
LEMMA RoundGetsBody ==
  ASSUME TypeOK, NEW t \in Syncer, GotBody(round[t]),
         StartRound(t) \/ Advance(t) \/ Abandon(t)
  PROVE  \E q : Moved(t, q) /\ GotBody(q)
<1>0. round \in [Syncer -> Round] /\ round[t] \in Round BY DEF TypeOK
<1> DEFINE Goal == \E q : Moved(t, q) /\ GotBody(q)
<1>1. ASSUME NEW q, Moved(t, q), q.imports = round[t].imports,
             q.pc \notin {"fetchTomb", "arbitrate"}
      PROVE  Goal
  BY <1>1 DEF GotBody
<1>2. CASE Become(t, NoRound)
  BY <1>0, <1>2, NoRoundType, NoRoundGotBody, BecomeMoves
<1>3. CASE StartRound(t)
  <2>1. PICK q : /\ Moved(t, q) /\ q.imports = [o \in Obj |-> NoImport]
                 /\ q.pc \in {"plan", "list"}
    BY <1>3, StartShape
  <2>2. GotBody(q) BY <2>1 DEF GotBody, NoImport
  <2> QED BY <2>1, <2>2
<1>4. CASE ListBody(t) \/ ListTomb(t)
  <2>1. round[t].pc \in {"list", "listTomb"} BY <1>4 DEF ListBody, ListTomb, At
  <2>2. PICK q : /\ Moved(t, q) /\ q.imports = round[t].imports
                 /\ q.pc \in {round[t].pc, "list", "listTomb"}
    BY <1>4, ListShape
  <2> QED BY <1>1, <2>1, <2>2
<1>5. CASE ListDone(t) \/ PutIndex(t)
  <2>1. PICK p \in {"plan", "apply", "reget"} : Become(t, [round[t] EXCEPT !.pc = p])
    BY <1>5 DEF ListDone, PutIndex
  <2>2. p \in Phase BY DEF Phase
  <2>3. PICK q : Moved(t, q) /\ q.pc = p /\ OnlyPhase(q, round[t])
    BY <2>1, <2>2, PhaseShape
  <2> QED BY <1>1, <2>3 DEF OnlyPhase, SamePulls
<1>6. CASE Plan(t) BY <1>1, <1>6, PlanShape
<1>7. CASE Pull(t)
  <2>1. round[t].pc = "transfer" BY <1>7 DEF Pull, At
  <2>2. PICK o \in round[t].pulls, q \in Round :
          /\ Moved(t, q)
          /\ \/ q.imports = round[t].imports /\ q.pc = round[t].pc
             \/ /\ rfile[o].rev # 0
                /\ InHandOrBuffered(q, round[t], o,
                                    PulledImport(o, rfile[o], round[t].base[o]))
    BY <1>7, PullShape
  <2>3. o \in Obj BY <1>0 DEF Round
  <2>4. rfile[o] \in Blob /\ round[t].base[o] \in Entry
    BY <1>0, <2>3 DEF TypeOK, Round, Index
  <2>5. PICK i : i = PulledImport(o, rfile[o], round[t].base[o]) OBVIOUS
  <2>6. i \in Import /\ i.blob = rfile[o]
    BY <2>4, <2>5 DEF PulledImport, Import, Entry, Blob
  <2>7. CASE rfile[o].rev # 0 /\ InHandOrBuffered(q, round[t], o, i)
    <3>1. GotBody(q) BY <1>0, <2>3, <2>6, <2>7, AssembledGotBody
    <3> QED BY <2>2, <3>1
  <2> QED BY <1>1, <2>1, <2>2, <2>5, <2>7
<1>8. CASE FetchTomb(t)
  <2>1. round[t].pc = "fetchTomb" BY <1>8 DEF FetchTomb, At
  <2>2. PICK o \in round[t].obj, j \in Import : \E q :
          /\ Moved(t, q) /\ q.pc = "transfer"
          /\ q.imports = [round[t].imports EXCEPT ![o] = j]
          /\ j.blob = round[t].import.blob
    BY <1>8, FetchTombShape
  <2>3. PICK q : /\ Moved(t, q) /\ q.pc = "transfer"
                 /\ q.imports = [round[t].imports EXCEPT ![o] = j]
    BY <2>2
  <2>4. round[t].imports \in [Obj -> Import] BY <1>0 DEF Round
  <2>5. \A p \in Obj : q.imports[p] = round[t].imports[p] \/ q.imports[p] = j
    BY <2>3, <2>4
  <2>6. j.blob.rev # 0 BY <2>1, <2>2 DEF GotBody
  <2>7. GotBody(q) BY <2>3, <2>5, <2>6 DEF GotBody
  <2> QED BY <2>3, <2>7
<1>9. CASE BeginPush(t)
  <2>1. round[t].pc = "transfer" BY <1>9 DEF BeginPush, At
  <2>2. PICK q : /\ Moved(t, q) /\ SamePulls(q, round[t])
                 /\ q.pc = round[t].pc \/ q.pc = "put"
    BY <1>9, BeginPushShape
  <2> QED BY <1>1, <2>1, <2>2 DEF SamePulls
<1>10. CASE Put(t)
  <2>1. PICK q : /\ Moved(t, q) /\ SamePulls(q, round[t])
                 /\ q.pc \in {"pushTomb", "transfer", "resolve"}
    BY <1>10, PutShape
  <2> QED BY <1>1, <2>1 DEF SamePulls
<1>11. CASE PushTomb(t) BY <1>1, <1>11, PushTombShape DEF SamePulls
<1>12. CASE Resolve(t) \/ Arbitrate(t) \/ Refresh(t)
  <2> SUFFICES ASSUME ~Become(t, NoRound) PROVE Goal BY <1>2
  <2>1. PICK o \in round[t].obj, q \in Round :
          /\ Moved(t, q)
          /\ \/ /\ q.imports = round[t].imports
                /\ q.pc \in {"put", "refresh", "arbitrate"}
                /\ q.pc = "arbitrate" => q.import.blob.rev # 0
             \/ \E i \in Import :
                  /\ InHandOrBuffered(q, round[t], o, i)
                  /\ \/ i.blob.rev # 0
                     \/ i.blob = round[t].import.blob /\ round[t].pc = "arbitrate"
    BY <1>12, ResolveShape DEF Moved
  <2>2. o \in Obj BY <1>0 DEF Round
  <2>3. CASE /\ q.imports = round[t].imports
             /\ q.pc \in {"put", "refresh", "arbitrate"}
             /\ q.pc = "arbitrate" => q.import.blob.rev # 0
    <3>1. GotBody(q) BY <2>3 DEF GotBody
    <3> QED BY <2>1, <3>1
  <2>4. ASSUME NEW i \in Import, InHandOrBuffered(q, round[t], o, i),
               i.blob.rev # 0 \/ (i.blob = round[t].import.blob /\ round[t].pc = "arbitrate")
        PROVE  Goal
    <3>1. i.blob.rev # 0 BY <2>4 DEF GotBody
    <3>2. GotBody(q) BY <1>0, <2>2, <2>4, <3>1, AssembledGotBody
    <3> QED BY <2>1, <3>2
  <2> QED BY <2>1, <2>3, <2>4
<1>13. CASE BeginPurge(t) BY <1>1, <1>13, BeginPurgeShape DEF SamePulls
<1>14. CASE PurgeBody(t) BY <1>1, <1>14, PurgeBodyShape DEF SamePulls
<1>15. CASE PurgeTomb(t) BY <1>1, <1>15, PurgeTombShape DEF SamePulls
<1>16. CASE Reget(t)
  <2>1. PICK q : /\ Moved(t, q) /\ SamePulls(q, round[t]) /\ q.pc \in {"apply", "plan"}
    BY <1>16, RegetShape
  <2> QED BY <1>1, <2>1 DEF SamePulls
<1>17. CASE Apply(t) \/ Abandon(t) BY <1>2, <1>17 DEF Apply, Abandon
<1> QED BY <1>3, <1>4, <1>5, <1>6, <1>7, <1>8, <1>9, <1>10, <1>11, <1>12, <1>13, <1>14,
           <1>15, <1>16, <1>17 DEF Advance

(* Whatever happens, every import has its body, and every rule its entry. *)
LEMMA WholeImportsStep ==
  ASSUME TypeOK, VaultConsistent, WholeImports, [Next]_vars
  PROVE  WholeImports'
<1>1. ASSUME UNCHANGED <<file, index>> PROVE RulesIndexed'
  BY <1>1 DEF WholeImports, RulesIndexed
<1>2. ASSUME UNCHANGED round PROVE \A u \in Syncer : GotBody(round[u])'
  BY <1>2 DEF WholeImports, GotBody
<1>3. ASSUME NEW t \in Syncer, StartRound(t) \/ Advance(t) \/ Abandon(t)
      PROVE  \A u \in Syncer : GotBody(round[u])'
  <2>1. PICK q : Moved(t, q) /\ GotBody(q) BY <1>3, RoundGetsBody DEF WholeImports
  <2>2. \A u \in Syncer : round'[u] = IF u = t THEN q ELSE round[u] BY <2>1 DEF Moved
  <2> QED BY <2>1, <2>2 DEF WholeImports, GotBody
<1>4. ASSUME NEW t \in Syncer, Apply(t) PROVE RulesIndexed'
  <2> SUFFICES ASSUME NEW d \in Device, NEW o \in Rule, index'[d][o].rev = 0
      PROVE  file'[d][o] = NoBlob
    BY DEF RulesIndexed
  <2>1. o \in Obj /\ o \notin Item BY KindsAssumption DEF Obj
  <2>2. index[d][o].rev = 0 => file[d][o] = NoBlob BY DEF WholeImports, RulesIndexed
  <2>3. CASE d # Home[t] BY <1>4, <2>1, <2>2, <2>3, ApplyShape DEF HoldsNow
  <2>4. CASE d = Home[t]
    <3>1. PICK f \in Blob, e \in Entry, s \in Nat :
            /\ Arbitrated(t, o, f, e, s)
            /\ HoldsNow(d, o, f, e, s) \/ HoldsNow(d, o, NoBlob, Absent, 0)
      BY <1>4, <2>1, <2>4, ApplyShape
    <3>2. CASE HoldsNow(d, o, NoBlob, Absent, 0) BY <3>2 DEF HoldsNow
    <3>3. CASE HoldsNow(d, o, f, e, s)
      <4>1. e.rev = 0 /\ file'[d][o] = f BY <3>3 DEF HoldsNow
      <4>2. e = index[d][o] /\ f = file[d][o]
        <5>1. CASE round[t].imports[o].rev # 0 /\ e = ImportedEntry(o, round[t].imports[o])
          <6>1. e.rev = round[t].imports[o].rev BY <2>1, <5>1 DEF ImportedEntry
          <6> QED BY <4>1, <5>1, <6>1
        <5> QED BY <2>4, <3>1, <5>1 DEF Arbitrated
      <4> QED BY <2>2, <4>1, <4>2
    <3> QED BY <3>1, <3>2, <3>3
  <2> QED BY <2>3, <2>4
<1>5. ASSUME NEW t \in Syncer, StartRound(t) \/ Advance(t) \/ Abandon(t) PROVE RulesIndexed'
  <2>1. CASE ~Apply(t)
    <3>1. UNCHANGED local BY <1>5, <2>1, FetchIsRemote
    <3> QED BY <1>1, <3>1 DEF local
  <2> QED BY <1>4, <2>1
<1>6. ASSUME NEW c \in Device, Edit(c) PROVE WholeImports'
  <2>1. PICK p \in Obj, now \in Nat \ {0}, b \in Blob, e \in Entry, s \in Nat :
          Edited(c, p, now, b, e, s) /\ UNCHANGED round
    BY <1>6, EditShape
  <2>2. ASSUME NEW d \in Device, NEW o \in Rule, index'[d][o].rev = 0
        PROVE  file'[d][o] = NoBlob
    <3>1. o \in Obj BY DEF Obj
    <3>2. CASE d = c /\ o = p
      <4>1. index'[d][o] = e /\ e.rev = now BY <2>1, <3>2 DEF Edited, HoldsNow
      <4> QED BY <2>2, <4>1
    <3>3. CASE ~(d = c /\ o = p)
      <4>1. file'[d][o] = file[d][o] /\ index'[d][o] = index[d][o]
        BY <2>1, <3>1, <3>3 DEF Edited, HoldsNow
      <4> QED BY <2>2, <4>1 DEF WholeImports, RulesIndexed
    <3> QED BY <3>2, <3>3
  <2>3. RulesIndexed' BY <2>2 DEF RulesIndexed
  <2> QED BY <1>2, <2>1, <2>3 DEF WholeImports
<1>7. ASSUME NEW c \in Device, Restart(c) PROVE WholeImports'
  <2>1. UNCHANGED <<file, index>>
        /\ \A u \in Syncer : round'[u] = NoRound \/ round'[u] = round[u]
    BY <1>7 DEF Restart
  <2> QED BY <1>1, <2>1, NoRoundGotBody DEF WholeImports, GotBody
<1>8. ASSUME LoseIndex \/ UNCHANGED vars \/ \E h \in 1..MaxRev : GraceElapses(h)
      PROVE  WholeImports'
  <2>1. UNCHANGED <<file, index, round>>
    BY <1>8 DEF LoseIndex, GraceElapses, vars, local
  <2> QED BY <1>1, <1>2, <2>1 DEF WholeImports
<1> QED BY <1>3, <1>5, <1>6, <1>7, <1>8 DEF Next, WholeImports

(* It is so at the start. *)
LEMMA WholeImportsInit ==
  ASSUME Init
  PROVE  WholeImports
<1>1. \A o \in Obj : SeedEntry(o).rev = 0 => SeedBlob(o) = NoBlob
  BY DEF SeedEntry, SeedBlob, Absent
<1>2. RulesIndexed BY <1>1 DEF Init, RulesIndexed, Obj
<1>3. \A t \in Syncer : round[t] = NoRound BY DEF Init
<1> QED BY <1>2, <1>3, NoRoundGotBody DEF WholeImports

(***************************************************************************)
(* The round of device d that is about to be applied brings a deletion of  *)
(* o, 30 days old, that replaces what the device holds, and has purged the *)
(* tombstone of that very deletion, which the device held before its body. *)
(***************************************************************************)
PurgedOnArrival(d, o) ==
  \E t \in Syncer :
    LET i == round[t].imports[o]
        e == ImportedEntry(o, i)
    IN  /\ Home[t] = d /\ At(t, "apply")
        /\ i.rev # 0 /\ RemoteWins(d, o, i)
        /\ e.deleted /\ Expired(e.rev)
        /\ \E p \in round[t].condemned : p[1] = o /\ p[2] = e.rev

(* A body may go only with a deletion 30 days old. *)
GoneOnlyIfDeleted(d, o) ==
  file[d][o] # NoBlob /\ file'[d][o] = NoBlob =>
    (index[d][o].deleted /\ Expired(index[d][o].rev)) \/ PurgedOnArrival(d, o)

(* What a hard deletion takes away is a deletion, and an old one. *)
LEMMA HardDeletedIsDead ==
  ASSUME TypeOK, VaultConsistent, Circulation, WholeImports, NEW t \in Syncer, NEW o \in Obj,
         NEW f \in Blob, NEW e \in Entry, NEW s \in Nat, Arbitrated(t, o, f, e, s), f # NoBlob,
         NEW p \in round[t].condemned, StillDead(o, p[2], f, e, s)
  PROVE  e.deleted /\ Expired(e.rev) /\ e.rev = p[2]
<1>0. Home[t] \in Device /\ RoundsFit /\ Told(o) BY HomeAssumption DEF Circulation
<1>1. s # 0 /\ s = p[2] /\ Expired(s) BY <1>0, HardDeletedIsOld
<1>2. CASE o \in Item
  <2>1. e = EntryOf(f) BY <1>2, ArbitratedUp
  <2>2. f \in Bodies(o) /\ s \in Stones(o) /\ NoBlob \in Bodies(o)
    BY <1>0, WhereBodies, WhereStones DEF Arbitrated
  <2>3. f.rev # 0 BY <1>0, <2>2 DEF Told, NoBlob
  <2>4. f.rev = s BY <1>1, <1>2, <2>3, KindsAssumption DEF StillDead
  <2>5. f.deleted BY <1>1, <1>2, <2>2, <2>4 DEF Circulation, ToldOfItem
  <2> QED BY <1>1, <2>1, <2>4, <2>5 DEF EntryOf
<1>3. CASE o \in Rule
  <2>1. e.rev = 0 \/ e = [rev |-> s, deleted |-> TRUE] BY <1>1, <1>3 DEF StillDead
  <2>2. e.rev # 0
    <3>1. CASE f = file[Home[t]][o] /\ e = index[Home[t]][o]
      BY <1>0, <1>3, <3>1 DEF WholeImports, RulesIndexed
    <3>2. CASE round[t].imports[o].rev # 0 /\ e = ImportedEntry(o, round[t].imports[o])
      <4>1. e.rev = round[t].imports[o].rev BY <1>3, <3>2, KindsAssumption DEF ImportedEntry
      <4> QED BY <3>2, <4>1
    <3> QED BY <3>1, <3>2 DEF Arbitrated
  <2> QED BY <1>1, <2>1, <2>2
<1> QED BY <1>2, <1>3 DEF Obj

(* The apply phase takes no other body away. *)
LEMMA ApplyTakesTheDead ==
  ASSUME TypeOK, VaultConsistent, Circulation, WholeImports, NEW t \in Syncer, Apply(t),
         NEW d \in Device, NEW o \in Obj
  PROVE  GoneOnlyIfDeleted(d, o)
<1> SUFFICES ASSUME file[d][o] # NoBlob, file'[d][o] = NoBlob
    PROVE  (index[d][o].deleted /\ Expired(index[d][o].rev)) \/ PurgedOnArrival(d, o)
  BY DEF GoneOnlyIfDeleted
<1> DEFINE i == round[t].imports[o]
<1>1. d = Home[t] BY ApplyShape DEF HoldsNow
<1>2. PICK f \in Blob, e \in Entry, s \in Nat :
        /\ Arbitrated(t, o, f, e, s)
        /\ \/ HoldsNow(d, o, f, e, s)
           \/ \E p \in round[t].condemned : p[1] = o /\ StillDead(o, p[2], f, e, s)
  BY <1>1, ApplyShape
<1>3. f # NoBlob
  <2>1. i.rev # 0 => i.blob.rev # 0 BY DEF WholeImports, GotBody
  <2>2. NoBlob.rev = 0 BY DEF NoBlob
  <2>3. f = file[d][o] \/ (f = i.blob /\ i.rev # 0) BY <1>1, <1>2 DEF Arbitrated
  <2> HIDE DEF i
  <2> QED BY <2>1, <2>2, <2>3
<1>4. /\ e.deleted /\ Expired(e.rev)
      /\ \E p \in round[t].condemned : p[1] = o /\ p[2] = e.rev
  <2>1. ~HoldsNow(d, o, f, e, s) BY <1>3 DEF HoldsNow
  <2>2. PICK p \in round[t].condemned : p[1] = o /\ StillDead(o, p[2], f, e, s)
    BY <1>2, <2>1
  <2> QED BY <1>2, <1>3, <2>2, HardDeletedIsDead
<1>5. At(t, "apply") BY DEF Apply
<1>6. CASE e = index[d][o] BY <1>4, <1>6
<1>7. CASE i.rev # 0 /\ RemoteWins(d, o, i) /\ e = ImportedEntry(o, i)
  BY <1>1, <1>4, <1>5, <1>7 DEF PurgedOnArrival
<1> QED BY <1>1, <1>2, <1>6, <1>7 DEF Arbitrated

(* Neither does any other step. *)
LEMMA OnlyTheDeadGo ==
  ASSUME TypeOK, VaultConsistent, Circulation, WholeImports, [Next]_vars,
         NEW d \in Device, NEW o \in Obj
  PROVE  GoneOnlyIfDeleted(d, o)
<1>1. ASSUME UNCHANGED file PROVE GoneOnlyIfDeleted(d, o)
  BY <1>1 DEF GoneOnlyIfDeleted
<1>2. ASSUME NEW t \in Syncer, StartRound(t) \/ Advance(t) \/ Abandon(t)
      PROVE  GoneOnlyIfDeleted(d, o)
  <2>1. CASE ~Apply(t)
    <3>1. UNCHANGED local BY <1>2, <2>1, FetchIsRemote
    <3> QED BY <1>1, <3>1 DEF local
  <2> QED BY <2>1, ApplyTakesTheDead
<1>3. ASSUME NEW c \in Device, Edit(c) PROVE GoneOnlyIfDeleted(d, o)
  <2>1. PICK p \in Obj, now \in Nat \ {0}, b \in Blob, e \in Entry, s \in Nat :
          Edited(c, p, now, b, e, s)
    BY <1>3, EditShape
  <2>2. b.rev # 0 \/ b = file[c][p]
    <3>1. b.rev = now \/ b = file[c][p] \/ (e = EntryOf(b) /\ e.rev = now)
      BY <2>1 DEF Edited
    <3> QED BY <3>1 DEF EntryOf
  <2>3. file'[d][o] = file[d][o] \/ (d = c /\ o = p /\ file'[d][o] = b)
    BY <2>1 DEF Edited, HoldsNow
  <2>4. NoBlob.rev = 0 BY DEF NoBlob
  <2>5. file[d][o] # NoBlob => file'[d][o] # NoBlob BY <2>2, <2>3, <2>4
  <2> QED BY <2>5 DEF GoneOnlyIfDeleted
<1>4. ASSUME \/ \E c \in Device : Restart(c)
             \/ LoseIndex \/ UNCHANGED vars
             \/ \E h \in 1..MaxRev : GraceElapses(h)
      PROVE  UNCHANGED file
  BY <1>4 DEF Restart, LoseIndex, GraceElapses, vars, local
<1> QED BY <1>1, <1>2, <1>3, <1>4 DEF Next

(***************************************************************************)
(* However the rounds of any number of devices overlap, fail and are       *)
(* retried, and however often the remote index is lost, a body disappears  *)
(* from a device only with a deletion that is 30 days old: the device held *)
(* the object as deleted, or its round has purged the tombstone of that    *)
(* deletion and brings the deletion itself along.  A purge decided on a    *)
(* tombstone spares an object that its device has revived, or fetched      *)
(* alive, since (engine.rs, apply_round).                                  *)
(***************************************************************************)
THEOREM OnlyDeletionsAreFinal ==
  ASSUME ClocksApart
  PROVE  Spec => [][\A d \in Device, o \in Obj : GoneOnlyIfDeleted(d, o)]_vars
<1>1. Init => WholeImports BY WholeImportsInit
<1>2. TypeOK /\ VaultConsistent /\ WholeImports /\ [Next]_vars => WholeImports'
  BY WholeImportsStep
<1>3. TypeOK /\ VaultConsistent /\ Circulation /\ WholeImports /\ [Next]_vars =>
        \A d \in Device, o \in Obj : GoneOnlyIfDeleted(d, o)
  BY OnlyTheDeadGo
<1> QED BY <1>1, <1>2, <1>3, TypeCorrect, VaultConsistency, CirculationHolds, PTL DEF Spec
===============================================================================
