------------------------------ MODULE VaultSync ------------------------------
(***************************************************************************)
(* Devices that share a vault through a passive object store.  Each device *)
(* runs rounds of lk-core's two-phase sync engine (lk-core/src/sync), while *)
(* the user's commands keep editing its vault:                             *)
(*                                                                         *)
(*   fetch phase   reads of the local vault, each under its own short read *)
(*                 lock, and requests to the store; no lock is held        *)
(*                 between two of them and nothing local is written;       *)
(*   apply phase   one write-locked, purely local step.                    *)
(*                                                                         *)
(* A request to the store is one step, and so is a command of the user.    *)
(* A local read is taken in the step of the request next to it: nothing    *)
(* another process does tells the two orders apart.                        *)
(***************************************************************************)
EXTENDS SyncPlan

CONSTANTS
  Device,           \* the user's machines
  Syncer,           \* round executors: poller threads, sync.trigger workers
  Home,             \* the device of each syncer
  Content,          \* bodies the user may type, as digest ranks
  Clock,            \* the readings the clock of each device may return
  SkewedClocks,     \* may a clock be behind revisions already seen?
  RoundsMayOverlap, \* may a round start while another one is running?
  OnlineInGrace,    \* does every device synchronise within 30 days?
  IndexMayBeLost,   \* may the remote index.lk disappear?
  Seed,             \* objects every device and the store hold at the start
  MaxRev,           \* bound: no edit is made past this revision
  MaxFailures,      \* bound: failed rounds, restarts and losses of the index
  MaxIndexRetries,  \* MAX_INDEX_CAS_RETRIES
  MaxPushRetries    \* MAX_PUSH_RETRIES

ASSUME HomeAssumption == Home \in [Syncer -> Device]
ASSUME ContentAssumption == Content \subseteq Nat
ASSUME ClockAssumption == Clock \in [Device -> SUBSET (Nat \ {0})]
ASSUME SwitchAssumption ==
  /\ SkewedClocks \in BOOLEAN
  /\ RoundsMayOverlap \in BOOLEAN
  /\ OnlineInGrace \in BOOLEAN
  /\ IndexMayBeLost \in BOOLEAN
ASSUME SeedAssumption == Seed \subseteq Obj
ASSUME BoundAssumption ==
  /\ MaxRev \in Nat /\ MaxFailures \in Nat
  /\ MaxIndexRetries \in Nat /\ MaxPushRetries \in Nat

VARIABLES
  file,      \* file[d][o]: the .item.lk / .rule.lk on device d
  index,     \* index[d][o]: the entry of o in d's index
  tomb,      \* tomb[d][o]: the revision in d's .tomb.lk, 0 when there is none
  last,      \* last[d]: last_revision of d's unlocked vault
  rfile,     \* the remote bodies
  rtomb,     \* the remote tombstones
  rindex,    \* the entries of the remote index.lk
  published, \* is there a remote index.lk?
  fresh,     \* syncers whose index ETag is that of the remote index.lk
  round,     \* round[t]: the state of t's round
  horizon,   \* tombstones up to this revision are 30 days old
  winner,    \* winner[o]: the newest version of o ever issued (a history variable)
  failures   \* failures so far

local  == <<file, index, tomb, last>>
remote == <<rfile, rtomb, rindex, published, fresh>>
vars   == <<local, remote, round, horizon, winner, failures>>

-----------------------------------------------------------------------------
(***************************************************************************)
(* The state of a round.                                                   *)
(***************************************************************************)
Phase == {"idle", "list", "listTomb", "plan", "transfer", "fetchTomb", "put",
          "resolve", "arbitrate", "refresh", "pushTomb", "purge", "purgeTomb",
          "reget", "apply"}

Round ==
  [pc       : Phase,
   base     : Index,          \* remote_idx
   based    : BOOLEAN,        \* remote_etag.is_some()
   snap     : Index,          \* the local index this attempt is based on
   attempt  : Nat,
   listing  : SUBSET Obj,     \* listed objects still to be read
   pulls    : SUBSET Obj,     \* still to be fetched
   pushes   : SUBSET Obj,     \* still to be uploaded
   imports  : [Obj -> Import],\* plan.imports
   pulled   : [Obj -> Nat],   \* remote revision each object was fetched at
   skipped  : SUBSET Obj,
   skippedPush : SUBSET Obj,
   pushed   : SUBSET Obj,
   purges   : SUBSET (Obj \X Nat), \* confirmed tombstones still to be purged
   purged   : SUBSET Obj,
   condemned : SUBSET (Obj \X Nat), \* plan.hard_delete
   obj      : SUBSET Obj,     \* the object in hand, {} when there is none
   blob     : Blob,           \* the body being uploaded
   expected : Blob,           \* the ETag its PUT is conditional on
   tries    : Nat,
   import   : Import]         \* the import being assembled

NoRound ==
  [pc |-> "idle", base |-> EmptyIndex, based |-> FALSE, snap |-> EmptyIndex,
   attempt |-> 0, listing |-> {}, pulls |-> {}, pushes |-> {},
   imports |-> [o \in Obj |-> NoImport], pulled |-> [o \in Obj |-> 0],
   skipped |-> {}, skippedPush |-> {}, pushed |-> {}, purges |-> {},
   purged |-> {}, condemned |-> {}, obj |-> {}, blob |-> NoBlob,
   expected |-> NoBlob, tries |-> 0, import |-> NoImport]

(* r with no object in hand, back in the transfer loop. *)
Released(r) ==
  [r EXCEPT !.pc = "transfer", !.obj = {}, !.blob = NoBlob, !.expected = NoBlob,
            !.tries = 0, !.import = NoImport]

(* Syncer t is in phase p and leaves it with round state r. *)
At(t, p) == round[t].pc = p
Become(t, r) == round' = [round EXCEPT ![t] = r]

NoneRunning == \A t \in Syncer : At(t, "idle")

-----------------------------------------------------------------------------
(***************************************************************************)
(* The local vault.                                                        *)
(***************************************************************************)

(* next_revision: the clock, pushed past the last revision seen. *)
NextRev(d, now) == IF now > last[d] THEN now ELSE last[d] + 1

(***************************************************************************)
(* A reading of d's clock.  A reading after the 30-day horizon has moved   *)
(* is later than every tombstone it covers.                                *)
(***************************************************************************)
Reading(d, now) ==
  /\ now \in Clock[d]
  /\ now > horizon
  /\ SkewedClocks \/ now > last[d]
  /\ NextRev(d, now) <= MaxRev

(* The revision a device compares an object by. *)
LocalRev(d, o) == IF o \in Item THEN file[d][o].rev ELSE index[d][o].rev

(* Mutated form: the apply phase trusts the fetch phase. *)
AnyImportWins(d, o, i) == TRUE

(* Would import i replace what d holds for o? *)
RemoteWins(d, o, i) ==
  IF o \in Item THEN Beats(i.blob, file[d][o]) ELSE i.rev > index[d][o].rev

(* Version e of o was issued. *)
Issue(o, e) == winner' = [winner EXCEPT ![o] = IF e.rev >= @.rev THEN e ELSE @]

Store(d, o, blob, rev) ==
  /\ Issue(o, [rev |-> rev, deleted |-> FALSE])
  /\ file'  = [file EXCEPT ![d][o] = blob]
  /\ index' = [index EXCEPT ![d][o] = [rev |-> rev, deleted |-> FALSE]]
  /\ last'  = [last EXCEPT ![d] = rev]

(* put / put_rule with a new id. *)
Create(d, o, c, now) ==
  /\ winner[o].rev = 0
  /\ Reading(d, now)
  /\ LET rev == NextRev(d, now)
     IN  Store(d, o, [rev |-> rev, deleted |-> FALSE, content |-> c,
                      created |-> IF o \in Rule THEN rev ELSE 0], rev)
  /\ UNCHANGED <<tomb, remote, round, horizon, failures>>

(***************************************************************************)
(* put on an existing item whose revision the caller has just read (any    *)
(* other expected revision is refused and changes nothing).  A deleted     *)
(* item comes back to life; its tombstone file stays.                      *)
(***************************************************************************)
UpdateItem(d, o, c, now) ==
  /\ o \in Item /\ file[d][o].rev # 0
  /\ Reading(d, now)
  /\ LET rev == NextRev(d, now)
     IN  Store(d, o, [rev |-> rev, deleted |-> FALSE, content |-> c, created |-> 0], rev)
  /\ UNCHANGED <<tomb, remote, round, horizon, failures>>

(* put_rule on an existing rule: keeps created and removes the tombstone. *)
UpdateRule(d, o, c, now) ==
  /\ o \in Rule /\ file[d][o].rev # 0
  /\ Reading(d, now)
  /\ LET rev == NextRev(d, now)
     IN  Store(d, o, [file[d][o] EXCEPT !.rev = rev, !.content = c], rev)
  /\ tomb' = [tomb EXCEPT ![d][o] = 0]
  /\ UNCHANGED <<remote, round, horizon, failures>>

(***************************************************************************)
(* delete / delete_rule of an object that is not deleted yet (a second     *)
(* deletion changes nothing).  The body of a rule stays as it is.          *)
(***************************************************************************)
Delete(d, o, now) ==
  /\ file[d][o].rev # 0
  /\ IF o \in Item THEN ~file[d][o].deleted ELSE ~index[d][o].deleted
  /\ Reading(d, now)
  /\ LET rev == NextRev(d, now)
     IN  /\ file' = IF o \in Item
                      THEN [file EXCEPT ![d][o].rev = rev, ![d][o].deleted = TRUE]
                      ELSE file
         /\ index' = [index EXCEPT ![d][o] = [rev |-> rev, deleted |-> TRUE]]
         /\ tomb'  = [tomb EXCEPT ![d][o] = rev]
         /\ last'  = [last EXCEPT ![d] = rev]
         /\ Issue(o, [rev |-> rev, deleted |-> TRUE])
  /\ UNCHANGED <<remote, round, horizon, failures>>

-----------------------------------------------------------------------------
(***************************************************************************)
(* Fetch phase: the remote index.                                          *)
(***************************************************************************)

(* GET index.lk; without one, LIST the bodies and read them one by one. *)
StartRound(t) ==
  /\ At(t, "idle")
  /\ RoundsMayOverlap \/ NoneRunning
  /\ IF published
       THEN /\ Become(t, [NoRound EXCEPT !.pc = "plan", !.base = rindex, !.based = TRUE])
            /\ fresh' = fresh \cup {t}
       ELSE /\ Become(t, [NoRound EXCEPT !.pc = "list",
                                         !.listing = {o \in Obj : rfile[o].rev # 0}])
            /\ UNCHANGED fresh
  /\ UNCHANGED <<local, rfile, rtomb, rindex, published, horizon, winner, failures>>

(* GET one listed body: an item's entry is in it, a rule's needs its tombstone. *)
ListBody(t) ==
  /\ At(t, "list")
  /\ \E o \in round[t].listing :
       LET r == [round[t] EXCEPT !.listing = @ \ {o}]
           b == rfile[o]
       IN  Become(t, CASE b.rev = 0 -> r
                       [] b.rev # 0 /\ o \in Item -> [r EXCEPT !.base[o] = EntryOf(b)]
                       [] b.rev # 0 /\ o \in Rule ->
                            [r EXCEPT !.pc = "listTomb", !.obj = {o}, !.blob = b])
  /\ UNCHANGED <<local, remote, horizon, winner, failures>>

(* Mutated form: the stamp is bumped. *)
RebuiltPastCreation(b, stone) ==
  IF stone # 0 THEN [rev |-> stone, deleted |-> TRUE]
               ELSE [rev |-> b.created + 1, deleted |-> FALSE]

(* The entry rebuilt for a rule from its body and its tombstone, if any. *)
Rebuilt(b, stone) ==
  IF stone # 0 THEN [rev |-> stone, deleted |-> TRUE]
               ELSE [rev |-> b.created, deleted |-> FALSE]

(* GET the tombstone of a listed rule: it carries the deletion's revision. *)
ListTomb(t) ==
  /\ At(t, "listTomb")
  /\ \E o \in round[t].obj :
       Become(t, [round[t] EXCEPT
                    !.pc = "list", !.obj = {}, !.blob = NoBlob,
                    !.base[o] = Rebuilt(round[t].blob, rtomb[o])])
  /\ UNCHANGED <<local, remote, horizon, winner, failures>>

(* The listing is complete: go on with the index made of it. *)
ListDone(t) ==
  /\ At(t, "list") /\ round[t].listing = {}
  /\ Become(t, [round[t] EXCEPT !.pc = "plan"])
  /\ UNCHANGED <<local, remote, horizon, winner, failures>>

(* Snapshot the local index and compare; the per-attempt lists start empty. *)
Plan(t) ==
  /\ At(t, "plan")
  /\ LET snap == index[Home[t]]
         r    == round[t]
     IN  Become(t, [r EXCEPT
            !.pc = "transfer", !.snap = snap,
            !.pulls  = {o \in DiffPull(snap, r.base) : r.pulled[o] # r.base[o].rev},
            !.pushes = DiffPush(snap, r.base),
            !.skipped = {}, !.skippedPush = {}, !.pushed = {}, !.purged = {}])
  /\ UNCHANGED <<local, remote, horizon, winner, failures>>

-----------------------------------------------------------------------------
(***************************************************************************)
(* Fetch phase: pulls.                                                     *)
(***************************************************************************)

(* Mutated form: the bare body is buffered. *)
BufferedBody(r, o, i) == Released([r EXCEPT !.imports[o] = i.blob])

(* The round r once import i of object o is buffered (upsert_import). *)
Buffered(r, o, i) == Released([r EXCEPT !.imports[o] = i])

(* Assemble import i of o: a deleted object still needs its tombstone. *)
Assemble(t, r, o, i) ==
  Become(t, IF i.deleted THEN [r EXCEPT !.pc = "fetchTomb", !.obj = {o}, !.import = i]
                         ELSE Buffered(r, o, i))

(***************************************************************************)
(* pull_item / pull_rule: GET the body.  A missing one is skipped, one     *)
(* that does not beat the local version is left alone.  The import carries *)
(* the revision of the remote index, whatever the body says.               *)
(***************************************************************************)
Pull(t) ==
  /\ At(t, "transfer")
  /\ \E o \in round[t].pulls :
       LET b == rfile[o]
           e == round[t].base[o]
           r == [round[t] EXCEPT !.pulls = @ \ {o}]
           i == [rev |-> e.rev, blob |-> b, tomb |-> 0,
                 deleted |-> IF o \in Item THEN b.deleted ELSE e.deleted]
       IN  CASE b.rev = 0 -> Become(t, [r EXCEPT !.skipped = @ \cup {o}])
             [] b.rev # 0 /\ ~RemoteWins(Home[t], o, i) -> Become(t, r)
             [] b.rev # 0 /\ RemoteWins(Home[t], o, i) ->
                  Assemble(t, [r EXCEPT !.pulled[o] = e.rev], o, i)
  /\ UNCHANGED <<local, remote, horizon, winner, failures>>

(* GET the tombstone of a deleted import, made up when it is missing. *)
FetchTomb(t) ==
  /\ At(t, "fetchTomb")
  /\ \E o \in round[t].obj :
       LET i    == round[t].import
           made == IF o \in Item THEN i.blob.rev ELSE i.rev
       IN  Become(t, Buffered(round[t], o,
                              [i EXCEPT !.tomb = IF rtomb[o] # 0 THEN rtomb[o] ELSE made]))
  /\ UNCHANGED <<local, remote, horizon, winner, failures>>

-----------------------------------------------------------------------------
(***************************************************************************)
(* Fetch phase: pushes, once everything was pulled.                        *)
(***************************************************************************)

(***************************************************************************)
(* push_item / push_rule: read the body under one lock, skip it when it is *)
(* no longer the version of the snapshot, and read the ETag the upload     *)
(* will be conditional on.                                                 *)
(***************************************************************************)
BeginPush(t) ==
  /\ At(t, "transfer") /\ round[t].pulls = {}
  /\ \E o \in round[t].pushes :
       LET d == Home[t]
           r == [round[t] EXCEPT !.pushes = @ \ {o}]
       IN  Become(t, IF file[d][o].rev = 0 \/ LocalRev(d, o) # r.snap[o].rev
                       THEN [r EXCEPT !.skippedPush = @ \cup {o}]
                       ELSE [r EXCEPT !.pc = "put", !.obj = {o},
                                      !.blob = file[d][o], !.expected = rfile[o]])
  /\ UNCHANGED <<local, remote, horizon, winner, failures>>

(* Does the upload of o concern a deleted object? *)
PushesDeleted(r, o) == IF o \in Item THEN r.blob.deleted ELSE r.snap[o].deleted

(* Conditional PUT of the body. *)
Put(t) ==
  /\ At(t, "put")
  /\ \E o \in round[t].obj :
       LET r == round[t]
       IN  IF rfile[o] = r.expected
             THEN /\ rfile' = [rfile EXCEPT ![o] = r.blob]
                  /\ Become(t, IF o \in Rule \/ PushesDeleted(r, o)
                                 THEN [r EXCEPT !.pc = "pushTomb"]
                                 ELSE Released([r EXCEPT !.pushed = @ \cup {o}]))
             ELSE /\ Become(t, [r EXCEPT !.pc = "resolve", !.tries = @ + 1])
                  /\ UNCHANGED rfile
  /\ UNCHANGED <<local, rtomb, rindex, published, fresh, horizon, winner, failures>>

(* The local version stands: retry on a new ETag, or give the round up. *)
Retry(t) ==
  IF round[t].tries > MaxPushRetries
    THEN Become(t, NoRound) /\ fresh' = fresh \ {t}
    ELSE /\ Become(t, [round[t] EXCEPT !.pc = "refresh", !.import = NoImport])
         /\ UNCHANGED fresh

(***************************************************************************)
(* After a conflict, GET the body: gone -> create it; an item that beats   *)
(* the local one is adopted; a rule needs its revision from the index.     *)
(***************************************************************************)
Resolve(t) ==
  /\ At(t, "resolve")
  /\ \E o \in round[t].obj :
       LET r == round[t]
           b == rfile[o]
       IN  CASE b.rev = 0 ->
                  Become(t, [r EXCEPT !.pc = "put", !.expected = NoBlob]) /\ UNCHANGED fresh
             [] b.rev # 0 /\ o \in Rule ->
                  Become(t, [r EXCEPT !.pc = "arbitrate", !.import.blob = b]) /\ UNCHANGED fresh
             [] b.rev # 0 /\ o \in Item /\ Beats(b, r.blob) ->
                  /\ Assemble(t, r, o, [rev |-> b.rev, deleted |-> b.deleted,
                                        blob |-> b, tomb |-> 0])
                  /\ UNCHANGED fresh
             [] b.rev # 0 /\ o \in Item /\ ~Beats(b, r.blob) -> Retry(t)
  /\ UNCHANGED <<local, rfile, rtomb, rindex, published, horizon, winner, failures>>

(* GET index.lk for the remote revision of a rule and arbitrate by it. *)
Arbitrate(t) ==
  /\ At(t, "arbitrate")
  /\ \E o \in round[t].obj :
       LET r == round[t]
           e == IF published THEN rindex[o] ELSE Absent
       IN  IF r.snap[o].rev > e.rev
             THEN Retry(t)
             ELSE /\ Assemble(t, r, o, [rev |-> e.rev, deleted |-> e.deleted,
                                        blob |-> r.import.blob, tomb |-> 0])
                  /\ UNCHANGED fresh
  /\ UNCHANGED <<local, rfile, rtomb, rindex, published, horizon, winner, failures>>

(* HEAD the body for the ETag of the next try. *)
Refresh(t) ==
  /\ At(t, "refresh")
  /\ \E o \in round[t].obj :
       Become(t, [round[t] EXCEPT !.pc = "put", !.expected = rfile[o]])
  /\ UNCHANGED <<local, remote, horizon, winner, failures>>

(***************************************************************************)
(* The tombstone follows a deleted body, if the device still has one; a    *)
(* living rule removes the remote one.  HEAD and the conditional PUT are   *)
(* one step: losing the condition to a concurrent writer and being         *)
(* overwritten by it right afterwards leave the same store.                *)
(***************************************************************************)
PushTomb(t) ==
  /\ At(t, "pushTomb")
  /\ \E o \in round[t].obj :
       LET r == round[t]
           mine == tomb[Home[t]][o]
       IN  /\ rtomb' = [rtomb EXCEPT ![o] = CASE ~PushesDeleted(r, o) -> 0
                                              [] PushesDeleted(r, o) /\ mine # 0 -> mine
                                              [] OTHER -> @]
           /\ Become(t, Released([r EXCEPT !.pushed = @ \cup {o}]))
  /\ UNCHANGED <<local, rfile, rindex, published, fresh, horizon, winner, failures>>

-----------------------------------------------------------------------------
(***************************************************************************)
(* Fetch phase: purge of old tombstones, once everything was pushed.       *)
(***************************************************************************)

Expired(rev) == rev # 0 /\ rev <= horizon

(* Tombstones of d whose deletion the index view e confirms. *)
Confirmed(d, e) ==
  {o \in Obj : Expired(tomb[d][o]) /\ e[o] = [rev |-> tomb[d][o], deleted |-> TRUE]}

(* Tombstones of d for objects the view no longer has. *)
Vanished(d, e) == {o \in Obj : Expired(tomb[d][o]) /\ e[o].rev = 0}

(***************************************************************************)
(* purge_phase reads the tombstones once.  A confirmed one is purged from  *)
(* the store and then here, one the index no longer names only here, one   *)
(* that was uploaded just now waits for the next round.                    *)
(***************************************************************************)
BeginPurge(t) ==
  /\ At(t, "transfer") /\ round[t].pulls = {} /\ round[t].pushes = {}
  /\ LET d    == Home[t]
         r    == round[t]
         gone == Vanished(d, r.base) \ r.pushed
     IN  Become(t, [r EXCEPT
            !.pc = "purge",
            !.purges = {<<o, tomb[d][o]>> : o \in Confirmed(d, r.base)},
            !.purged = gone,
            !.condemned = @ \cup {<<o, tomb[d][o]>> : o \in gone}])
  /\ UNCHANGED <<local, remote, horizon, winner, failures>>

(* hard_delete_remote: DELETE the body ... *)
PurgeBody(t) ==
  /\ At(t, "purge")
  /\ \E p \in round[t].purges :
       /\ rfile' = [rfile EXCEPT ![p[1]] = NoBlob]
       /\ Become(t, [round[t] EXCEPT !.pc = "purgeTomb", !.obj = {p[1]}])
  /\ UNCHANGED <<local, rtomb, rindex, published, fresh, horizon, winner, failures>>

(* ... then the tombstone, and schedule the local hard deletion. *)
PurgeTomb(t) ==
  /\ At(t, "purgeTomb")
  /\ \E o \in round[t].obj :
       LET mine == {p \in round[t].purges : p[1] = o}
       IN  /\ rtomb' = [rtomb EXCEPT ![o] = 0]
           /\ Become(t, [round[t] EXCEPT
                !.pc = "purge", !.obj = {}, !.purges = @ \ mine,
                !.purged = @ \cup {o}, !.condemned = @ \cup mine])
  /\ UNCHANGED <<local, rfile, rindex, published, fresh, horizon, winner, failures>>

-----------------------------------------------------------------------------
(***************************************************************************)
(* Fetch phase: write the merged index back.                               *)
(***************************************************************************)
(* Mutated form: an object that was not uploaded is named anyway. *)
MergedAsIfUploaded(r) ==
  MergeIndexes(r.base, r.snap, r.imports, r.skipped, {}, r.purged)

(* The index r writes back. *)
Merged(r) ==
  MergeIndexes(r.base, r.snap, r.imports, r.skipped, r.skippedPush, r.purged)

(* Mutated form: an unconditional PUT. *)
AlwaysAccepted(t) == TRUE

(* Does the store accept the index write of t? *)
Accepted(t) == IF round[t].based THEN t \in fresh ELSE ~published

(* Nothing to say -> no request; else a PUT conditional on the index ETag. *)
PutIndex(t) ==
  /\ At(t, "purge") /\ round[t].purges = {}
  /\ LET r == round[t]
         unchanged == r.based /\ Merged(r) = r.base
     IN  IF unchanged \/ ~Accepted(t)
           THEN /\ Become(t, [r EXCEPT !.pc = IF unchanged THEN "apply" ELSE "reget"])
                /\ UNCHANGED <<rindex, published, fresh>>
           ELSE /\ Become(t, [r EXCEPT !.pc = "apply"])
                /\ rindex' = Merged(r) /\ published' = TRUE /\ fresh' = {}
  /\ UNCHANGED <<local, rfile, rtomb, horizon, winner, failures>>

(* Mutated form: the retry takes the new ETag but keeps the old index. *)
RegetEtagOnly(t) ==
  /\ At(t, "reget")
  /\ Become(t, [round[t] EXCEPT !.pc = "plan"])
  /\ fresh' = fresh \cup {t}
  /\ UNCHANGED <<local, rfile, rtomb, rindex, published, horizon, winner, failures>>

(***************************************************************************)
(* GET the index another device has written and make another attempt on    *)
(* it; after the last attempt the round goes on with what it has fetched.  *)
(***************************************************************************)
Reget(t) ==
  /\ At(t, "reget")
  /\ LET r == round[t]
     IN  IF r.attempt >= MaxIndexRetries
           THEN Become(t, [r EXCEPT !.pc = "apply"]) /\ UNCHANGED fresh
           ELSE /\ Become(t, [r EXCEPT !.pc = "plan", !.attempt = @ + 1,
                    !.base = IF published THEN rindex ELSE EmptyIndex,
                    !.based = published])
                /\ fresh' = IF published THEN fresh \cup {t} ELSE fresh
  /\ UNCHANGED <<local, rfile, rtomb, rindex, published, horizon, winner, failures>>

-----------------------------------------------------------------------------
(* Mutated form: the remote entry is taken for items too. *)
EntryOfIndexEverywhere(o, i) == [rev |-> i.rev, deleted |-> i.deleted]

(* The entry that import i of o leaves in the local index. *)
ImportedEntry(o, i) ==
  IF o \in Item THEN EntryOf(i.blob) ELSE [rev |-> i.rev, deleted |-> i.deleted]

(* Mutated form: only the tombstone is compared. *)
StillTombstoned(o, rev, body, entry, stone) == stone = rev

(***************************************************************************)
(* May the hard deletion of o, decided on the tombstone of revision rev,   *)
(* still be carried out?  The tombstone must be the same one, and o must   *)
(* not have been revived since.                                            *)
(***************************************************************************)
StillDead(o, rev, body, entry, stone) ==
  /\ stone = rev
  /\ IF o \in Rule THEN entry.rev = 0 \/ entry = [rev |-> rev, deleted |-> TRUE]
                   ELSE body.rev \in {0, rev}

(***************************************************************************)
(* Apply phase: under the vault's write lock, each import is arbitrated    *)
(* again against what the device holds now, then each hard deletion is     *)
(* checked again.                                                          *)
(***************************************************************************)
Apply(t) ==
  /\ At(t, "apply")
  /\ LET d    == Home[t]
         imp  == round[t].imports
         wins == {o \in Obj : imp[o].rev # 0 /\ RemoteWins(d, o, imp[o])}
         newFile  == [o \in Obj |-> IF o \in wins THEN imp[o].blob ELSE file[d][o]]
         newIndex == [o \in Obj |-> IF o \in wins THEN ImportedEntry(o, imp[o])
                                                  ELSE index[d][o]]
         newTomb  == [o \in Obj |-> IF o \in wins /\ imp[o].tomb # 0
                                      THEN imp[o].tomb ELSE tomb[d][o]]
         dead == {o \in Obj : \E p \in round[t].condemned :
                    p[1] = o /\ StillDead(o, p[2], newFile[o], newIndex[o], newTomb[o])}
         revs == {last[d]} \cup {newIndex[o].rev : o \in wins}
     IN  /\ file'  = [file EXCEPT ![d] =
                        [o \in Obj |-> IF o \in dead THEN NoBlob ELSE newFile[o]]]
         /\ index' = [index EXCEPT ![d] =
                        [o \in Obj |-> IF o \in dead THEN Absent ELSE newIndex[o]]]
         /\ tomb'  = [tomb EXCEPT ![d] =
                        [o \in Obj |-> IF o \in dead THEN 0 ELSE newTomb[o]]]
         /\ \E m \in revs : /\ \A r \in revs : r <= m
                            /\ last' = [last EXCEPT ![d] = m]
  /\ Become(t, NoRound)
  /\ fresh' = fresh \ {t}
  /\ UNCHANGED <<rfile, rtomb, rindex, published, horizon, winner, failures>>

-----------------------------------------------------------------------------
(***************************************************************************)
(* What goes wrong around the rounds.                                      *)
(***************************************************************************)

(* A request fails, or the vault is locked: the round is given up. *)
Abandon(t) ==
  /\ ~At(t, "idle")
  /\ failures < MaxFailures
  /\ failures' = failures + 1
  /\ Become(t, NoRound)
  /\ fresh' = fresh \ {t}
  /\ UNCHANGED <<local, rfile, rtomb, rindex, published, horizon, winner>>

(***************************************************************************)
(* The daemon of d restarts (or is locked and unlocked): its rounds are    *)
(* gone, and the last revision is taken from the index again, from the     *)
(* tombstones when the index is empty.                                     *)
(***************************************************************************)
Restart(d) ==
  /\ failures < MaxFailures
  /\ failures' = failures + 1
  /\ round' = [t \in Syncer |-> IF Home[t] = d THEN NoRound ELSE round[t]]
  /\ fresh' = {t \in fresh : Home[t] # d}
  /\ LET known == {index[d][o].rev : o \in Obj} \ {0}
         revs  == IF known # {} THEN known ELSE {tomb[d][o] : o \in Obj} \cup {0}
     IN  \E m \in revs : /\ \A r \in revs : r <= m
                         /\ last' = [last EXCEPT ![d] = m]
  /\ UNCHANGED <<file, index, tomb, rfile, rtomb, rindex, published, horizon, winner>>

(* The remote index.lk is lost. *)
LoseIndex ==
  /\ IndexMayBeLost /\ published
  /\ failures < MaxFailures
  /\ failures' = failures + 1
  /\ published' = FALSE /\ rindex' = EmptyIndex /\ fresh' = {}
  /\ UNCHANGED <<local, rfile, rtomb, round, horizon, winner>>

(***************************************************************************)
(* Thirty days after the deletions up to h; no round lasts that long.  A   *)
(* device that does not synchronise for that long may bring an object back *)
(* (docs/data-model.md); OnlineInGrace leaves it out: by then every device *)
(* has exchanged the objects those deletions concern.                      *)
(***************************************************************************)
GraceElapses(h) ==
  /\ NoneRunning
  /\ h > horizon
  /\ OnlineInGrace =>
       \A d, e \in Device, o \in Obj :
         tomb[e][o] \in 1..h => index[d][o] \in {Absent, rindex[o]}
  /\ horizon' = h
  /\ UNCHANGED <<local, remote, round, winner, failures>>

-----------------------------------------------------------------------------
(***************************************************************************)
(* The specification.  The vault starts empty but for Seed: objects that   *)
(* one device created and every device has fetched since.                  *)
(***************************************************************************)
SeedBlob(o) ==
  IF o \in Seed THEN [rev |-> 1, deleted |-> FALSE, content |-> 0,
                      created |-> IF o \in Rule THEN 1 ELSE 0]
               ELSE NoBlob
SeedEntry(o) == IF o \in Seed THEN [rev |-> 1, deleted |-> FALSE] ELSE Absent

Init ==
  /\ file   = [d \in Device |-> [o \in Obj |-> SeedBlob(o)]]
  /\ index  = [d \in Device |-> [o \in Obj |-> SeedEntry(o)]]
  /\ tomb   = [d \in Device |-> [o \in Obj |-> 0]]
  /\ last   = [d \in Device |-> IF Seed = {} THEN 0 ELSE 1]
  /\ rfile  = [o \in Obj |-> SeedBlob(o)]
  /\ rtomb  = [o \in Obj |-> 0]
  /\ rindex = [o \in Obj |-> SeedEntry(o)]
  /\ published = (Seed # {})
  /\ fresh  = {}
  /\ round  = [t \in Syncer |-> NoRound]
  /\ horizon = 0
  /\ winner = [o \in Obj |-> SeedEntry(o)]
  /\ failures = 0

(* What the user does on device d. *)
Edit(d) ==
  \E o \in Obj, now \in Clock[d] :
    \/ \E c \in Content : \/ Create(d, o, c, now)
                          \/ UpdateItem(d, o, c, now)
                          \/ UpdateRule(d, o, c, now)
    \/ Delete(d, o, now)

(* What a round does once it has started. *)
Advance(t) ==
  \/ ListBody(t) \/ ListTomb(t) \/ ListDone(t)
  \/ Plan(t) \/ Pull(t) \/ FetchTomb(t)
  \/ BeginPush(t) \/ Put(t) \/ Resolve(t) \/ Arbitrate(t) \/ Refresh(t) \/ PushTomb(t)
  \/ BeginPurge(t) \/ PurgeBody(t) \/ PurgeTomb(t)
  \/ PutIndex(t) \/ Reget(t) \/ Apply(t)

Next ==
  \/ \E d \in Device : Edit(d) \/ Restart(d)
  \/ \E t \in Syncer : StartRound(t) \/ Advance(t) \/ Abandon(t)
  \/ LoseIndex
  \/ \E h \in 1..MaxRev : GraceElapses(h)

Spec == Init /\ [][Next]_vars

(***************************************************************************)
(* The poller thread starts a round at every interval for as long as the   *)
(* daemon runs, and every request ends (each has a timeout).  A start is   *)
(* strongly fair because it may have to wait for another round.  Nobody    *)
(* has to edit, fail, or wait for thirty days.                             *)
(***************************************************************************)
Fairness ==
  \A t \in Syncer : WF_vars(Advance(t)) /\ SF_vars(StartRound(t))

FairSpec == Spec /\ Fairness

-----------------------------------------------------------------------------
(***************************************************************************)
(* Properties.                                                             *)
(***************************************************************************)

(* Every variable has its type. *)
TypeOK ==
  /\ file   \in [Device -> [Obj -> Blob]]
  /\ index  \in [Device -> Index]
  /\ tomb   \in [Device -> [Obj -> Nat]]
  /\ last   \in [Device -> Nat]
  /\ rfile  \in [Obj -> Blob]
  /\ rtomb  \in [Obj -> Nat]
  /\ rindex \in Index
  /\ published \in BOOLEAN
  /\ fresh  \in SUBSET Syncer
  /\ round  \in [Syncer -> Round]
  /\ horizon \in Nat
  /\ winner \in [Obj -> Entry]
  /\ failures \in Nat

(***************************************************************************)
(* What makes the local index trustworthy for the next comparison: the     *)
(* entry of an item is the one sealed in its body, whatever the remote     *)
(* index said when it was imported, and every revision in the index has    *)
(* been seen, so that the next edit is newer than all of them              *)
(* (vault.rs, import_item and next_revision).                              *)
(***************************************************************************)
ItemsIndexedAsSealed == \A d \in Device, o \in Item : index[d][o] = EntryOf(file[d][o])
LastBoundsIndex == \A d \in Device, o \in Obj : index[d][o].rev <= last[d]

VaultConsistent == ItemsIndexedAsSealed /\ LastBoundsIndex

(***************************************************************************)
(* A round whose index PUT the store would accept works on the index it    *)
(* replaces, through every retry: the ETag and the entries a round holds   *)
(* never come from different writes (fetch_round, the CAS loop).           *)
(***************************************************************************)
FreshBase ==
  \A t \in fresh : /\ published
                   /\ round[t].based /\ round[t].base = rindex
                   /\ round[t].pc \notin {"idle", "list", "listTomb"}

(***************************************************************************)
(* A version on a device is never replaced by one that loses to it: an     *)
(* edit made while a round was in flight survives that round's apply phase *)
(* (engine.rs, apply_round: a local edit is never overwritten by an older  *)
(* snapshot).  Only a hard deletion takes a version away.                  *)
(***************************************************************************)
LocalNeverRegresses ==
  [][\A d \in Device, o \in Obj :
       IF o \in Item
         THEN file'[d][o] \in {file[d][o], NoBlob} \/ Beats(file'[d][o], file[d][o])
         ELSE index'[d][o] \in {index[d][o], Absent} \/ index'[d][o].rev > index[d][o].rev]_vars

(***************************************************************************)
(* A body disappears from a device only when the device itself holds the   *)
(* object as deleted, at the revision of a tombstone that is 30 days old:  *)
(* an object revived while its purge was on the way stays.                 *)
(***************************************************************************)
LiveNeverHardDeleted ==
  [][\A d \in Device, o \in Obj :
       file[d][o] # NoBlob /\ file'[d][o] = NoBlob =>
         index[d][o].deleted /\ Expired(index[d][o].rev)]_vars

(***************************************************************************)
(* A write of the remote index changes the entry of an object only to what *)
(* the writer's own round says of it -- its snapshot when that is newer, an *)
(* import -- or removes it because its body was missing or purged: it never *)
(* undoes an entry another device wrote that this round has not seen       *)
(* (fetch_round: the PUT is conditional on the ETag of the index merged).  *)
(***************************************************************************)
NoUnseenOverwrite ==
  [][\A t \in Syncer :
       LET r == round[t]
       IN  At(t, "purge") /\ published /\ rindex' # rindex /\ round'[t].pc = "apply" =>
             \A o \in Obj :
               \/ rindex'[o] = rindex[o]
               \/ rindex'[o] = r.snap[o] /\ r.snap[o].rev > rindex[o].rev
               \/ /\ r.imports[o].rev # 0
                  /\ rindex'[o] = [rev |-> r.imports[o].rev, deleted |-> r.imports[o].deleted]
               \/ rindex'[o] = Absent /\ o \in r.purged \cup r.skipped]_vars

(***************************************************************************)
(* The entry of an object never goes back to an older revision, except     *)
(* when the writer saw its body missing or purged it (plan.rs,             *)
(* upsert_import: an older snapshot must not override a newer version).    *)
(***************************************************************************)
IndexNeverRegresses ==
  [][published' => \A o \in Obj :
       \/ rindex'[o].rev >= rindex[o].rev
       \/ \E t \in Syncer : round'[t] # round[t] /\ o \in round[t].purged \cup round[t].skipped]_vars

(* What device d shows the user for object o. *)
Visible(d, o) == IF index[d][o].rev = 0 \/ index[d][o].deleted THEN NoBlob ELSE file[d][o]

(* A round of device d would neither fetch, upload, purge nor write. *)
Quiet(d) ==
  /\ DiffPull(index[d], rindex) = {}
  /\ DiffPush(index[d], rindex) = {}
  /\ MergeIndexes(rindex, index[d], [o \in Obj |-> NoImport], {}, {}, Vanished(d, rindex))
       = rindex
  /\ Confirmed(d, rindex) = {}

Settled == NoneRunning /\ published /\ \A d \in Device : Quiet(d)

(* The devices show the same objects, each in the newest version ever issued. *)
AgreedOn(objects) ==
  \A d \in Device, o \in objects :
    /\ \A e \in Device : Visible(d, o) = Visible(e, o)
    /\ Visible(d, o) # NoBlob => index[d][o] = winner[o]
    /\ winner[o].rev # 0 /\ ~winner[o].deleted => Visible(d, o) # NoBlob

(***************************************************************************)
(* When no device has anything left to exchange, all of them show the same *)
(* vault and no edit was lost: for each object, the version with the       *)
(* greatest revision ever issued.                                          *)
(***************************************************************************)
SettledMeansAgreed == Settled => AgreedOn(Obj)

(***************************************************************************)
(* For items this holds however the rounds overlap: the revision is inside *)
(* the body, so a body that does not belong to its entry is never taken    *)
(* for it.                                                                 *)
(***************************************************************************)
SettledItemsAgree == Settled => AgreedOn(Item)

(***************************************************************************)
(* Between rounds that run to their end one at a time, an item the remote  *)
(* index lists as alive has a body in the store that is at least as new:   *)
(* the body is uploaded before the index names it (plan.rs, merge_indexes).*)
(* A round that breaks off after the first upload of an item breaks this   *)
(* once the item is deleted (found_deletion_lost.cfg).                     *)
(***************************************************************************)
IndexedBodiesExist ==
  NoneRunning => \A o \in Item :
    rindex[o].rev # 0 /\ ~rindex[o].deleted => rfile[o].rev >= rindex[o].rev

(***************************************************************************)
(* However edits and rounds interleave, the devices come to show the same  *)
(* vault for good, and it holds the newest version of each object.         *)
(***************************************************************************)
Converges == <>[]AgreedOn(Obj)

=============================================================================
