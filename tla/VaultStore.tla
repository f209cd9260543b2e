------------------------------ MODULE VaultStore ------------------------------
(***************************************************************************)
(* The vault directory of one device (lk-core/src/vault.rs) and the        *)
(* commands that write it.  A file is replaced or removed atomically, but  *)
(* a command touches several files one after the other: a step here is one *)
(* file, and between two of them the daemon may die or a write may fail.   *)
(* The daemon runs one command at a time; a round of its poller waits for  *)
(* the command's lock on the unlocked vault, which vault.unlock takes only *)
(* to store the vault it has opened.                                       *)
(***************************************************************************)
EXTENDS Integers, FiniteSets

CONSTANTS
  Item, Rule,   \* ids of items and of rules
  Attach,       \* ids of attachments; each is used once
  NoObject,     \* no item and no rule
  NoAttach,     \* no attachment
  Synced,       \* is the vault synchronised? (the settings a run starts with)
  MaxKey,       \* bound: master keys ever derived
  MaxRev,       \* bound: revisions ever issued
  MaxFaults     \* bound: crashes, failed writes and losses of the index

Object == Item \cup Rule

ASSUME ObjectAssumption ==
  /\ Item \cap Rule = {}
  /\ NoObject \notin Object
  /\ NoAttach \notin Attach
ASSUME SettingAssumption == Synced \subseteq BOOLEAN
ASSUME LimitAssumption == MaxKey \in Nat /\ MaxRev \in Nat /\ MaxFaults \in Nat

-----------------------------------------------------------------------------
(***************************************************************************)
(* Files.  Every file is sealed with a key: the n-th master key derived is *)
(* n, and a file whose key is 0 is not there.                              *)
(***************************************************************************)
Body(o)  == <<"body", o>>    \* item_file, rule_file
Tomb(o)  == <<"tomb", o>>    \* tomb_file
Meta(a)  == <<"attach", a>>  \* attach_meta_file
Chunk(a) == <<"chunk", a>>   \* chunk_file: the chunks of a, as one
Header   == <<"header", NoObject>>
Envelope == <<"envelope", NoObject>>
Index    == <<"index", NoObject>>

Bodies  == {Body(o) : o \in Object}
Tombs   == {Tomb(o) : o \in Object}
Metas   == {Meta(a) : a \in Attach}
Chunks  == {Chunk(a) : a \in Attach}
Fixed   == {Header, Envelope}
Name    == Bodies \cup Tombs \cup Metas \cup Chunks \cup Fixed \cup {Index}

Key == 0..MaxKey
Rev == 0..MaxRev

Entry   == [rev : Rev, deleted : BOOLEAN]
Entries == [Object -> Entry]
NoEntry == [rev |-> 0, deleted |-> FALSE]
Empty   == [o \in Object |-> NoEntry]

BodyBlob  == [key : Key, rev : Rev, deleted : BOOLEAN, attach : Attach \cup {NoAttach}]
TombBlob  == [key : Key, rev : Rev, old : BOOLEAN]
MetaBlob  == [key : Key, inner : Key]   \* inner: what K_attach is sealed with
IndexBlob == [key : Key, entries : Entries]
PlainBlob == [key : Key]

NoBody  == [key |-> 0, rev |-> 0, deleted |-> FALSE, attach |-> NoAttach]
NoTomb  == [key |-> 0, rev |-> 0, old |-> FALSE]
NoMeta  == [key |-> 0, inner |-> 0]
NoIndex == [key |-> 0, entries |-> Empty]
NoFile  == [key |-> 0]

(* Chunks are sealed with the key of their attachment alone. *)
OwnKey == [key |-> 1]

Missing(n) ==
  CASE n \in Bodies -> NoBody
    [] n \in Tombs  -> NoTomb
    [] n \in Metas  -> NoMeta
    [] n = Index    -> NoIndex
    [] OTHER        -> NoFile

-----------------------------------------------------------------------------
VARIABLES
  disk,        \* disk[n]: the file named n
  mem,         \* the unlocked vault: its key (0 when locked) and its index, and
               \* the vault another vault.unlock is opening meanwhile
  op,          \* the command being executed
  synced,      \* is synchronisation configured?
  clock,       \* the last revision issued
  keys,        \* the last master key derived
  codes,       \* master keys whose recovery code the user was shown
  acked,       \* acked[o]: what the user was last told of o (a history variable)
  interrupted, \* the steps at which a command was cut off, or an unlock undid
               \* what was done since it had loaded the index (a history variable)
  faults       \* crashes, failed writes and losses of the index so far

vars == <<disk, mem, op, synced, clock, keys, codes, acked, interrupted, faults>>

Kind == {"idle", "put", "delete", "putRule", "deleteRule", "import", "hardDelete",
         "unlock", "unlockAgain", "recover", "init"}

At == {"idle", "chunk", "meta", "dropChunk", "dropMeta", "body", "tomb", "noTomb",
       "index", "noBody", "load", "save", "purge", "reseal", "envelope", "header",
       "finish", "wipe"}

Op == [kind    : Kind,
       at      : At,
       id      : Object \cup {NoObject},
       rev     : Rev,
       deleted : BOOLEAN,
       attach  : Attach \cup {NoAttach},  \* the attachment of the new body
       drop    : Attach \cup {NoAttach},  \* the attachment being removed
       key     : Key,
       oldKey  : Key,
       entries : Entries,
       todo    : SUBSET Name]

Idle == [kind |-> "idle", at |-> "idle", id |-> NoObject, rev |-> 0, deleted |-> FALSE,
         attach |-> NoAttach, drop |-> NoAttach, key |-> 0, oldKey |-> 0,
         entries |-> Empty, todo |-> {}]

(* The vault being opened by a vault.unlock that found one unlocked. *)
Again == [at : {"idle", "save", "finish"}, key : Key, entries : Entries]
NotAgain == [at |-> "idle", key |-> 0, entries |-> Empty]

Memory == [key : Key, index : Entries, next : Again]
Locked == [key |-> 0, index |-> Empty, next |-> NotAgain]

(* "revived": an item written, or an object imported, while the tombstone of its *)
(* deletion was still there.                                                     *)
AckState == {"none", "live", "revived", "deleted"}
Ack == [state : AckState, rev : Rev]

Present(n) == disk[n].key # 0
Opens(k, n) == k # 0 /\ disk[n].key = k

Write(n, blob) == disk' = [disk EXCEPT ![n] = blob]
Remove(n) == disk' = [disk EXCEPT ![n] = Missing(n)]

(* The command goes on at step s. *)
Goto(s) == op' = [op EXCEPT !.at = s]
Running(k, s) == op.kind = k /\ op.at = s

NothingElse == UNCHANGED <<synced, clock, keys, codes, interrupted, faults>>
SameFiles == UNCHANGED disk
SameMemory == UNCHANGED mem
SameAck == UNCHANGED acked

(* The lock on the vault is free; is no other command under way either? *)
Free == op = Idle /\ mem.key # 0
Unlocked == Free /\ mem.next = NotAgain

(* next_revision.  The clock has passed every revision issued before: VaultSync *)
(* models clocks that are behind.                                               *)
Issue == clock < MaxRev /\ clock' = clock + 1

(* now_iso: the time itself; at the bound the clock stands still. *)
Now == clock' = IF clock < MaxRev THEN clock + 1 ELSE clock

Told(o, state, rev) == acked' = [acked EXCEPT ![o] = [state |-> state, rev |-> rev]]

(* The answer to the command that ends. *)
Answered ==
  Told(op.id, IF op.deleted THEN "deleted"
              ELSE IF op.kind # "putRule" /\ Present(Tomb(op.id)) THEN "revived"
              ELSE "live", op.rev)

(* From here on the user knows that o may be in either of two states. *)
Undecided(o) == Told(o, "none", acked[o].rev)

-----------------------------------------------------------------------------
(***************************************************************************)
(* Commands on an unlocked vault.  Each Begin checks what the command      *)
(* checks before its first write and issues its revision.                  *)
(***************************************************************************)
Begin(kind, at, o, deleted, attach, drop) ==
  /\ Issue
  /\ op' = [Idle EXCEPT !.kind = kind, !.at = at, !.id = o, !.rev = clock',
                        !.deleted = deleted, !.attach = attach, !.drop = drop]

(* Attachments no file belongs to yet. *)
FreshAttach == {a \in Attach : ~Present(Meta(a)) /\ ~Present(Chunk(a))
                               /\ \A o \in Item : disk[Body(o)].attach # a}

(* item.create, or item.update at the item's current revision (CAS), of an    *)
(* item that is deleted too; with or without new file data.  The first write *)
(* is the new attachment's chunks.  A tombstone stays.                       *)
BeginPut(o) ==
  /\ Unlocked
  /\ Present(Body(o)) => Opens(mem.key, Body(o))
  /\ \/ Begin("put", "body", o, FALSE, disk[Body(o)].attach, NoAttach)
     \/ \E a \in FreshAttach : Begin("put", "chunk", o, FALSE, a, disk[Body(o)].attach)
  /\ IF acked[o].state = "deleted" THEN Undecided(o) ELSE SameAck
  /\ SameFiles /\ SameMemory /\ UNCHANGED <<synced, keys, codes, interrupted, faults>>

PutChunks ==
  /\ Running("put", "chunk")
  /\ Write(Chunk(op.attach), OwnKey)
  /\ Goto("meta")
  /\ SameMemory /\ SameAck /\ NothingElse

PutMeta ==
  /\ Running("put", "meta")
  /\ Write(Meta(op.attach), [key |-> mem.key, inner |-> mem.key])
  /\ Goto(IF op.drop = NoAttach THEN "body" ELSE "dropChunk")
  /\ SameMemory /\ SameAck /\ NothingElse

(* remove_attachment: the chunks are found through the metadata. *)
DropChunks ==
  /\ op.at = "dropChunk"
  /\ IF Opens(IF op.kind = "unlock" THEN op.key ELSE mem.key, Meta(op.drop))
       THEN Remove(Chunk(op.drop))
       ELSE SameFiles
  /\ Goto("dropMeta")
  /\ SameMemory /\ SameAck /\ NothingElse

(* Mutated form: the new attachment goes instead. *)
DropsNew ==
  /\ op.kind \in {"put", "import"} /\ op.at = "dropMeta"
  /\ Remove(Meta(op.attach))
  /\ Goto("body")
  /\ SameMemory /\ SameAck /\ NothingElse

(* The attachment an update replaces goes before the new item file is written. *)
DropReplaced ==
  /\ op.kind \in {"put", "import"} /\ op.at = "dropMeta"
  /\ Remove(Meta(op.drop))
  /\ Goto("body")
  /\ SameMemory /\ SameAck /\ NothingElse

AfterBody == CASE op.kind = "delete"  -> "tomb"
               [] op.kind = "putRule" -> "noTomb"
               [] OTHER               -> "index"

(* write_item_file, write_rule_file, and the raw write of an import. *)
WriteBody ==
  /\ op.kind \in {"put", "delete", "putRule", "import"} /\ op.at = "body"
  /\ Write(Body(op.id), [key |-> mem.key, rev |-> op.rev, deleted |-> op.deleted,
                         attach |-> op.attach])
  /\ Goto(AfterBody)
  /\ SameMemory /\ SameAck /\ NothingElse

(* Mutated form: the entry of a deletion keeps saying the object is live. *)
StaleEntered == [mem.index EXCEPT ![op.id] = [rev |-> op.rev, deleted |-> FALSE]]

(* The index in memory after the command; a deletion enters nothing new. *)
Entered ==
  IF op.kind \in {"delete", "deleteRule"} /\ mem.index[op.id] = NoEntry THEN mem.index
  ELSE [mem.index EXCEPT ![op.id] = [rev |-> op.rev, deleted |-> op.deleted]]

(* The entry in memory, then save_index; the caller is answered. *)
SaveIndex ==
  /\ op.kind \in {"put", "delete", "putRule", "deleteRule"} /\ op.at = "index"
  /\ mem' = [mem EXCEPT !.index = Entered]
  /\ Write(Index, [key |-> mem.key, entries |-> Entered])
  /\ op' = Idle
  /\ Answered
  /\ NothingElse

(* item.delete of an item that is not deleted yet. *)
BeginDelete(o) ==
  /\ Unlocked
  /\ Opens(mem.key, Body(o)) /\ ~disk[Body(o)].deleted
  /\ Begin("delete", "body", o, TRUE, disk[Body(o)].attach, NoAttach)
  /\ Undecided(o)
  /\ SameFiles /\ SameMemory /\ UNCHANGED <<synced, keys, codes, interrupted, faults>>

(* item.delete of an item whose file says deleted: answered with the tombstone, *)
(* or with one made up for the answer; nothing is written.                      *)
DeleteAgain(o) ==
  /\ Unlocked
  /\ Opens(mem.key, Body(o)) /\ disk[Body(o)].deleted
  /\ acked[o].state # "deleted"
  /\ Told(o, "deleted", disk[Body(o)].rev)
  /\ SameFiles /\ SameMemory /\ UNCHANGED op /\ NothingElse

WriteTomb ==
  /\ op.kind \in {"delete", "deleteRule", "import"} /\ op.at = "tomb"
  /\ Write(Tomb(op.id), [key |-> mem.key, rev |-> op.rev, old |-> FALSE])
  /\ Goto(IF op.kind = "import" THEN "meta" ELSE "index")
  /\ SameMemory /\ SameAck /\ NothingElse

(* rule.add and rule.update. *)
BeginPutRule(o) ==
  /\ Unlocked
  /\ Present(Body(o)) => Opens(mem.key, Body(o))
  /\ Begin("putRule", "body", o, FALSE, NoAttach, NoAttach)
  /\ IF acked[o].state = "deleted" THEN Undecided(o) ELSE SameAck
  /\ SameFiles /\ SameMemory /\ UNCHANGED <<synced, keys, codes, interrupted, faults>>

(* Mutated form: the tombstone stays. *)
KeepTomb ==
  /\ Running("putRule", "noTomb")
  /\ SameFiles
  /\ Goto("index")
  /\ SameMemory /\ SameAck /\ NothingElse

(* A rule that is written again loses the tombstone of its deletion. *)
ClearTomb ==
  /\ Running("putRule", "noTomb")
  /\ Remove(Tomb(op.id))
  /\ Goto("index")
  /\ SameMemory /\ SameAck /\ NothingElse

(* rule.remove: the entry in memory first, then the tombstone, then the index. *)
BeginDeleteRule(o) ==
  /\ Unlocked
  /\ Opens(mem.key, Body(o)) /\ ~mem.index[o].deleted
  /\ Begin("deleteRule", "tomb", o, TRUE, NoAttach, NoAttach)
  /\ mem' = IF mem.index[o] = NoEntry THEN mem
            ELSE [mem EXCEPT !.index[o] = [rev |-> clock', deleted |-> TRUE]]
  /\ Undecided(o)
  /\ SameFiles /\ UNCHANGED <<synced, keys, codes, interrupted, faults>>

(* list(): items whose file is gone leave the index.  Rules do not. *)
List ==
  LET gone == {o \in Item : mem.index[o] # NoEntry /\ ~Present(Body(o))}
      kept == [o \in Object |-> IF o \in gone THEN NoEntry ELSE mem.index[o]]
  IN  /\ Unlocked
      /\ gone # {}
      /\ mem' = [mem EXCEPT !.index = kept]
      /\ Write(Index, [key |-> mem.key, entries |-> kept])
      /\ SameAck /\ UNCHANGED op /\ NothingElse

(* apply_round brings in a newer version: the attachment it no longer refers to *)
(* goes, then import_item or import_rule writes the body and the index, then    *)
(* come the tombstone of a deletion and the new attachment's files; the        *)
(* tombstone of an object that is live again stays.                            *)
BeginImport(o) ==
  /\ Free /\ synced
  /\ Present(Body(o)) => Opens(mem.key, Body(o))
  /\ \E deleted \in BOOLEAN, a \in {disk[Body(o)].attach} \cup (IF o \in Item THEN FreshAttach ELSE {}) :
       LET old == disk[Body(o)].attach
       IN  /\ Issue
           /\ op' = [Idle EXCEPT !.kind = "import", !.id = o, !.rev = clock', !.deleted = deleted,
                       !.attach = a,
                       !.drop = IF a = old THEN NoAttach ELSE old,
                       !.at = IF a = old \/ old = NoAttach THEN "body" ELSE "dropChunk",
                       !.todo = IF a = old THEN {} ELSE {Meta(a), Chunk(a)}]
  /\ Undecided(o)
  /\ SameFiles /\ SameMemory /\ UNCHANGED <<synced, keys, codes, interrupted, faults>>

(* import_item and import_rule save the index themselves. *)
SaveImported ==
  /\ Running("import", "index")
  /\ mem' = [mem EXCEPT !.index = Entered]
  /\ Write(Index, [key |-> mem.key, entries |-> Entered])
  /\ Goto(IF op.deleted THEN "tomb" ELSE "meta")
  /\ SameAck /\ NothingElse

(* import_attachment: metadata first, then the chunks. *)
ImportMeta ==
  /\ Running("import", "meta")
  /\ IF op.todo = {} THEN SameFiles
     ELSE Write(Meta(op.attach), [key |-> mem.key, inner |-> mem.key])
  /\ Goto("chunk")
  /\ SameMemory /\ SameAck /\ NothingElse

ImportChunks ==
  /\ Running("import", "chunk")
  /\ IF op.todo = {} THEN SameFiles ELSE Write(Chunk(op.attach), OwnKey)
  /\ op' = Idle
  /\ Answered
  /\ SameMemory /\ NothingElse

(* hard_delete, of a deletion the engine knows to be confirmed and 30 days old. *)
BeginHardDelete(o) ==
  /\ Free /\ synced
  /\ mem.index[o].deleted /\ Opens(mem.key, Tomb(o)) /\ disk[Tomb(o)].old
  /\ op' = [Idle EXCEPT !.kind = "hardDelete", !.at = "noBody", !.id = o,
                        !.drop = IF Opens(mem.key, Body(o)) THEN disk[Body(o)].attach
                                 ELSE NoAttach]
  /\ SameFiles /\ SameMemory /\ SameAck /\ NothingElse

SaveHardDelete ==
  LET left == [mem.index EXCEPT ![op.id] = NoEntry]
  IN  /\ Running("hardDelete", "index")
      /\ mem' = [mem EXCEPT !.index = left]
      /\ Write(Index, [key |-> mem.key, entries |-> left])
      /\ op' = Idle
      /\ SameAck /\ NothingElse

(* vault.lock, auto-lock, shutdown; a locked vault may be locked again. *)
Lock ==
  /\ op = Idle /\ mem.next = NotAgain
  /\ mem' = Locked
  /\ SameFiles /\ SameAck /\ UNCHANGED op /\ NothingElse

-----------------------------------------------------------------------------
(***************************************************************************)
(* Unlock: the index is loaded or rebuilt, then old tombstones are purged. *)
(***************************************************************************)

(* Mutated form: every object gets a new revision. *)
Redated(k, now) ==
  [o \in Object |-> IF ~Opens(k, Body(o)) THEN NoEntry
                    ELSE [rev |-> now, deleted |-> Opens(k, Tomb(o))]]

(* rebuild_index: items say themselves whether they are deleted; a rule is *)
(* deleted when it has a tombstone, and gets a new revision when not.      *)
Rebuilt(k, now) ==
  [o \in Object |->
     IF ~Opens(k, Body(o)) THEN NoEntry
     ELSE IF o \in Item THEN [rev |-> disk[Body(o)].rev, deleted |-> disk[Body(o)].deleted]
     ELSE IF Opens(k, Tomb(o)) THEN [rev |-> disk[Tomb(o)].rev, deleted |-> TRUE]
     ELSE [rev |-> now, deleted |-> FALSE]]

(* load_index.  An index that is missing or does not open is rebuilt and written. *)
LoadIndex(k, next) ==
  IF Opens(k, Index)
    THEN /\ op' = [op EXCEPT !.at = next, !.entries = disk[Index].entries]
         /\ SameFiles /\ UNCHANGED clock
    ELSE /\ Now
         /\ op' = [op EXCEPT !.at = next, !.entries = Rebuilt(k, clock')]
         /\ Write(Index, [key |-> k, entries |-> Rebuilt(k, clock')])

(* vault.unlock with the password of the header's key.  While it is under way no *)
(* round is: the vault is locked, or not synchronised.                           *)
BeginUnlock ==
  /\ op = Idle
  /\ mem.key = 0 \/ ~synced
  /\ Present(Header)
  /\ op' = [Idle EXCEPT !.kind = "unlock", !.at = "load", !.key = disk[Header].key]
  /\ SameFiles /\ SameMemory /\ SameAck /\ NothingElse

Load ==
  /\ Running("unlock", "load")
  /\ LoadIndex(op.key, IF synced THEN "finish" ELSE "purge")
  /\ SameMemory /\ SameAck /\ UNCHANGED <<synced, keys, codes, interrupted, faults>>

(* purge_expired, one object after the other. *)
Expired(k) == {o \in Object : Opens(k, Tomb(o)) /\ disk[Tomb(o)].old}

PurgeNext ==
  /\ Running("unlock", "purge")
  /\ \E o \in Expired(op.key) :
       op' = [op EXCEPT !.at = "noBody", !.id = o,
                        !.drop = IF Opens(op.key, Body(o)) THEN disk[Body(o)].attach
                                 ELSE NoAttach]
  /\ SameFiles /\ SameMemory /\ SameAck /\ NothingElse

PurgeBody ==
  /\ op.kind \in {"unlock", "hardDelete"} /\ op.at = "noBody"
  /\ Remove(Body(op.id))
  /\ Goto("noTomb")
  /\ SameMemory /\ SameAck /\ NothingElse

AfterPurge == IF op.kind = "unlock" THEN "purge" ELSE "index"

(* The purged object has left the list of entries. *)
Purged(o) == [op EXCEPT !.entries[o] = NoEntry, !.id = NoObject, !.drop = NoAttach,
                        !.todo = {Index}, !.at = "purge"]

PurgeTomb ==
  /\ op.kind \in {"unlock", "hardDelete"} /\ op.at = "noTomb"
  /\ Remove(Tomb(op.id))
  /\ IF op.drop # NoAttach THEN Goto("dropChunk")
     ELSE IF op.kind = "unlock" THEN op' = Purged(op.id)
     ELSE Goto("index")
  /\ SameMemory /\ SameAck /\ NothingElse

PurgeMeta ==
  /\ op.kind \in {"unlock", "hardDelete"} /\ op.at = "dropMeta"
  /\ Remove(Meta(op.drop))
  /\ IF op.kind = "unlock" THEN op' = Purged(op.id) ELSE Goto("index")
  /\ SameMemory /\ SameAck /\ NothingElse

(* The index is saved when something was purged. *)
PurgeDone ==
  /\ Running("unlock", "purge")
  /\ Expired(op.key) = {}
  /\ IF op.todo # {} THEN Write(Index, [key |-> op.key, entries |-> op.entries])
     ELSE SameFiles
  /\ Goto("finish")
  /\ SameMemory /\ SameAck /\ NothingElse

Unlock ==
  /\ Running("unlock", "finish")
  /\ mem' = [Locked EXCEPT !.key = op.key, !.index = op.entries]
  /\ op' = Idle
  /\ SameFiles /\ SameAck /\ NothingElse

(* vault.unlock of a vault that is unlocked, which nothing refuses: it opens the *)
(* vault again and holds no lock on the one that is open, so that from the load  *)
(* of the index on other commands wait, and rounds of the poller do not.  Time   *)
(* passes, which bounds how often this happens.                                  *)
LoadAgain ==
  /\ op.kind \in {"idle", "import", "hardDelete"}
  /\ mem.key # 0 /\ mem.next = NotAgain /\ synced
  /\ Present(Header)
  /\ Issue
  /\ LET k == disk[Header].key
     IN  mem' = [mem EXCEPT !.next =
           IF Opens(k, Index) THEN [at |-> "finish", key |-> k, entries |-> disk[Index].entries]
           ELSE [at |-> "save", key |-> k, entries |-> Rebuilt(k, clock')]]
  /\ SameFiles /\ UNCHANGED op /\ SameAck
  /\ UNCHANGED <<synced, keys, codes, interrupted, faults>>

(* What has been loaded calls an object live that was deleted, or removed, since. *)
Stale == \E o \in Object : LET e == mem.next.entries[o]
                           IN  /\ e # NoEntry /\ ~e.deleted
                               /\ mem.index[o].deleted \/ ~Present(Body(o))

Overtaken == interrupted' = IF Stale THEN interrupted \cup {<<"unlockAgain", mem.next.at>>}
                            ELSE interrupted

(* The rebuilt index is written, whatever the one on disk says by now. *)
SaveAgain ==
  /\ mem.next.at = "save"
  /\ Write(Index, [key |-> mem.next.key, entries |-> mem.next.entries])
  /\ mem' = [mem EXCEPT !.next = [@ EXCEPT !.at = "finish"]]
  /\ Overtaken
  /\ UNCHANGED op /\ SameAck /\ UNCHANGED <<synced, clock, keys, codes, faults>>

(* The vault opened again takes the place of the other one, once no round holds it. *)
UnlockAgain ==
  /\ op = Idle /\ mem.next.at = "finish"
  /\ mem' = [Locked EXCEPT !.key = mem.next.key, !.index = mem.next.entries]
  /\ Overtaken
  /\ SameFiles /\ UNCHANGED op /\ SameAck /\ UNCHANGED <<synced, clock, keys, codes, faults>>

-----------------------------------------------------------------------------
(***************************************************************************)
(* Recovery: every file is sealed again with a key derived from the new    *)
(* password, file by file, then the index, the envelope and the header.    *)
(***************************************************************************)

(* vault.recover with a code the user was shown.  The vault is locked first; *)
(* the old key comes out of the envelope.                                    *)
BeginRecover ==
  /\ op = Idle /\ mem.next = NotAgain
  /\ Present(Header) /\ disk[Envelope].key \in codes
  /\ keys < MaxKey /\ keys' = keys + 1
  /\ mem' = Locked
  /\ op' = [Idle EXCEPT !.kind = "recover", !.at = "load", !.key = keys',
                        !.oldKey = disk[Envelope].key]
  /\ SameFiles /\ SameAck /\ UNCHANGED <<synced, clock, codes, interrupted, faults>>

(* The index is loaded with the old key before any file changes; then the *)
(* directory is listed.                                                   *)
LoadOld ==
  /\ Running("recover", "load")
  /\ IF Opens(op.oldKey, Index)
       THEN /\ op' = [op EXCEPT !.at = "reseal", !.entries = disk[Index].entries,
                                !.todo = {n \in Bodies \cup Tombs \cup Metas : Present(n)}]
            /\ SameFiles /\ UNCHANGED clock
       ELSE /\ Now
            /\ op' = [op EXCEPT !.at = "reseal", !.entries = Rebuilt(op.oldKey, clock'),
                                !.todo = {n \in Bodies \cup Tombs \cup Metas : Present(n)}]
            /\ Write(Index, [key |-> op.oldKey, entries |-> Rebuilt(op.oldKey, clock')])
  /\ SameMemory /\ SameAck /\ UNCHANGED <<synced, keys, codes, interrupted, faults>>

(* Can n be opened with the old key, the key sealed inside it too? *)
Recoverable(n) ==
  /\ Opens(op.oldKey, n)
  /\ n \in Metas => disk[n].inner = op.oldKey

(* Mutated form: the key inside an attachment's metadata is left as it is. *)
OuterResealed(n) == [disk[n] EXCEPT !.key = op.key]

Resealed(n) == IF n \in Metas THEN [key |-> op.key, inner |-> op.key]
               ELSE [disk[n] EXCEPT !.key = op.key]

Reseal ==
  /\ Running("recover", "reseal")
  /\ \E n \in op.todo :
       /\ Recoverable(n)
       /\ Write(n, Resealed(n))
       /\ op' = [op EXCEPT !.todo = @ \ {n}]
  /\ SameMemory /\ SameAck /\ NothingElse

(* A file that does not open ends the recovery where it stands. *)
ResealFails ==
  /\ Running("recover", "reseal")
  /\ \E n \in op.todo : ~Recoverable(n)
  /\ op' = Idle
  /\ interrupted' = interrupted \cup {<<op.kind, op.at>>}
  /\ SameFiles /\ SameMemory /\ SameAck /\ UNCHANGED <<synced, clock, keys, codes, faults>>

ResealIndex ==
  /\ Running("recover", "reseal")
  /\ op.todo = {}
  /\ Write(Index, [key |-> op.key, entries |-> op.entries])
  /\ Goto("envelope")
  /\ SameMemory /\ SameAck /\ NothingElse

(* init and recover write the envelope before the header. *)
WriteEnvelope ==
  /\ op.kind \in {"recover", "init"} /\ op.at = "envelope"
  /\ Write(Envelope, [key |-> op.key])
  /\ Goto("header")
  /\ SameMemory /\ SameAck /\ NothingElse

WriteHeader ==
  /\ op.kind \in {"recover", "init"} /\ op.at = "header"
  /\ Write(Header, [key |-> op.key])
  /\ Goto(IF op.kind = "init" THEN "index" ELSE "finish")
  /\ SameMemory /\ SameAck /\ NothingElse

(* The event is appended and the user is shown the new code. *)
ShowCode ==
  /\ op.kind \in {"recover", "init"} /\ op.at = "finish"
  /\ codes' = codes \cup {op.key}
  /\ op' = Idle
  /\ SameFiles /\ SameMemory /\ SameAck
  /\ UNCHANGED <<synced, clock, keys, interrupted, faults>>

-----------------------------------------------------------------------------
(***************************************************************************)
(* Creation, and creation over an existing vault.                          *)
(***************************************************************************)

(* vault.init; with force the files of the old vault are removed first.  What *)
(* the user was told about them is void.                                      *)
BeginInit(reset) ==
  /\ op = Idle /\ mem.next = NotAgain
  /\ Present(Header) => reset
  /\ keys < MaxKey /\ keys' = keys + 1
  /\ mem' = IF reset THEN Locked ELSE mem
  /\ op' = [Idle EXCEPT !.kind = "init", !.key = keys',
              !.at = IF Present(Header) THEN "wipe" ELSE "envelope",
              !.todo = IF Present(Header) THEN {n \in Name : Present(n)} ELSE {}]
  /\ acked' = [o \in Object |-> [state |-> "none", rev |-> 0]]
  /\ SameFiles /\ UNCHANGED <<synced, clock, codes, interrupted, faults>>

(* wipe_vault_files, in the order of the directory. *)
Wipe ==
  /\ Running("init", "wipe")
  /\ \E n \in op.todo :
       /\ Remove(n)
       /\ op' = [op EXCEPT !.todo = @ \ {n}]
  /\ SameMemory /\ SameAck /\ NothingElse

Wiped ==
  /\ Running("init", "wipe") /\ op.todo = {}
  /\ Goto("envelope")
  /\ SameFiles /\ SameMemory /\ SameAck /\ NothingElse

EmptyIndex ==
  /\ Running("init", "index")
  /\ Write(Index, [key |-> op.key, entries |-> Empty])
  /\ Goto("finish")
  /\ SameMemory /\ SameAck /\ NothingElse

-----------------------------------------------------------------------------
(***************************************************************************)
(* Failures and time.                                                      *)
(***************************************************************************)
Cut == interrupted' = IF op = Idle THEN interrupted
                      ELSE interrupted \cup {<<op.kind, op.at>>}

Fault == faults < MaxFaults /\ faults' = faults + 1

(* The daemon dies and starts again, locked. *)
Crash ==
  /\ Fault
  /\ op # Idle \/ mem.key # 0
  /\ Cut
  /\ op' = Idle /\ mem' = Locked
  /\ SameFiles /\ SameAck /\ UNCHANGED <<synced, clock, keys, codes>>

(* A write fails (disk full): the command ends with an error.  The entry in *)
(* memory has been changed by then when the write was save_index.           *)
WriteFails ==
  /\ Fault
  /\ op.at \in {"chunk", "meta", "body", "tomb", "index", "reseal", "envelope", "header"}
  /\ Cut
  /\ mem' = IF op.at # "index" \/ op.kind = "init" THEN mem
            ELSE IF op.kind = "hardDelete" THEN [mem EXCEPT !.index[op.id] = NoEntry]
            ELSE [mem EXCEPT !.index = Entered]
  /\ op' = Idle
  /\ SameFiles /\ SameAck /\ UNCHANGED <<synced, clock, keys, codes>>

(* So does the write of the index that an unlock has rebuilt; it is not counted *)
(* as a fault, for it takes one, the loss of the index, to get there.          *)
AgainFails ==
  /\ mem.next.at = "save"
  /\ mem' = [mem EXCEPT !.next = NotAgain]
  /\ SameFiles /\ UNCHANGED op /\ SameAck
  /\ UNCHANGED <<synced, clock, keys, codes, interrupted, faults>>

(* The index file is lost or damaged: to load_index the two are one. *)
LoseIndex ==
  /\ Fault
  /\ op = Idle /\ Present(Index)
  /\ Remove(Index)
  /\ SameMemory /\ SameAck /\ UNCHANGED <<op, synced, clock, keys, codes, interrupted>>

(* Thirty days pass. *)
GraceEnds ==
  /\ op = Idle
  /\ \E o \in Object : Present(Tomb(o)) /\ ~disk[Tomb(o)].old
  /\ disk' = [n \in Name |-> IF n \in Tombs /\ Present(n) THEN [disk[n] EXCEPT !.old = TRUE]
                             ELSE disk[n]]
  /\ SameMemory /\ SameAck /\ UNCHANGED op /\ NothingElse

Init ==
  /\ disk = [n \in Name |-> Missing(n)]
  /\ mem = Locked
  /\ op = Idle
  /\ synced \in Synced
  /\ clock = 0 /\ keys = 0 /\ codes = {}
  /\ acked = [o \in Object |-> [state |-> "none", rev |-> 0]]
  /\ interrupted = {} /\ faults = 0

ItemCommand == \E o \in Item : BeginPut(o) \/ BeginDelete(o) \/ DeleteAgain(o)
RuleCommand == \E o \in Rule : BeginPutRule(o) \/ BeginDeleteRule(o)
SyncCommand == \E o \in Object : BeginImport(o) \/ BeginHardDelete(o)

WriteStep == PutChunks \/ PutMeta \/ DropChunks \/ DropReplaced \/ WriteBody \/ WriteTomb
             \/ ClearTomb \/ SaveIndex \/ SaveImported \/ ImportMeta \/ ImportChunks
             \/ SaveHardDelete
PurgeStep == PurgeNext \/ PurgeBody \/ PurgeTomb \/ PurgeMeta \/ PurgeDone
AgainStep == LoadAgain \/ SaveAgain \/ UnlockAgain \/ AgainFails
KeyStep   == LoadOld \/ Reseal \/ ResealFails \/ ResealIndex \/ WriteEnvelope \/ WriteHeader
             \/ ShowCode \/ Wipe \/ Wiped \/ EmptyIndex

Next ==
  \/ ItemCommand \/ RuleCommand \/ SyncCommand \/ List \/ Lock
  \/ WriteStep
  \/ BeginUnlock \/ Load \/ PurgeStep \/ Unlock \/ AgainStep
  \/ BeginRecover \/ (\E reset \in BOOLEAN : BeginInit(reset)) \/ KeyStep
  \/ Crash \/ WriteFails \/ LoseIndex \/ GraceEnds

Spec == Init /\ [][Next]_vars

-----------------------------------------------------------------------------
TypeOK ==
  /\ \A o \in Object : disk[Body(o)] \in BodyBlob /\ disk[Tomb(o)] \in TombBlob
  /\ \A a \in Attach : disk[Meta(a)] \in MetaBlob /\ disk[Chunk(a)] \in PlainBlob
  /\ disk[Header] \in PlainBlob /\ disk[Envelope] \in PlainBlob
  /\ disk[Index] \in IndexBlob
  /\ mem \in Memory
  /\ op \in Op
  /\ synced \in BOOLEAN
  /\ clock \in Rev /\ keys \in Key /\ codes \subseteq 1..MaxKey
  /\ acked \in [Object -> Ack]
  /\ interrupted \subseteq Kind \X At
  /\ faults \in 0..MaxFaults

(* Steps at which a command was cut off. *)
CutAt(kind, steps) == \E s \in steps : <<kind, s>> \in interrupted

(* The commands that replace keys, from the first file they touch. *)
Rekeying == op.kind \in {"recover", "init"}
KeysTorn == CutAt("recover", {"reseal", "envelope", "header"}) \/ CutAt("init", At)

(* All that is stored opens with the password of the header and with the code  *)
(* of the envelope, whatever command is under way or was cut off, unless a     *)
(* recovery or a reset was cut off between two files.                          *)
KeysAgree ==
  ~Rekeying /\ ~KeysTorn /\ Present(Header) =>
    /\ \A n \in Name \ Chunks : Present(n) => disk[n].key = disk[Header].key
    /\ \A a \in Attach : disk[Meta(a)].inner = disk[Meta(a)].key
    /\ Present(Envelope)
    /\ mem.key # 0 => mem.key = disk[Header].key

Stored(o) == Present(Body(o)) /\ disk[Body(o)].rev >= acked[o].rev

(* What the user was told is stored is stored, at that revision or a later *)
(* one, until it is deleted: through crashes, failed writes, purges, the   *)
(* loss of the index and completed recoveries.  An object that was brought *)
(* back under the tombstone of its deletion is the exception.              *)
AckedSurvives == \A o \in Object : acked[o].state = "live" => Stored(o)

(* The same of an object brought back under its tombstone, which item.update and *)
(* the import of a newer version answer like any other.                          *)
RevivedSurvives == \A o \in Object : acked[o].state = "revived" => Stored(o)

Purging == op.kind \in {"unlock", "hardDelete"}
PurgeTorn == CutAt("unlock", At) \/ CutAt("hardDelete", At)

(* An unlock of the unlocked vault put an index back that had been overtaken. *)
StaleIndex == CutAt("unlockAgain", At)

(* What the index on disk announces to the sync engine is there to be read: *)
(* it never names a revision newer than the file, nor a live rule without a *)
(* file (list_rules would fail and every gate would refuse).  A purge cut   *)
(* off between the files and the index is the exception, and an index from  *)
(* before a purge that an unlock of the unlocked vault put back.            *)
IndexNeverAhead ==
  ~Rekeying /\ ~KeysTorn /\ Present(Index) =>
    \A o \in Object :
      LET e == disk[Index].entries[o]
      IN  e # NoEntry =>
            /\ Present(Body(o)) /\ o \in Item => e.rev <= disk[Body(o)].rev
            /\ Present(Body(o)) \/ e.deleted \/ Purging \/ PurgeTorn \/ StaleIndex

(* An item's attachment can be exported: metadata and chunks are there and    *)
(* open, unless an update was cut off after it removed the attachment it        *)
(* replaces, or an import before it had written the new one.                    *)
AttachmentsWhole ==
  ~Rekeying /\ ~KeysTorn /\ ~CutAt("put", {"dropMeta", "body"})
  /\ ~CutAt("import", At) =>
    \A o \in Item :
      LET a == disk[Body(o)].attach
      IN  a # NoAttach /\ ~(op.kind \in {"put", "import"} /\ op.id = o) =>
            /\ Present(Chunk(a))
            /\ disk[Meta(a)] = [key |-> disk[Body(o)].key, inner |-> disk[Body(o)].key]

DeletionTorn == \E k \in {"delete", "deleteRule", "import"} : CutAt(k, At)

(* A deletion the user was told of will reach the other devices and the purge: *)
(* the index says deleted and the tombstone is there, unless an earlier try to *)
(* delete an object, or to import its deletion, was cut off.                   *)
DeletionStands ==
  ~Rekeying /\ ~KeysTorn /\ ~DeletionTorn =>
    \A o \in Object : acked[o].state = "deleted" /\ Present(Body(o)) =>
      /\ Present(Index) /\ disk[Index].entries[o] # NoEntry => disk[Index].entries[o].deleted
      /\ synced \/ Present(Tomb(o))

(* DeletionStands, until a vault.unlock of the unlocked vault puts back the index  *)
(* it had loaded before the poller imported a deletion.                           *)
DeletionRecorded == ~StaleIndex => DeletionStands

(* Whoever knows the password and the recovery code can read every object. *)
AccessKept ==
  op = Idle /\ Present(Header) =>
    \A o \in Object : Present(Body(o)) =>
      \/ disk[Body(o)].key = disk[Header].key
      \/ disk[Body(o)].key = disk[Envelope].key /\ disk[Envelope].key \in codes

=============================================================================
