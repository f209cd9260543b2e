--------------------------- MODULE VaultStore_proofs ---------------------------
(***************************************************************************)
(* Proof that the files of a vault agree on their key (KeysAgree).  As it  *)
(* stands it is not inductive: it says nothing of a recovery or a creation *)
(* under way.  KeyInv adds how far those have come (Recovering, Creating)  *)
(* and what a command keeps about the key it works with (Ordinary); Shape  *)
(* says that records have the fields their names call for.                 *)
(*                                                                         *)
(* Then, proof that what the user was told is stored stays stored          *)
(* (AckedSurvives).  That property says nothing of a command under way,    *)
(* nor of tombstones, and both matter: AckInv adds that no object the user *)
(* counts on has a tombstone, since only then can a purge remove it        *)
(* (Held), what the command under way has written and what it has taken    *)
(* back before it began to delete (Doing), and that revisions come from    *)
(* the clock (Issued).                                                     *)
(***************************************************************************)
EXTENDS VaultStore, TLAPS

(* Every file but the chunks, which have a key of their own. *)
Objs == Bodies \cup Tombs \cup Metas
Kept == Name \ Chunks

(* Under the key k: sealed with it, if there at all, and so is what is inside. *)
Under(n, k) ==
  /\ Present(n) => disk[n].key = k
  /\ n \in Metas => disk[n].inner = disk[n].key

(* What holds whenever keys are not being replaced. *)
Agree ==
  IF Present(Header) THEN Present(Envelope) /\ \A n \in Kept : Under(n, disk[Header].key)
                     ELSE \A n \in Kept : ~Present(n) /\ Under(n, 0)

(* The commands that need an unlocked vault. *)
MemKinds == {"put", "delete", "putRule", "deleteRule", "import", "hardDelete"}

Ordinary ==
  /\ Agree
  /\ mem.key # 0 => mem.key = disk[Header].key
  /\ mem.next.at # "idle" => mem.next.key = mem.key
  /\ op.kind \in MemKinds => mem.key # 0
  /\ op.kind = "unlock" => Present(Header) /\ op.key = disk[Header].key

(* How far a recovery has come. *)
Recovering ==
  /\ mem.key = 0 /\ op.key # 0
  /\ op.at \in {"load", "reseal", "envelope", "header", "finish"}
  /\ op.at = "load" => Agree /\ Present(Header) /\ op.oldKey = disk[Header].key
  /\ op.at = "reseal" => \A n \in Objs \ op.todo : Under(n, op.key)
  /\ op.at \in {"envelope", "header", "finish"} => \A n \in Objs \cup {Index} : Under(n, op.key)
  /\ op.at \in {"header", "finish"} => disk[Envelope].key = op.key
  /\ op.at = "finish" => disk[Header].key = op.key

(* How far a creation has come. *)
Creating ==
  /\ mem.key = 0 /\ op.key # 0
  /\ op.at \in {"wipe", "envelope", "header", "index", "finish"}
  /\ op.at = "wipe" => \A n \in Kept \ op.todo : ~Present(n) /\ Under(n, 0)
  /\ op.at # "wipe" => \A n \in Objs : ~Present(n) /\ Under(n, 0)
  /\ op.at \in {"header", "index", "finish"} => disk[Envelope].key = op.key
  /\ op.at \in {"index", "finish"} => disk[Header].key = op.key
  /\ op.at = "finish" => disk[Index].key = op.key

KeyInv ==
  ~KeysTorn => CASE op.kind = "recover" -> Recovering
                 [] op.kind = "init"    -> Creating
                 [] OTHER               -> Ordinary

Shaped(f) ==
  f = [kind |-> f.kind, at |-> f.at, id |-> f.id, rev |-> f.rev, deleted |-> f.deleted,
       attach |-> f.attach, drop |-> f.drop, key |-> f.key, oldKey |-> f.oldKey,
       entries |-> f.entries, todo |-> f.todo]

BodyShape(b) == b = [key |-> b.key, rev |-> b.rev, deleted |-> b.deleted, attach |-> b.attach]
TombShape(b) == b = [key |-> b.key, rev |-> b.rev, old |-> b.old]

DiskShape ==
  /\ disk = [n \in Name |-> disk[n]]
  /\ \A n \in Bodies : BodyShape(disk[n])
  /\ \A n \in Tombs : TombShape(disk[n])

MemShape ==
  /\ mem = [key |-> mem.key, index |-> mem.index, next |-> mem.next]
  /\ mem.next = [at |-> mem.next.at, key |-> mem.next.key, entries |-> mem.next.entries]

(* What runs beside an unlock of the unlocked vault: rounds of the poller, or nothing. *)
Beside ==
  mem.next.at # "idle" =>
    /\ mem.next.at \in {"save", "finish"}
    /\ mem.key # 0 /\ synced
    /\ op.kind \in {"idle", "import", "hardDelete"}

(* Records and functions are what they seem. *)
Shape ==
  /\ DiskShape
  /\ Shaped(op)
  /\ MemShape
  /\ Beside
  /\ keys \in Nat

-----------------------------------------------------------------------------
(***************************************************************************)
(* Names and records.                                                      *)
(***************************************************************************)

(* The names of different files differ. *)
LEMMA Names ==
  /\ Header \in Kept /\ Envelope \in Kept /\ Index \in Kept
  /\ Header # Envelope /\ Header # Index /\ Envelope # Index
  /\ Header \notin Objs /\ Envelope \notin Objs /\ Index \notin Objs
  /\ Kept = Objs \cup {Header, Envelope, Index}
  /\ Bodies \cap Metas = {} /\ Tombs \cap Metas = {} /\ Bodies \cap Tombs = {}
  BY DEF Header, Envelope, Index, Kept, Objs, Name, Bodies, Tombs, Metas, Chunks, Fixed, Body,
         Tomb, Meta, Chunk

(* Nor does a body pass for another file, whatever its object. *)
LEMMA NamesOf ==
  ASSUME NEW x
  PROVE  /\ Body(x) \notin Metas \cup Tombs \cup {Header, Envelope, Index}
         /\ Tomb(x) \notin Metas \cup Bodies \cup {Header, Envelope, Index}
         /\ Meta(x) \notin Bodies \cup Tombs \cup {Header, Envelope, Index}
         /\ Chunk(x) \notin Kept
  BY DEF Header, Envelope, Index, Kept, Objs, Name, Bodies, Tombs, Metas, Chunks, Fixed, Body,
         Tomb, Meta, Chunk

(* A file that is not there has no key. *)
LEMMA MissingFiles ==
  ASSUME NEW n \in Kept
  PROVE  /\ Missing(n).key = 0
         /\ n \in Metas => Missing(n).inner = 0
         /\ n \in Bodies => BodyShape(Missing(n))
         /\ n \in Tombs => TombShape(Missing(n))
  <1>1. CASE n \in Bodies
    <2>1. n \notin Tombs /\ n \notin Metas /\ n # Index
      BY <1>1, Names DEF Objs
    <2>2. Missing(n) = NoBody
      BY <1>1, <2>1 DEF Missing
    <2> QED
      BY <1>1, <2>1, <2>2 DEF NoBody, BodyShape
  <1>2. CASE n \in Tombs
    <2>1. n \notin Bodies /\ n \notin Metas /\ n # Index
      BY <1>2, Names DEF Objs
    <2>2. Missing(n) = NoTomb
      BY <1>2, <2>1 DEF Missing
    <2> QED
      BY <1>2, <2>1, <2>2 DEF NoTomb, TombShape
  <1>3. CASE n \in Metas
    <2>1. n \notin Bodies /\ n \notin Tombs /\ n # Index
      BY <1>3, Names DEF Objs
    <2>2. Missing(n) = NoMeta
      BY <1>3, <2>1 DEF Missing
    <2> QED
      BY <1>3, <2>1, <2>2 DEF NoMeta
  <1>4. CASE n = Index
    <2>1. Missing(n) = NoIndex
      BY <1>4, Names DEF Missing, Objs
    <2> QED
      BY <1>4, <2>1, Names DEF NoIndex, Objs
  <1>5. CASE n \in {Header, Envelope}
    <2>1. Missing(n) = NoFile
      BY <1>5, Names DEF Missing, Objs
    <2> QED
      BY <1>5, <2>1, Names DEF NoFile, Objs
  <1> QED
    BY <1>1, <1>2, <1>3, <1>4, <1>5, Names DEF Objs

(* Going on to another step changes nothing else. *)
LEMMA GotoKeeps ==
  ASSUME Shaped(op), NEW s, op' = [op EXCEPT !.at = s]
  PROVE  /\ op'.at = s /\ op'.kind = op.kind /\ op'.key = op.key /\ op'.oldKey = op.oldKey
         /\ op'.todo = op.todo /\ op'.entries = op.entries
         /\ Shaped(op')
  BY DEF Shaped

(* No command: the record of an idle daemon. *)
LEMMA IdleShaped == Shaped(Idle) /\ Idle.kind = "idle" /\ Idle.key = 0 /\ Idle.at = "idle"
  BY DEF Shaped, Idle

(* What a command that begins looks like. *)
LEMMA BeginShaped ==
  ASSUME NEW kind \in MemKinds, NEW at, NEW o, NEW d, NEW a, NEW dr, Begin(kind, at, o, d, a, dr)
  PROVE  Shaped(op') /\ op'.kind = kind
  BY DEF Begin, Idle, Shaped

(* A purge that goes on to the next object is still the same unlocking. *)
LEMMA PurgedShaped ==
  ASSUME Shaped(op), NEW o, op' = Purged(o)
  PROVE  Shaped(op') /\ op'.kind = op.kind /\ op'.key = op.key
  BY DEF Shaped, Purged

-----------------------------------------------------------------------------
(***************************************************************************)
(* Shape is an invariant.                                                  *)
(***************************************************************************)

(* A file that is written has the shape its name calls for. *)
LEMMA WriteShape ==
  ASSUME DiskShape, NEW n, NEW b, Write(n, b),
         n \in Bodies => BodyShape(b), n \in Tombs => TombShape(b)
  PROVE  DiskShape'
  BY DEF DiskShape, Write

(* A file that is removed leaves the blob of its kind. *)
LEMMA RemoveShape ==
  ASSUME DiskShape, NEW n, Remove(n)
  PROVE  DiskShape'
  <1>1. n \in Bodies => BodyShape(Missing(n))
    BY MissingFiles, Names DEF Objs
  <1>2. n \in Tombs => TombShape(Missing(n))
    BY MissingFiles, Names DEF Objs
  <1> QED
    BY <1>1, <1>2 DEF DiskShape, Remove

(* Every step leaves files of the right kind under every name. *)
LEMMA DiskSteps == DiskShape /\ [Next]_vars => DiskShape'
  <1> SUFFICES ASSUME DiskShape, [Next]_vars PROVE DiskShape'
    OBVIOUS
  <1>0. disk' = disk => DiskShape'
    BY DEF DiskShape
  <1>1. CASE ItemCommand \/ RuleCommand \/ SyncCommand \/ Lock
    BY <1>0, <1>1 DEF ItemCommand, RuleCommand, SyncCommand, Lock, BeginPut, BeginDelete,
                      DeleteAgain, BeginPutRule, BeginDeleteRule, BeginImport, BeginHardDelete,
                      SameFiles
  <1>2. CASE \/ BeginUnlock \/ Unlock \/ BeginRecover \/ (\E reset \in BOOLEAN : BeginInit(reset))
             \/ Crash \/ WriteFails \/ LoadAgain \/ UnlockAgain \/ AgainFails \/ UNCHANGED vars
    BY <1>0, <1>2 DEF BeginUnlock, Unlock, BeginRecover, BeginInit, Crash, WriteFails, LoadAgain,
                      UnlockAgain, AgainFails, SameFiles, vars
  <1>3. CASE List \/ SaveAgain
    <2>1. \E b : Write(Index, b)
      BY <1>3 DEF List, SaveAgain
    <2> QED
      BY <2>1, WriteShape, Names DEF Objs
  <1>4. CASE PutChunks \/ PutMeta \/ WriteBody \/ WriteTomb
    <2>1. CASE PutChunks
      BY <2>1, WriteShape, NamesOf, Names DEF PutChunks, Objs
    <2>2. CASE PutMeta
      BY <2>2, WriteShape, NamesOf DEF PutMeta
    <2>3. CASE WriteBody
      <3>1. PICK b : Write(Body(op.id), b) /\ BodyShape(b)
        BY <2>3 DEF WriteBody, BodyShape
      <3> QED
        BY <3>1, WriteShape, NamesOf
    <2>4. CASE WriteTomb
      <3>1. PICK b : Write(Tomb(op.id), b) /\ TombShape(b)
        BY <2>4 DEF WriteTomb, TombShape
      <3> QED
        BY <3>1, WriteShape, NamesOf
    <2> QED
      BY <1>4, <2>1, <2>2, <2>3, <2>4
  <1>5. CASE DropChunks \/ DropReplaced \/ ClearTomb
    BY <1>0, <1>5, RemoveShape DEF DropChunks, DropReplaced, ClearTomb, SameFiles
  <1>6. CASE SaveIndex \/ SaveImported \/ SaveHardDelete
    <2>1. \E b : Write(Index, b)
      BY <1>6 DEF SaveIndex, SaveImported, SaveHardDelete
    <2> QED
      BY <2>1, WriteShape, Names DEF Objs
  <1>7. CASE ImportMeta \/ ImportChunks
    <2>1. disk' = disk \/ (\E b : Write(Meta(op.attach), b)) \/ (\E b : Write(Chunk(op.attach), b))
      BY <1>7 DEF ImportMeta, ImportChunks, SameFiles
    <2> QED
      BY <1>0, <2>1, WriteShape, NamesOf, Names DEF Objs
  <1>8. CASE PurgeStep
    <2>1. \/ disk' = disk \/ (\E b : Write(Index, b))
          \/ \E n : Remove(n)
      BY <1>8 DEF PurgeStep, PurgeNext, PurgeBody, PurgeTomb, PurgeMeta, PurgeDone, SameFiles
    <2> QED
      BY <1>0, <2>1, WriteShape, RemoveShape, Names DEF Objs
  <1>9. CASE Load \/ LoadOld
    <2>1. disk' = disk \/ (\E b : Write(Index, b))
      BY <1>9 DEF Load, LoadIndex, LoadOld, SameFiles
    <2> QED
      BY <1>0, <2>1, WriteShape, Names DEF Objs
  <1>10. CASE Reseal
    <2> PICK n \in op.todo : Write(n, Resealed(n))
      BY <1>10 DEF Reseal
    <2>1. n \in Bodies => BodyShape(Resealed(n))
      <3> SUFFICES ASSUME n \in Bodies PROVE BodyShape(Resealed(n))
        OBVIOUS
      <3>1. Resealed(n) = [disk[n] EXCEPT !.key = op.key] /\ BodyShape(disk[n])
        BY Names DEF Resealed, DiskShape
      <3> QED
        BY <3>1 DEF BodyShape
    <2>2. n \in Tombs => TombShape(Resealed(n))
      <3> SUFFICES ASSUME n \in Tombs PROVE TombShape(Resealed(n))
        OBVIOUS
      <3>1. Resealed(n) = [disk[n] EXCEPT !.key = op.key] /\ TombShape(disk[n])
        BY Names DEF Resealed, DiskShape
      <3> QED
        BY <3>1 DEF TombShape
    <2> QED
      BY <2>1, <2>2, WriteShape
  <1>11. CASE ResealFails \/ ShowCode \/ Wiped
    BY <1>0, <1>11 DEF ResealFails, ShowCode, Wiped, SameFiles
  <1>12. CASE ResealIndex \/ EmptyIndex
    <2>1. \E b : Write(Index, b)
      BY <1>12 DEF ResealIndex, EmptyIndex
    <2> QED
      BY <2>1, WriteShape, Names DEF Objs
  <1>13. CASE WriteEnvelope \/ WriteHeader
    <2>1. (\E b : Write(Envelope, b)) \/ (\E b : Write(Header, b))
      BY <1>13 DEF WriteEnvelope, WriteHeader
    <2> QED
      BY <2>1, WriteShape, Names DEF Objs
  <1>14. CASE Wipe \/ LoseIndex
    BY <1>14, RemoveShape DEF Wipe, LoseIndex
  <1>15. CASE GraceEnds
    <2>1. disk' = [n \in Name |-> IF n \in Tombs /\ Present(n) THEN [disk[n] EXCEPT !.old = TRUE]
                                  ELSE disk[n]]
      BY <1>15 DEF GraceEnds
    <2>2. \A n \in Bodies \cup Tombs : n \in Name
      BY Names DEF Kept, Objs
    <2>3. \A n \in Bodies : disk'[n] = disk[n]
      BY <2>1, <2>2, Names
    <2>4. \A n \in Tombs : disk'[n] = disk[n] \/ disk'[n] = [disk[n] EXCEPT !.old = TRUE]
      BY <2>1, <2>2
    <2>5. disk' = [n \in Name |-> disk'[n]]
      BY <2>1
    <2> QED
      BY <2>3, <2>4, <2>5 DEF DiskShape, BodyShape, TombShape
  <1> QED
    BY <1>1, <1>2, <1>3, <1>4, <1>5, <1>6, <1>7, <1>8, <1>9, <1>10, <1>11, <1>12, <1>13, <1>14,
       <1>15 DEF Next, WriteStep, KeyStep, AgainStep

(* op is always a record of the same fields. *)
LEMMA OpSteps == Shaped(op) /\ [Next]_vars => Shaped(op')
  <1> SUFFICES ASSUME Shaped(op), [Next]_vars PROVE Shaped(op')
    OBVIOUS
  <1>0. op' = op \/ op' = Idle => Shaped(op')
    BY IdleShaped
  <1>1. CASE ItemCommand \/ RuleCommand
    <2>1. ASSUME NEW o, BeginPut(o) PROVE Shaped(op')
      BY <2>1, BeginShaped DEF BeginPut, MemKinds
    <2>2. ASSUME NEW o, BeginDelete(o) \/ BeginPutRule(o) \/ BeginDeleteRule(o) PROVE Shaped(op')
      BY <2>2, BeginShaped DEF BeginDelete, BeginPutRule, BeginDeleteRule, MemKinds
    <2>3. ASSUME NEW o, DeleteAgain(o) PROVE Shaped(op')
      BY <1>0, <2>3 DEF DeleteAgain
    <2> QED
      BY <1>1, <2>1, <2>2, <2>3 DEF ItemCommand, RuleCommand
  <1>2. CASE SyncCommand \/ BeginUnlock \/ BeginRecover \/ (\E reset \in BOOLEAN : BeginInit(reset))
    <2>1. ASSUME NEW o, BeginImport(o) PROVE Shaped(op')
      BY <2>1 DEF BeginImport, Idle, Shaped
    <2>2. ASSUME NEW o, BeginHardDelete(o) PROVE Shaped(op')
      BY <2>2 DEF BeginHardDelete, Idle, Shaped
    <2>3. CASE BeginUnlock
      BY <2>3 DEF BeginUnlock, Idle, Shaped
    <2>4. CASE BeginRecover
      BY <2>4 DEF BeginRecover, Idle, Shaped
    <2>5. ASSUME NEW reset \in BOOLEAN, BeginInit(reset) PROVE Shaped(op')
      BY <2>5 DEF BeginInit, Idle, Shaped
    <2> QED
      BY <1>2, <2>1, <2>2, <2>3, <2>4, <2>5 DEF SyncCommand
  <1>3. CASE List \/ Lock \/ SaveIndex \/ ImportChunks \/ SaveHardDelete \/ Unlock
    BY <1>0, <1>3 DEF List, Lock, SaveIndex, ImportChunks, SaveHardDelete, Unlock
  <1>4. CASE ResealFails \/ ShowCode \/ Crash \/ WriteFails \/ LoseIndex \/ GraceEnds
             \/ AgainStep \/ UNCHANGED vars
    BY <1>0, <1>4 DEF ResealFails, ShowCode, Crash, WriteFails, LoseIndex, GraceEnds, AgainStep,
                      LoadAgain, SaveAgain, UnlockAgain, AgainFails, vars
  <1>5. CASE \/ PutChunks \/ PutMeta \/ DropChunks \/ DropReplaced \/ WriteBody \/ WriteTomb
             \/ ClearTomb \/ SaveImported \/ ImportMeta
    <2>1. \E s : op' = [op EXCEPT !.at = s]
      BY <1>5 DEF PutChunks, PutMeta, DropChunks, DropReplaced, WriteBody, WriteTomb, ClearTomb,
                  SaveImported, ImportMeta, Goto
    <2> QED
      BY <2>1, GotoKeeps
  <1>6. CASE PurgeNext
    BY <1>6 DEF PurgeNext, Shaped
  <1>7. CASE PurgeBody \/ PurgeTomb \/ PurgeMeta \/ PurgeDone
    <2>1. (\E s : op' = [op EXCEPT !.at = s]) \/ op' = Purged(op.id)
      BY <1>7 DEF PurgeBody, PurgeTomb, PurgeMeta, PurgeDone, Goto
    <2> QED
      BY <2>1, GotoKeeps, PurgedShaped
  <1>8. CASE Load \/ LoadOld
    <2>1. ASSUME NEW s, NEW e, op' = [op EXCEPT !.at = s, !.entries = e] PROVE Shaped(op')
      BY <2>1 DEF Shaped
    <2>2. ASSUME NEW s, NEW e, NEW t, op' = [op EXCEPT !.at = s, !.entries = e, !.todo = t]
          PROVE  Shaped(op')
      BY <2>2 DEF Shaped
    <2>3. CASE Load
      BY <2>1, <2>3 DEF Load, LoadIndex
    <2>4. CASE LoadOld
      BY <2>2, <2>4 DEF LoadOld
    <2> QED
      BY <1>8, <2>3, <2>4
  <1>9. CASE ResealIndex \/ WriteEnvelope \/ WriteHeader \/ Wiped \/ EmptyIndex
    <2>1. \E s : op' = [op EXCEPT !.at = s]
      BY <1>9 DEF ResealIndex, WriteEnvelope, WriteHeader, Wiped, EmptyIndex, Goto
    <2> QED
      BY <2>1, GotoKeeps
  <1>10. CASE Reseal \/ Wipe
    <2>1. \E t : op' = [op EXCEPT !.todo = t]
      BY <1>10 DEF Reseal, Wipe
    <2> QED
      BY <2>1 DEF Shaped
  <1> QED
    BY <1>1, <1>2, <1>3, <1>4, <1>5, <1>6, <1>7, <1>8, <1>9, <1>10
       DEF Next, WriteStep, PurgeStep, KeyStep

(* Only unlocking gives the memory a key, and only that of the header it read. *)
MemMoves ==
  \/ mem'.key = mem.key
  \/ mem'.key = 0
  \/ op.kind = "unlock" /\ mem'.key = op.key
  \/ mem.next.at # "idle" /\ mem'.key = mem.next.key

(* The vault that is opened again is only its own steps' business. *)
NextMoves ==
  \/ mem'.next.at = "idle"
  \/ mem'.next = mem.next /\ mem'.key = mem.key
  \/ LoadAgain \/ SaveAgain

Moves == MemShape' /\ MemMoves /\ NextMoves

(* A vault is unlocked by the two unlockings alone. *)
LEMMA MemSteps == MemShape /\ [Next]_vars => Moves
  <1> SUFFICES ASSUME MemShape, [Next]_vars PROVE Moves
    OBVIOUS
  <1>0. (mem' = mem \/ mem' = Locked \/ \E x : mem' = [mem EXCEPT !.index = x])
          => Moves
    BY DEF MemShape, MemMoves, NextMoves, Moves, Locked, NotAgain
  <1>1. CASE ItemCommand \/ SyncCommand \/ BeginUnlock \/ Lock \/ BeginRecover
             \/ \E reset \in BOOLEAN : BeginInit(reset)
    BY <1>0, <1>1 DEF ItemCommand, SyncCommand, BeginPut, BeginDelete, DeleteAgain, BeginImport,
                      BeginHardDelete, BeginUnlock, Lock, BeginRecover, BeginInit, SameMemory
  <1>2. CASE RuleCommand
    <2>1. ASSUME NEW o, BeginPutRule(o) PROVE mem' = mem
      BY <2>1 DEF BeginPutRule, SameMemory
    <2>2. ASSUME NEW o, BeginDeleteRule(o) PROVE Moves
      <3>1. mem' = mem \/ mem' = [mem EXCEPT !.index[o] = [rev |-> clock', deleted |-> TRUE]]
        BY <2>2 DEF BeginDeleteRule
      <3> QED
        BY <1>0, <3>1 DEF MemShape, MemMoves, NextMoves, Moves
    <2> QED
      BY <1>0, <1>2, <2>1, <2>2 DEF RuleCommand
  <1>3. CASE List \/ SaveIndex \/ SaveImported \/ SaveHardDelete
    BY <1>0, <1>3 DEF List, SaveIndex, SaveImported, SaveHardDelete
  <1>4. CASE \/ PutChunks \/ PutMeta \/ DropChunks \/ DropReplaced \/ WriteBody \/ WriteTomb
             \/ ClearTomb \/ ImportMeta \/ ImportChunks
    BY <1>0, <1>4 DEF PutChunks, PutMeta, DropChunks, DropReplaced, WriteBody, WriteTomb,
                      ClearTomb, ImportMeta, ImportChunks, SameMemory
  <1>5. CASE Load \/ PurgeStep
    BY <1>0, <1>5 DEF Load, PurgeStep, PurgeNext, PurgeBody, PurgeTomb, PurgeMeta, PurgeDone,
                      SameMemory
  <1>6. CASE Unlock
    BY <1>6 DEF Unlock, Running, MemShape, MemMoves, NextMoves, Moves, Locked, NotAgain
  <1>7. CASE KeyStep
    BY <1>0, <1>7 DEF KeyStep, LoadOld, Reseal, ResealFails, ResealIndex, WriteEnvelope,
                      WriteHeader, ShowCode, Wipe, Wiped, EmptyIndex, SameMemory
  <1>8. CASE Crash \/ LoseIndex \/ GraceEnds \/ UNCHANGED vars
    BY <1>0, <1>8 DEF Crash, LoseIndex, GraceEnds, SameMemory, vars
  <1>9. CASE WriteFails
    <2>1. \/ mem' = mem \/ \E x : mem' = [mem EXCEPT !.index = x]
          \/ mem' = [mem EXCEPT !.index[op.id] = NoEntry]
      BY <1>9 DEF WriteFails
    <2>2. mem' = [mem EXCEPT !.index[op.id] = NoEntry] => Moves
      BY DEF MemShape, MemMoves, NextMoves, Moves
    <2> QED
      BY <1>0, <2>1, <2>2
  <1>10. CASE LoadAgain \/ SaveAgain
    <2>1. \E x : mem' = [mem EXCEPT !.next = x] /\ x = [at |-> x.at, key |-> x.key, entries |-> x.entries]
      BY <1>10 DEF LoadAgain, SaveAgain, MemShape
    <2> QED
      BY <1>10, <2>1 DEF MemShape, MemMoves, NextMoves, Moves
  <1>11. CASE UnlockAgain
    BY <1>11 DEF UnlockAgain, MemShape, MemMoves, NextMoves, Moves, Locked, NotAgain
  <1>12. CASE AgainFails
    BY <1>12 DEF AgainFails, MemShape, MemMoves, NextMoves, Moves, NotAgain
  <1> QED
    BY <1>1, <1>2, <1>3, <1>4, <1>5, <1>6, <1>7, <1>8, <1>9, <1>10, <1>11, <1>12
       DEF Next, WriteStep, AgainStep

(* Keys are numbered, and what was cut off is not forgotten. *)
LEMMA KeysSteps ==
  ASSUME keys \in Nat, [Next]_vars
  PROVE  keys' \in Nat /\ interrupted \subseteq interrupted' /\ synced' = synced
  <1>1. CASE BeginRecover \/ \E reset \in BOOLEAN : BeginInit(reset)
    <2>1. keys' = keys + 1
      BY <1>1 DEF BeginRecover, BeginInit
    <2>2. interrupted' = interrupted /\ synced' = synced
      BY <1>1 DEF BeginRecover, BeginInit
    <2> QED
      BY <2>1, <2>2
  <1>2. CASE ItemCommand \/ RuleCommand \/ SyncCommand \/ List \/ Lock
    BY <1>2 DEF ItemCommand, RuleCommand, SyncCommand, List, Lock, BeginPut, BeginDelete,
                DeleteAgain, BeginPutRule, BeginDeleteRule, BeginImport, BeginHardDelete,
                NothingElse
  <1>3. CASE WriteStep
    BY <1>3 DEF WriteStep, PutChunks, PutMeta, DropChunks, DropReplaced, WriteBody, WriteTomb,
                ClearTomb, SaveIndex, SaveImported, ImportMeta, ImportChunks, SaveHardDelete,
                NothingElse
  <1>4. CASE BeginUnlock \/ Load \/ PurgeStep \/ Unlock
    BY <1>4 DEF BeginUnlock, Load, PurgeStep, PurgeNext, PurgeBody, PurgeTomb, PurgeMeta,
                PurgeDone, Unlock, NothingElse
  <1>5. CASE KeyStep
    BY <1>5 DEF KeyStep, LoadOld, Reseal, ResealFails, ResealIndex, WriteEnvelope, WriteHeader,
                ShowCode, Wipe, Wiped, EmptyIndex, NothingElse
  <1>6. CASE Crash \/ WriteFails \/ LoseIndex \/ GraceEnds \/ UNCHANGED vars
    BY <1>6 DEF Crash, WriteFails, LoseIndex, GraceEnds, Cut, NothingElse, vars
  <1>7. CASE AgainStep
    BY <1>7 DEF AgainStep, LoadAgain, SaveAgain, UnlockAgain, AgainFails, Overtaken
  <1> QED
    BY <1>1, <1>2, <1>3, <1>4, <1>5, <1>6, <1>7 DEF Next

(* A command that goes on, or is done. *)
GoesOn == \/ op' = Idle
          \/ op'.kind = op.kind /\ op'.key = op.key

(* Every step of an ordinary command goes on with it or ends it. *)
LEMMA GoesOnSteps ==
  ASSUME Shaped(op), WriteStep \/ PurgeStep \/ Load \/ Unlock \/ List \/ Lock \/ LoseIndex \/ GraceEnds
                \/ Crash \/ WriteFails \/ AgainStep \/ UNCHANGED vars
  PROVE  GoesOn
  <1>1. (\E s : op' = [op EXCEPT !.at = s]) => GoesOn
    BY GotoKeeps DEF GoesOn
  <1>2. op' = op => GoesOn
    BY DEF GoesOn
  <1>3. CASE WriteStep
    BY <1>1, <1>3 DEF WriteStep, PutChunks, PutMeta, DropChunks, DropReplaced, WriteBody,
         WriteTomb, ClearTomb, SaveIndex, SaveImported, ImportMeta, ImportChunks, SaveHardDelete,
         Goto, GoesOn
  <1>4. CASE PurgeNext
    BY <1>4 DEF PurgeNext, Shaped, GoesOn
  <1>5. CASE PurgeBody \/ PurgeTomb \/ PurgeMeta \/ PurgeDone
    <2>1. (\E s : op' = [op EXCEPT !.at = s]) \/ op' = Purged(op.id)
      BY <1>5 DEF PurgeBody, PurgeTomb, PurgeMeta, PurgeDone, Goto
    <2> QED
      BY <1>1, <2>1, PurgedShaped DEF GoesOn
  <1>6. CASE Load
    <2>1. PICK s, e : op' = [op EXCEPT !.at = s, !.entries = e]
      BY <1>6 DEF Load, LoadIndex
    <2> QED
      BY <2>1 DEF Shaped, GoesOn
  <1>7. CASE \/ Unlock \/ List \/ Lock \/ LoseIndex \/ GraceEnds \/ Crash \/ WriteFails
             \/ AgainStep \/ UNCHANGED vars
    BY <1>2, <1>7 DEF Unlock, List, Lock, LoseIndex, GraceEnds, Crash, WriteFails, GoesOn, vars,
                      AgainStep, LoadAgain, SaveAgain, UnlockAgain, AgainFails
  <1> QED
    BY <1>3, <1>4, <1>5, <1>6, <1>7 DEF PurgeStep

(* The steps only a recovery or a creation takes. *)
LEMMA KeySteps ==
  ASSUME KeyStep
  PROVE  op.kind \in {"recover", "init"}
  BY DEF KeyStep, LoadOld, Reseal, ResealFails, ResealIndex, WriteEnvelope, WriteHeader, ShowCode,
         Wipe, Wiped, EmptyIndex, Running

(* What a vault opened again has loaded. *)
LEMMA LoadedAgain ==
  ASSUME LoadAgain
  PROVE  \E x : /\ mem' = [mem EXCEPT !.next = x]
               /\ x.at \in {"save", "finish"} /\ x.key = disk[Header].key
               /\ x.entries = IF Opens(disk[Header].key, Index) THEN disk[Index].entries
                              ELSE Rebuilt(disk[Header].key, clock')
  <1> DEFINE k == disk[Header].key
             old == [at |-> "finish", key |-> k, entries |-> disk[Index].entries]
             new == [at |-> "save", key |-> k, entries |-> Rebuilt(k, clock')]
  <1>1. CASE Opens(k, Index)
    <2>1. mem' = [mem EXCEPT !.next = old]
      BY <1>1 DEF LoadAgain
    <2> WITNESS old
    <2> QED
      BY <1>1, <2>1
  <1>2. CASE ~Opens(k, Index)
    <2>1. mem' = [mem EXCEPT !.next = new]
      BY <1>2 DEF LoadAgain
    <2> WITNESS new
    <2> QED
      BY <1>2, <2>1
  <1> QED
    BY <1>1, <1>2

(* Whoever begins anything but a round of the poller waits for an unlock that is under way. *)
LEMMA BesideSteps ==
  ASSUME Shaped(op), MemShape, Beside, NextMoves, keys \in Nat, [Next]_vars
  PROVE  Beside'
  <1> SUFFICES ASSUME mem'.next.at # "idle"
               PROVE  /\ mem'.next.at \in {"save", "finish"} /\ mem'.key # 0 /\ synced'
                      /\ op'.kind \in {"idle", "import", "hardDelete"}
    BY DEF Beside
  <1>0. synced' = synced
    BY KeysSteps
  <1>1. CASE LoadAgain
    <2>1. PICK x : mem' = [mem EXCEPT !.next = x] /\ x.at \in {"save", "finish"}
      BY <1>1, LoadedAgain
    <2>2. mem.key # 0 /\ synced /\ op' = op /\ op.kind \in {"idle", "import", "hardDelete"}
      BY <1>1 DEF LoadAgain
    <2> QED
      BY <1>0, <2>1, <2>2 DEF MemShape
  <1>2. CASE SaveAgain
    <2>1. mem' = [mem EXCEPT !.next = [@ EXCEPT !.at = "finish"]] /\ op' = op /\ mem.next.at = "save"
      BY <1>2 DEF SaveAgain
    <2> QED
      BY <1>0, <2>1 DEF MemShape, Beside
  <1>3. CASE mem'.next = mem.next /\ mem'.key = mem.key
    <2>1. /\ mem.next.at \in {"save", "finish"} /\ mem.key # 0 /\ synced
          /\ op.kind \in {"idle", "import", "hardDelete"}
      BY <1>3 DEF Beside
    <2>2. mem.next # NotAgain
      BY <2>1 DEF NotAgain
    <2>3. ~ItemCommand /\ ~RuleCommand /\ ~BeginRecover /\ ~(\E reset \in BOOLEAN : BeginInit(reset))
          /\ ~BeginUnlock
      BY <2>1, <2>2 DEF ItemCommand, RuleCommand, BeginPut, BeginDelete, DeleteAgain, BeginPutRule,
           BeginDeleteRule, BeginRecover, BeginInit, BeginUnlock, Unlocked, Free
    <2>4. ~KeyStep
      BY <2>1, KeySteps
    <2>5. CASE SyncCommand
      <3>1. PICK o : BeginImport(o) \/ BeginHardDelete(o)
        BY <2>5 DEF SyncCommand
      <3>2. op'.kind \in {"import", "hardDelete"}
        <4>1. CASE BeginImport(o)
          <5> DEFINE old == disk[Body(o)].attach
          <5>1. PICK d, a :
                  op' = [Idle EXCEPT !.kind = "import", !.id = o, !.rev = clock', !.deleted = d,
                           !.attach = a, !.drop = IF a = old THEN NoAttach ELSE old,
                           !.at = IF a = old \/ old = NoAttach THEN "body" ELSE "dropChunk",
                           !.todo = IF a = old THEN {} ELSE {Meta(a), Chunk(a)}]
            BY <4>1 DEF BeginImport
          <5> QED
            BY <5>1 DEF Idle
        <4>2. CASE BeginHardDelete(o)
          BY <4>2 DEF BeginHardDelete, Idle
        <4> QED
          BY <3>1, <4>1, <4>2
      <3> QED
        BY <1>0, <1>3, <2>1, <3>2
    <2>6. CASE GoesOn
      BY <1>0, <1>3, <2>1, <2>6, IdleShaped DEF GoesOn
    <2> QED
      BY <2>3, <2>4, <2>5, <2>6, GoesOnSteps DEF Next
  <1> QED
    BY <1>1, <1>2, <1>3 DEF NextMoves

(* Shape is inductive. *)
LEMMA ShapePreserved == Shape /\ [Next]_vars => Shape'
  BY DiskSteps, OpSteps, MemSteps, KeysSteps, BesideSteps DEF Shape, Moves


-----------------------------------------------------------------------------
(***************************************************************************)
(* Commands that keep the keys as they are.                                *)
(***************************************************************************)

(* Files keep agreeing, under the same key. *)
Calm == Agree' /\ disk'[Header].key = disk[Header].key

(* Files that keep their keys keep agreeing. *)
LEMMA SameKeys ==
  ASSUME Agree,
         \A n \in Kept : disk'[n].key = disk[n].key,
         \A n \in Metas : disk'[n].inner = disk[n].inner
  PROVE  Calm
  BY Names DEF Calm, Agree, Under, Present, Objs

(* So do files that are left alone. *)
LEMMA SameDisk == Agree /\ disk' = disk => Calm
  BY DEF Calm, Agree, Under, Present

(* Any file but the header and the envelope may be written under the header's key, or removed. *)
LEMMA KeptWrite ==
  ASSUME DiskShape, Agree, NEW n, NEW b, Write(n, b), n \notin {Header, Envelope},
         n \in Kept => b.key \in {0, disk[Header].key},
         n \in Metas => b.inner = b.key
  PROVE  Calm
  <1>1. \A m \in Kept : m # n => disk'[m] = disk[m]
    BY DEF Write, DiskShape, Kept
  <1>2. n \in Kept => disk'[n] = b
    BY DEF Write, DiskShape, Kept
  <1>3. disk'[Header] = disk[Header] /\ disk'[Envelope] = disk[Envelope]
    BY <1>1, Names
  <1>4. \A m \in Kept : Under(m, disk[Header].key) => Under(m, disk[Header].key)'
    BY <1>1, <1>2, <1>3 DEF Under, Present
  <1>5. CASE Present(Header)
    BY <1>3, <1>4, <1>5 DEF Calm, Agree, Present
  <1>6. CASE ~Present(Header)
    <2>1. disk[Header].key = 0
      BY <1>6 DEF Present
    <2>2. \A m \in Kept : ~Present(m)'
      BY <1>1, <1>2, <1>6, <2>1 DEF Agree, Present
    <2>3. \A m \in Kept : Under(m, 0)'
      BY <1>4, <1>6, <2>1, <1>3 DEF Agree
    <2> QED
      BY <1>3, <2>1, <2>2, <2>3 DEF Calm, Agree, Present
  <1> QED
    BY <1>5, <1>6

(* The removal of such a file is the writing of a missing one. *)
LEMMA KeptRemove ==
  ASSUME DiskShape, Agree, NEW n, Remove(n), n \notin {Header, Envelope}
  PROVE  Calm
  <1>1. Write(n, Missing(n))
    BY DEF Write, Remove
  <1>2. n \in Kept => Missing(n).key = 0 /\ (n \in Metas => Missing(n).inner = 0)
    BY MissingFiles
  <1>3. n \in Metas => n \in Kept
    BY Names DEF Objs
  <1> QED
    BY <1>1, <1>2, <1>3, KeptWrite

(* The vault that is opened again has the key of the one that is open. *)
LEMMA NextKey ==
  ASSUME Ordinary, NextMoves, MemShape
  PROVE  mem'.next.at # "idle" => mem'.next.key = mem'.key
  <1>1. CASE LoadAgain
    <2>1. PICK x : mem' = [mem EXCEPT !.next = x] /\ x.key = disk[Header].key
      BY <1>1, LoadedAgain
    <2>2. mem.key # 0
      BY <1>1 DEF LoadAgain
    <2> QED
      BY <2>1, <2>2 DEF Ordinary, MemShape
  <1>2. CASE SaveAgain
    <2>1. mem' = [mem EXCEPT !.next = [@ EXCEPT !.at = "finish"]] /\ mem.next.at = "save"
      BY <1>2 DEF SaveAgain
    <2> QED
      BY <2>1 DEF Ordinary, MemShape
  <1> QED
    BY <1>1, <1>2 DEF NextMoves, Ordinary

(* A command that goes on, or ends, with the files in agreement. *)
LEMMA CalmKeeps ==
  ASSUME Ordinary, Calm, MemMoves,
         \/ op'.kind = "idle"
         \/ op'.kind = op.kind /\ op'.key = op.key /\ mem'.key = mem.key,
         op.kind # "unlock" => mem'.key \in {mem.key, 0},
         NextMoves, MemShape
  PROVE  Ordinary'
  <1>1. mem'.key # 0 => mem'.key = disk'[Header].key
    BY DEF Ordinary, Calm, MemMoves
  <1>2. op'.kind \in MemKinds => mem'.key # 0
    BY DEF Ordinary, MemKinds
  <1>3. op'.kind = "unlock" => Present(Header)' /\ op'.key = disk'[Header].key
    BY DEF Ordinary, Calm, Present
  <1>4. mem'.next.at # "idle" => mem'.next.key = mem'.key
    BY NextKey
  <1> QED
    BY <1>1, <1>2, <1>3, <1>4 DEF Ordinary, Calm

(* A command that begins on an unlocked vault, or an unlocking. *)
LEMMA BeginKeeps ==
  ASSUME Ordinary, disk' = disk, mem'.key = mem.key, mem'.next = mem.next,
         \/ op'.kind \in MemKinds /\ mem.key # 0
         \/ op'.kind = "unlock" /\ Present(Header) /\ op'.key = disk[Header].key
  PROVE  Ordinary'
  <1>1. Calm
    BY SameDisk DEF Ordinary
  <1>2. op'.kind = "unlock" => Present(Header)' /\ op'.key = disk'[Header].key
    BY DEF Present, MemKinds
  <1>3. op'.kind \in MemKinds => mem'.key # 0
    BY DEF MemKinds
  <1> QED
    BY <1>1, <1>2, <1>3 DEF Ordinary, Calm

(* An idle daemon runs no command of the vault. *)
LEMMA IdleKind == op = Idle => op.kind = "idle" /\ op.kind \notin MemKinds
  BY DEF Idle, MemKinds

(* The step of a command under way: what it does to one file. *)
Touches ==
  \/ disk' = disk
  \/ \E n \in Kept \ (Metas \cup {Header, Envelope}) : \E b :
       Write(n, b) /\ b.key = disk[Header].key
  \/ \E n \in Metas : \E b : Write(n, b) /\ b.key = disk[Header].key /\ b.inner = b.key
  \/ \E n, b : n \notin Kept /\ Write(n, b)
  \/ \E n : n \notin {Header, Envelope} /\ Remove(n)

(* What an ordinary step does to a file leaves the files in agreement. *)
LEMMA TouchesCalm == DiskShape /\ Agree /\ Touches => Calm
  <1> SUFFICES ASSUME DiskShape, Agree, Touches PROVE Calm
    OBVIOUS
  <1>0. \A n \in Metas : n \in Kept /\ n \notin {Header, Envelope}
    BY Names DEF Objs
  <1>1. CASE disk' = disk
    BY <1>1, SameDisk
  <1>2. CASE \E n \in Kept \ (Metas \cup {Header, Envelope}) : \E b :
               Write(n, b) /\ b.key = disk[Header].key
    BY <1>2, KeptWrite
  <1>3. CASE \E n \in Metas : \E b : Write(n, b) /\ b.key = disk[Header].key /\ b.inner = b.key
    BY <1>0, <1>3, KeptWrite
  <1>4. CASE \E n, b : n \notin Kept /\ Write(n, b)
    BY <1>0, <1>4, KeptWrite, Names
  <1>5. CASE \E n : n \notin {Header, Envelope} /\ Remove(n)
    BY <1>5, KeptRemove
  <1> QED
    BY <1>1, <1>2, <1>3, <1>4, <1>5 DEF Touches


(* The commands that only begin. *)
Beginnings == ItemCommand \/ RuleCommand \/ SyncCommand \/ BeginUnlock

(* A command that begins has the key of the header to work with. *)
LEMMA OrdinaryBegins ==
  ASSUME Shape, Ordinary, Beginnings
  PROVE  op'.kind \notin {"recover", "init"} /\ Ordinary'
  <1>1. ASSUME NEW o, BeginPut(o) \/ BeginDelete(o) \/ BeginPutRule(o)
        PROVE  op'.kind \notin {"recover", "init"} /\ Ordinary'
    <2>1. op'.kind \in MemKinds
      BY <1>1, BeginShaped DEF BeginPut, BeginDelete, BeginPutRule, MemKinds
    <2>2. disk' = disk /\ mem' = mem /\ mem.key # 0
      BY <1>1 DEF BeginPut, BeginDelete, BeginPutRule, SameFiles, SameMemory, Unlocked, Free
    <2> QED
      BY <2>1, <2>2, BeginKeeps DEF MemKinds
  <1>2. ASSUME NEW o, BeginDeleteRule(o)
        PROVE  op'.kind \notin {"recover", "init"} /\ Ordinary'
    <2>1. op'.kind \in MemKinds
      BY <1>2, BeginShaped DEF BeginDeleteRule, MemKinds
    <2>2. disk' = disk /\ mem.key # 0
      BY <1>2 DEF BeginDeleteRule, SameFiles, Unlocked, Free
    <2>3. mem' = mem \/ mem' = [mem EXCEPT !.index[o] = [rev |-> clock', deleted |-> TRUE]]
      BY <1>2 DEF BeginDeleteRule
    <2>4. mem'.key = mem.key /\ mem'.next = mem.next
      BY <2>3 DEF Shape, MemShape
    <2> QED
      BY <2>1, <2>2, <2>4, BeginKeeps DEF MemKinds
  <1>3. ASSUME NEW o, BeginImport(o) PROVE op'.kind \notin {"recover", "init"} /\ Ordinary'
    <2>1. op'.kind = "import"
      BY <1>3 DEF BeginImport, Idle
    <2>2. disk' = disk /\ mem' = mem /\ mem.key # 0
      BY <1>3 DEF BeginImport, SameFiles, SameMemory, Unlocked, Free
    <2> QED
      BY <2>1, <2>2, BeginKeeps DEF MemKinds
  <1>4. ASSUME NEW o, BeginHardDelete(o) PROVE op'.kind \notin {"recover", "init"} /\ Ordinary'
    <2>1. op'.kind = "hardDelete"
      BY <1>4 DEF BeginHardDelete, Idle
    <2>2. disk' = disk /\ mem' = mem /\ mem.key # 0
      BY <1>4 DEF BeginHardDelete, SameFiles, SameMemory, Unlocked, Free
    <2> QED
      BY <2>1, <2>2, BeginKeeps DEF MemKinds
  <1>5. ASSUME NEW o, DeleteAgain(o) PROVE op'.kind \notin {"recover", "init"} /\ Ordinary'
    <2>1. disk' = disk /\ mem' = mem /\ op' = op /\ op.kind = "idle"
      BY <1>5, IdleKind DEF DeleteAgain, SameFiles, SameMemory, Unlocked, Free
    <2>2. Calm
      BY <2>1, SameDisk DEF Ordinary
    <2> QED
      BY <2>1, <2>2, CalmKeeps DEF MemMoves, NextMoves, Shape
  <1>6. CASE BeginUnlock
    <2>1. op'.kind = "unlock" /\ op'.key = disk[Header].key
      BY <1>6 DEF BeginUnlock, Idle
    <2>2. disk' = disk /\ mem' = mem /\ Present(Header)
      BY <1>6 DEF BeginUnlock, SameFiles, SameMemory
    <2> QED
      BY <2>1, <2>2, BeginKeeps
  <1> QED
    BY <1>1, <1>2, <1>3, <1>4, <1>5, <1>6
       DEF Beginnings, ItemCommand, RuleCommand, SyncCommand

(* What the steps of ordinary commands do to the files. *)
LEMMA WritesTouch ==
  ASSUME Ordinary, op.kind \notin {"recover", "init"}, WriteStep
  PROVE  Touches
  <1>0. op.kind \in MemKinds => mem.key = disk[Header].key
    BY DEF Ordinary
  <1>1. CASE PutChunks
    BY <1>1, NamesOf DEF PutChunks, Touches
  <1>2. CASE PutMeta \/ ImportMeta
    <2>1. disk' = disk \/ \E a, b : b = [key |-> mem.key, inner |-> mem.key] /\ Write(Meta(a), b)
      BY <1>2 DEF PutMeta, ImportMeta, SameFiles
    <2>2. op.kind \in MemKinds
      BY <1>2 DEF PutMeta, ImportMeta, Running, MemKinds
    <2>3. ASSUME NEW a, NEW b, b = [key |-> mem.key, inner |-> mem.key], Write(Meta(a), b)
          PROVE  Touches
      <3>1. CASE Meta(a) \in Kept
        <4>1. Meta(a) \in Metas
          BY <3>1, NamesOf, Names DEF Objs
        <4>2. b.key = disk[Header].key /\ b.inner = b.key
          BY <1>0, <2>2, <2>3
        <4> QED
          BY <2>3, <4>1, <4>2 DEF Touches
      <3>2. CASE Meta(a) \notin Kept
        BY <2>3, <3>2 DEF Touches
      <3> QED
        BY <3>1, <3>2
    <2> QED
      BY <2>1, <2>3 DEF Touches
  <1>3. CASE DropChunks \/ DropReplaced \/ ClearTomb
    <2>1. disk' = disk \/ \E x : Remove(Chunk(x)) \/ Remove(Meta(x)) \/ Remove(Tomb(x))
      BY <1>3 DEF DropChunks, DropReplaced, ClearTomb, SameFiles
    <2>2. \A x : Chunk(x) \notin {Header, Envelope}
      BY NamesOf, Names
    <2> QED
      BY <2>1, <2>2, NamesOf DEF Touches
  <1>4. CASE WriteBody \/ WriteTomb
    <2>1. op.kind \in MemKinds
      BY <1>4 DEF WriteBody, WriteTomb, MemKinds
    <2>2. \E x, b : b.key = mem.key /\ (Write(Body(x), b) \/ Write(Tomb(x), b))
      BY <1>4 DEF WriteBody, WriteTomb
    <2>3. PICK n, b : b.key = mem.key /\ Write(n, b) /\ n \notin Metas \cup {Header, Envelope}
      BY <2>2, NamesOf
    <2>4. n \in Kept => n \in Kept \ (Metas \cup {Header, Envelope})
      BY <2>3
    <2> QED
      BY <1>0, <2>1, <2>3, <2>4 DEF Touches
  <1>5. CASE SaveIndex \/ SaveImported \/ SaveHardDelete
    <2>1. op.kind \in MemKinds
      BY <1>5 DEF SaveIndex, SaveImported, SaveHardDelete, Running, MemKinds
    <2>2. \E b : b.key = mem.key /\ Write(Index, b)
      BY <1>5 DEF SaveIndex, SaveImported, SaveHardDelete
    <2>3. Index \in Kept \ (Metas \cup {Header, Envelope})
      BY Names DEF Objs
    <2> QED
      BY <1>0, <2>1, <2>2, <2>3 DEF Touches
  <1>6. CASE ImportChunks
    BY <1>6, NamesOf DEF ImportChunks, Touches, SameFiles
  <1> QED
    BY <1>1, <1>2, <1>3, <1>4, <1>5, <1>6 DEF WriteStep

(* ... what purges, unlocking, listing and failures do, *)
LEMMA OthersTouch ==
  ASSUME Ordinary, PurgeStep \/ Load \/ Unlock \/ List \/ Lock \/ LoseIndex
                   \/ Crash \/ WriteFails \/ AgainStep \/ UNCHANGED vars,
         Beside
  PROVE  Touches
  <1>0. Index \in Kept \ (Metas \cup {Header, Envelope})
    BY Names DEF Objs
  <1>1. CASE PurgeNext \/ Unlock \/ Lock \/ Crash \/ WriteFails \/ UNCHANGED vars
    BY <1>1 DEF PurgeNext, Unlock, Lock, Crash, WriteFails, vars, SameFiles, Touches
  <1>2. CASE PurgeBody \/ PurgeTomb \/ PurgeMeta
    <2>1. \E x : Remove(Body(x)) \/ Remove(Tomb(x)) \/ Remove(Meta(x))
      BY <1>2 DEF PurgeBody, PurgeTomb, PurgeMeta
    <2> QED
      BY <2>1, NamesOf DEF Touches
  <1>3. CASE PurgeDone \/ Load
    <2>1. op.key = disk[Header].key
      BY <1>3 DEF PurgeDone, Load, Running, Ordinary
    <2>2. disk' = disk \/ \E b : b.key = op.key /\ Write(Index, b)
      BY <1>3 DEF PurgeDone, Load, LoadIndex, SameFiles
    <2> QED
      BY <1>0, <2>1, <2>2 DEF Touches
  <1>4. CASE List
    <2>1. mem.key = disk[Header].key
      BY <1>4 DEF List, Unlocked, Free, Ordinary
    <2>2. \E b : b.key = mem.key /\ Write(Index, b)
      BY <1>4 DEF List
    <2> QED
      BY <1>0, <2>1, <2>2 DEF Touches
  <1>5. CASE LoseIndex
    BY <1>0, <1>5 DEF LoseIndex, Touches
  <1>6. CASE LoadAgain \/ UnlockAgain \/ AgainFails
    BY <1>6 DEF LoadAgain, UnlockAgain, AgainFails, SameFiles, Touches
  <1>7. CASE SaveAgain
    <2>1. mem.next.key = disk[Header].key
      BY <1>7 DEF SaveAgain, Beside, Ordinary
    <2>2. \E b : b.key = mem.next.key /\ Write(Index, b)
      BY <1>7 DEF SaveAgain
    <2> QED
      BY <1>0, <2>1, <2>2 DEF Touches
  <1> QED
    BY <1>1, <1>2, <1>3, <1>4, <1>5, <1>6, <1>7 DEF PurgeStep, AgainStep

(* ... and thirty days passing: the marks on the tombstones are no keys. *)
LEMMA GraceCalm ==
  ASSUME Shape, Ordinary, GraceEnds
  PROVE  Calm
  <1>1. disk' = [n \in Name |-> IF n \in Tombs /\ Present(n) THEN [disk[n] EXCEPT !.old = TRUE]
                                ELSE disk[n]]
    BY DEF GraceEnds
  <1>2. \A n \in Tombs : [disk[n] EXCEPT !.old = TRUE].key = disk[n].key
    BY DEF Shape, DiskShape, TombShape
  <1>3. \A n \in Kept : disk'[n].key = disk[n].key
    BY <1>1, <1>2 DEF Kept
  <1>4. \A n \in Metas : disk'[n] = disk[n]
    BY <1>1, Names DEF Kept, Objs
  <1> QED
    BY <1>3, <1>4, SameKeys DEF Ordinary


(* A command that goes on leaves the memory its key. *)
LEMMA MemStays ==
  ASSUME Shape, WriteStep \/ PurgeStep \/ Load \/ Unlock \/ List \/ Lock \/ LoseIndex \/ GraceEnds
                \/ Crash \/ WriteFails \/ AgainStep \/ UNCHANGED vars
  PROVE  op'.kind = "idle" \/ mem'.key = mem.key
  <1>0. (mem' = mem \/ (\E x : mem' = [mem EXCEPT !.index = x])
           \/ \E x : mem' = [mem EXCEPT !.next = x]) => mem'.key = mem.key
    BY DEF Shape, MemShape
  <1>1. CASE WriteStep
    BY <1>0, <1>1 DEF WriteStep, PutChunks, PutMeta, DropChunks, DropReplaced, WriteBody,
         WriteTomb, ClearTomb, SaveIndex, SaveImported, ImportMeta, ImportChunks, SaveHardDelete,
         SameMemory
  <1>2. CASE PurgeStep \/ Load \/ UNCHANGED vars
    BY <1>2 DEF PurgeStep, PurgeNext, PurgeBody, PurgeTomb, PurgeMeta, PurgeDone, Load, vars,
         SameMemory
  <1>3. CASE Unlock \/ List \/ Lock \/ LoseIndex \/ GraceEnds \/ Crash \/ WriteFails \/ UnlockAgain
    BY <1>3, IdleShaped DEF UnlockAgain, Unlock, List, Lock, LoseIndex, GraceEnds, Crash, WriteFails, Unlocked, Free
  <1>4. CASE LoadAgain \/ SaveAgain \/ AgainFails
    BY <1>0, <1>4 DEF LoadAgain, SaveAgain, AgainFails
  <1> QED
    BY <1>1, <1>2, <1>3, <1>4 DEF AgainStep

(* The steps of ordinary commands, together. *)
LEMMA OrdinaryGoesOn ==
  ASSUME Shape, Ordinary, op.kind \notin {"recover", "init"}, MemMoves, NextMoves,
         WriteStep \/ PurgeStep \/ Load \/ Unlock \/ List \/ Lock \/ LoseIndex \/ GraceEnds
         \/ Crash \/ WriteFails \/ AgainStep \/ UNCHANGED vars
  PROVE  op'.kind \notin {"recover", "init"} /\ Ordinary'
  <1>1. Calm
    <2>1. CASE GraceEnds
      BY <2>1, GraceCalm
    <2>2. CASE ~GraceEnds
      BY <2>2, WritesTouch, OthersTouch, TouchesCalm DEF Shape, Ordinary
    <2> QED
      BY <2>1, <2>2
  <1>2. GoesOn
    BY GoesOnSteps DEF Shape
  <1>3. op'.kind = "idle" \/ (op'.kind = op.kind /\ op'.key = op.key /\ mem'.key = mem.key)
    BY <1>2, MemStays, IdleShaped DEF GoesOn
  <1>4. op.kind # "unlock" => mem'.key \in {mem.key, 0}
    BY DEF MemMoves, Ordinary
  <1> QED
    BY <1>1, <1>3, <1>4, CalmKeeps DEF Shape

(* ... and the only others it can take. *)
LEMMA RekeyingSteps ==
  ASSUME op.kind \in {"recover", "init"}, [Next]_vars, op.at # "dropChunk", Beside
  PROVE  KeyStep \/ Crash \/ WriteFails \/ UNCHANGED vars
  <1>1. op # Idle
    BY DEF Idle
  <1>2. ~Beginnings /\ ~List /\ ~Lock /\ ~LoseIndex /\ ~GraceEnds
    BY <1>1 DEF Beginnings, ItemCommand, RuleCommand, SyncCommand, BeginPut, BeginDelete,
         DeleteAgain, BeginPutRule, BeginDeleteRule, BeginImport, BeginHardDelete, BeginUnlock,
         List, Lock, LoseIndex, GraceEnds, Unlocked, Free
  <1>3. ~BeginRecover /\ ~(\E reset \in BOOLEAN : BeginInit(reset))
    BY <1>1 DEF BeginRecover, BeginInit
  <1>4. ~WriteStep
    BY DEF WriteStep, PutChunks, PutMeta, DropChunks, DropReplaced, WriteBody, WriteTomb,
         ClearTomb, SaveIndex, SaveImported, ImportMeta, ImportChunks, SaveHardDelete, Running
  <1>5. ~PurgeStep /\ ~Load /\ ~Unlock
    BY DEF PurgeStep, PurgeNext, PurgeBody, PurgeTomb, PurgeMeta, PurgeDone, Load, Unlock, Running
  <1>6. ~AgainStep
    BY DEF AgainStep, LoadAgain, SaveAgain, UnlockAgain, AgainFails, Beside
  <1> QED
    BY <1>2, <1>3, <1>4, <1>5, <1>6 DEF Next, Beginnings

(* What is cut off is remembered. *)
LEMMA CutsRemembered ==
  ASSUME op.kind \in {"recover", "init"}, Crash \/ WriteFails \/ ResealFails
  PROVE  <<op.kind, op.at>> \in interrupted'
  <1>1. op # Idle
    BY DEF Idle
  <1> QED
    BY <1>1 DEF Crash, WriteFails, ResealFails, Cut

(* ... and where it matters it is a tear. *)
LEMMA CutsTear ==
  ASSUME <<op.kind, op.at>> \in interrupted',
         \/ op.kind = "recover" /\ op.at \in {"reseal", "envelope", "header"}
         \/ op.kind = "init" /\ op.at \in At
  PROVE  KeysTorn'
  BY DEF KeysTorn, CutAt

(* No tear is ever forgotten. *)
LEMMA TearsStay == interrupted \subseteq interrupted' /\ KeysTorn => KeysTorn'
  BY DEF KeysTorn, CutAt

-----------------------------------------------------------------------------
(* A recovery begins with its files in agreement and the old key at hand. *)
LEMMA RecoverBegins ==
  ASSUME Shape, Ordinary, BeginRecover
  PROVE  op'.kind = "recover" /\ Recovering'
  <1>1. /\ op'.kind = "recover" /\ op'.at = "load" /\ op'.oldKey = disk[Envelope].key
        /\ op'.key = keys + 1
    BY DEF BeginRecover, Idle
  <1>2. disk' = disk /\ mem'.key = 0 /\ Present(Header)
    BY DEF BeginRecover, SameFiles, Locked
  <1>3. op'.key # 0
    BY <1>1 DEF Shape
  <1>4. disk[Envelope].key = disk[Header].key
    BY <1>2, Names DEF Ordinary, Agree, Under
  <1>5. Agree'
    BY <1>2, SameDisk DEF Ordinary, Calm
  <1>6. Present(Header)'
    BY <1>2 DEF Present
  <1> QED
    BY <1>1, <1>2, <1>3, <1>4, <1>5, <1>6 DEF Recovering

(* A creation begins with a list of all the files there are, or with none at all. *)
LEMMA InitBegins ==
  ASSUME Shape, Ordinary, NEW reset \in BOOLEAN, BeginInit(reset)
  PROVE  op'.kind = "init" /\ Creating'
  <1>1. /\ op'.kind = "init" /\ op'.key = keys + 1
        /\ op'.at = IF Present(Header) THEN "wipe" ELSE "envelope"
        /\ op'.todo = IF Present(Header) THEN {n \in Name : Present(n)} ELSE {}
    BY DEF BeginInit, Idle
  <1>2. disk' = disk
    BY DEF BeginInit, SameFiles
  <1>3. op'.key # 0
    BY <1>1 DEF Shape
  <1>4. mem'.key = 0
    BY DEF BeginInit, Locked, Ordinary, Present
  <1>5. CASE Present(Header)
    <2>1. \A n \in Kept \ op'.todo : ~Present(n)
      BY <1>1, <1>5 DEF Kept
    <2>2. \A n \in Kept : n \in Metas => disk[n].inner = disk[n].key
      BY <1>5 DEF Ordinary, Agree, Under
    <2>3. \A n \in Kept \ op'.todo : ~Present(n)' /\ Under(n, 0)'
      BY <1>2, <2>1, <2>2 DEF Under, Present
    <2> QED
      BY <1>1, <1>3, <1>4, <1>5, <2>3 DEF Creating
  <1>6. CASE ~Present(Header)
    <2>1. \A n \in Objs : ~Present(n)' /\ Under(n, 0)'
      BY <1>2, <1>6, Names DEF Ordinary, Agree, Under, Present
    <2> QED
      BY <1>1, <1>3, <1>4, <1>6, <2>1 DEF Creating
  <1> QED
    BY <1>5, <1>6


(* A file that is written is as written; the others stay. *)
LEMMA WriteEffect ==
  ASSUME DiskShape, NEW n, NEW b, Write(n, b)
  PROVE  /\ n \in Kept => disk'[n] = b
         /\ \A m \in Kept : m # n => disk'[m] = disk[m]
  BY DEF DiskShape, Write, Kept

(* A file left alone stays under its key. *)
LEMMA UnderStays ==
  ASSUME NEW n, NEW k, Under(n, k), disk'[n] = disk[n]
  PROVE  Under(n, k)'
  BY DEF Under, Present

(* Every file under one key. *)
LEMMA AllUnder ==
  ASSUME NEW k, k # 0, \A n \in Objs \cup {Index} : Under(n, k),
         disk[Header].key = k, disk[Envelope].key = k
  PROVE  Agree
  BY Names DEF Agree, Under, Present, Objs

(* Files left alone stay in agreement. *)
LEMMA AgreeStays == Agree /\ disk' = disk => Agree'
  BY DEF Agree, Under, Present

(* The directory is listed whole: what is not on the list is not there. *)
LEMMA Loads ==
  ASSUME Shape, Recovering, LoadOld
  PROVE  op'.kind = op.kind /\ Recovering'
  <1>1. PICK e : op' = [op EXCEPT !.at = "reseal", !.entries = e,
                                  !.todo = {n \in Bodies \cup Tombs \cup Metas : Present(n)}]
    BY DEF LoadOld
  <1>2. /\ op'.kind = op.kind /\ op'.key = op.key /\ op'.at = "reseal"
        /\ op'.todo = {n \in Objs : Present(n)}
    BY <1>1 DEF Shape, Shaped, Objs
  <1>3. mem' = mem
    BY DEF LoadOld, SameMemory
  <1>4. disk' = disk \/ \E b : Write(Index, b)
    BY DEF LoadOld, SameFiles
  <1>5. \A n \in Objs : disk'[n] = disk[n]
    BY <1>4, WriteEffect, Names DEF Shape
  <1>6. \A n \in Metas : disk[n].inner = disk[n].key
    BY Names DEF LoadOld, Running, Recovering, Agree, Under, Objs
  <1>7. \A n \in Objs \ op'.todo : Under(n, op.key)
    BY <1>2, <1>6 DEF Under
  <1>8. \A n \in Objs \ op'.todo : Under(n, op.key)'
    BY <1>2, <1>5, <1>7, UnderStays DEF Under, Present
  <1> QED
    BY <1>2, <1>3, <1>8 DEF Recovering

(* A file that leaves the list is under the new key, outside and inside. *)
LEMMA Reseals ==
  ASSUME Shape, Recovering, Reseal
  PROVE  op'.kind = op.kind /\ Recovering'
  <1> PICK n \in op.todo : Write(n, Resealed(n)) /\ op' = [op EXCEPT !.todo = @ \ {n}]
    BY DEF Reseal
  <1>1. op' = [op EXCEPT !.todo = op.todo \ {n}]
    OBVIOUS
  <1>2. /\ op'.kind = op.kind /\ op'.key = op.key /\ op'.at = op.at
        /\ op'.todo = op.todo \ {n}
    BY <1>1 DEF Shape, Shaped
  <1>3. op.at = "reseal" /\ mem' = mem
    BY DEF Reseal, Running, SameMemory
  <1>4. n \in Objs => Under(n, op.key)'
    <2>1. CASE n \in Metas
      <3>1. disk'[n] = [key |-> op.key, inner |-> op.key]
        BY <2>1, WriteEffect, Names DEF Resealed, Shape, Objs
      <3> QED
        BY <1>2, <3>1 DEF Under
    <2>2. CASE n \in Bodies \cup Tombs
      <3>1. disk'[n] = [disk[n] EXCEPT !.key = op.key] /\ n \notin Metas
        BY <2>2, WriteEffect, Names DEF Resealed, Shape, Objs
      <3>2. disk'[n].key = op.key
        BY <2>2, <3>1 DEF Shape, DiskShape, BodyShape, TombShape
      <3> QED
        BY <1>2, <3>1, <3>2 DEF Under
    <2> QED
      BY <2>1, <2>2 DEF Objs
  <1>5. \A m \in Objs \ op.todo : Under(m, op.key)
    BY <1>3 DEF Recovering
  <1>6. \A m \in Objs \ op.todo : Under(m, op.key)'
    <2> TAKE m \in Objs \ op.todo
    <2>1. Under(m, op.key) /\ disk'[m] = disk[m]
      BY <1>5, WriteEffect, Names DEF Shape
    <2> QED
      BY <1>2, <2>1 DEF Under, Present
  <1>7. \A m \in Objs \ op'.todo : Under(m, op.key)'
    BY <1>2, <1>4, <1>6
  <1> QED
    BY <1>2, <1>3, <1>7 DEF Recovering

(* The index, the envelope and the header follow one another. *)
LEMMA RecoveryWrites ==
  ASSUME Shape, Recovering, op.kind = "recover", ResealIndex \/ WriteEnvelope \/ WriteHeader
  PROVE  op'.kind = op.kind /\ Recovering'
  <1>1. op'.kind = op.kind /\ op'.key = op.key /\ mem' = mem
    <2>1. \E s : op' = [op EXCEPT !.at = s]
      BY DEF ResealIndex, WriteEnvelope, WriteHeader, Goto
    <2> QED
      BY <2>1, GotoKeeps DEF ResealIndex, WriteEnvelope, WriteHeader, SameMemory, Shape
  <1>2. CASE ResealIndex
    <2>1. op'.at = "envelope"
      BY <1>2, GotoKeeps DEF ResealIndex, Goto, Shape
    <2>2. \A n \in Objs : Under(n, op.key)
      BY <1>2 DEF ResealIndex, Running, Recovering
    <2>3. PICK b : b.key = op.key /\ Write(Index, b)
      BY <1>2 DEF ResealIndex
    <2>4. \A n \in Objs : disk'[n] = disk[n]
      BY <2>3, WriteEffect, Names DEF Shape
    <2>5. disk'[Index].key = op.key
      BY <2>3, WriteEffect, Names DEF Shape
    <2>6. \A n \in Objs \cup {Index} : Under(n, op.key)'
      BY <1>1, <2>2, <2>4, <2>5, Names DEF Under, Present, Objs
    <2> QED
      BY <1>1, <2>1, <2>6 DEF Recovering
  <1>3. CASE WriteEnvelope \/ WriteHeader
    <2>1. \A n \in Objs \cup {Index} : Under(n, op.key)
      BY <1>3 DEF WriteEnvelope, WriteHeader, Recovering
    <2>2. PICK n \in {Envelope, Header} : Write(n, [key |-> op.key])
      BY <1>3 DEF WriteEnvelope, WriteHeader
    <2>3. \A m \in Objs \cup {Index} : disk'[m] = disk[m]
      BY <2>2, WriteEffect, Names DEF Shape
    <2>4. \A m \in Objs \cup {Index} : Under(m, op.key)'
      BY <1>1, <2>1, <2>3 DEF Under, Present
    <2>5. CASE WriteEnvelope
      <3>1. op'.at = "header"
        BY <2>5, GotoKeeps DEF WriteEnvelope, Goto, Shape
      <3>2. Write(Envelope, [key |-> op.key])
        BY <2>5 DEF WriteEnvelope
      <3>3. disk'[Envelope].key = op.key
        BY <3>2, WriteEffect, Names DEF Shape
      <3> QED
        BY <1>1, <2>4, <3>1, <3>3 DEF Recovering
    <2>6. CASE WriteHeader
      <3>1. op'.at = "finish"
        BY <2>6, GotoKeeps DEF WriteHeader, Goto, Shape
      <3>2. Write(Header, [key |-> op.key])
        BY <2>6 DEF WriteHeader
      <3>3. disk'[Header].key = op.key /\ disk'[Envelope].key = op.key
        BY <2>6, <3>2, WriteEffect, Names DEF Shape, WriteHeader, Recovering
      <3> QED
        BY <1>1, <2>4, <3>1, <3>3 DEF Recovering
    <2> QED
      BY <1>3, <2>5, <2>6
  <1> QED
    BY <1>2, <1>3

(* A command that ends with the vault locked and its files in agreement. *)
LEMMA EndsOrdinary ==
  ASSUME Agree', Beside', op' = Idle, mem'.key = 0
  PROVE  op'.kind \notin {"recover", "init"} /\ Ordinary'
  BY IdleShaped DEF Ordinary, MemKinds, Beside

(* A recovery goes on, ends with its files in agreement, or is torn. *)
LEMMA RecoverySteps ==
  ASSUME Shape, Recovering, op.kind = "recover", [Next]_vars, ~KeysTorn'
  PROVE  \/ op'.kind = "recover" /\ Recovering'
         \/ op'.kind \notin {"recover", "init"} /\ Ordinary'
  <1>1. op.at # "dropChunk"
    BY DEF Recovering
  <1>2. ~(\/ ResealFails \/ WriteFails)
    <2>1. ResealFails \/ WriteFails => op.at \in {"reseal", "envelope", "header"}
      BY DEF ResealFails, WriteFails, Running, Recovering
    <2> QED
      BY <2>1, CutsRemembered, CutsTear
  <1>3. Crash => op.at \notin {"reseal", "envelope", "header"}
    BY CutsRemembered, CutsTear
  <1>4. CASE LoadOld \/ Reseal \/ ResealIndex \/ WriteEnvelope \/ WriteHeader
    BY <1>4, Loads, Reseals, RecoveryWrites
  <1>5. CASE Crash \/ ShowCode
    <2>1. op' = Idle /\ disk' = disk /\ mem'.key = 0
      BY <1>5 DEF Crash, ShowCode, SameFiles, SameMemory, Locked, Recovering
    <2>2. op.at \in {"load", "finish"}
      BY <1>3, <1>5 DEF ShowCode, Recovering
    <2>3. Agree
      <3>1. CASE op.at = "load"
        BY <3>1 DEF Recovering
      <3>2. CASE op.at = "finish"
        BY <3>2, AllUnder DEF Recovering
      <3> QED
        BY <2>2, <3>1, <3>2
    <2>4. Beside'
      BY ShapePreserved DEF Shape
    <2> QED
      BY <2>1, <2>3, <2>4, AgreeStays, EndsOrdinary
  <1>6. CASE UNCHANGED vars
    BY <1>6 DEF vars, Recovering, Agree, Under, Present
  <1>7. ~Wipe /\ ~Wiped /\ ~EmptyIndex
    BY DEF Wipe, Wiped, EmptyIndex, Running
  <1> QED
    BY <1>1, <1>2, <1>4, <1>5, <1>6, <1>7, RekeyingSteps DEF KeyStep, Shape

-----------------------------------------------------------------------------
(* A file is wiped, and nothing of it is left. *)
LEMMA Wipes ==
  ASSUME Shape, Creating, Wipe
  PROVE  op'.kind = op.kind /\ Creating'
  <1> PICK n \in op.todo : Remove(n) /\ op' = [op EXCEPT !.todo = @ \ {n}]
    BY DEF Wipe
  <1>1. op' = [op EXCEPT !.todo = op.todo \ {n}]
    OBVIOUS
  <1>2. /\ op'.kind = op.kind /\ op'.key = op.key /\ op'.at = op.at
        /\ op'.todo = op.todo \ {n}
    BY <1>1 DEF Shape, Shaped
  <1>3. op.at = "wipe" /\ mem' = mem
    BY DEF Wipe, Running, SameMemory
  <1>4. Write(n, Missing(n))
    BY DEF Remove, Write
  <1>5. n \in Kept => ~Present(n)' /\ Under(n, 0)'
    BY <1>4, WriteEffect, MissingFiles DEF Shape, Under, Present
  <1>6. \A m \in Kept \ op.todo : ~Present(m)' /\ Under(m, 0)'
    <2> TAKE m \in Kept \ op.todo
    <2>1. ~Present(m) /\ Under(m, 0) /\ disk'[m] = disk[m]
      BY <1>3, <1>4, WriteEffect DEF Creating, Shape
    <2> QED
      BY <2>1 DEF Under, Present
  <1>7. \A m \in Kept \ op'.todo : ~Present(m)' /\ Under(m, 0)'
    BY <1>2, <1>5, <1>6
  <1> QED
    BY <1>2, <1>3, <1>7 DEF Creating

(* The new envelope, header and index are written under the new key. *)
LEMMA CreationWrites ==
  ASSUME Shape, Creating, op.kind = "init", Wiped \/ WriteEnvelope \/ WriteHeader \/ EmptyIndex
  PROVE  op'.kind = op.kind /\ Creating'
  <1>1. op'.kind = op.kind /\ op'.key = op.key /\ mem' = mem
    <2>1. \E s : op' = [op EXCEPT !.at = s]
      BY DEF Wiped, WriteEnvelope, WriteHeader, EmptyIndex, Goto
    <2> QED
      BY <2>1, GotoKeeps DEF Wiped, WriteEnvelope, WriteHeader, EmptyIndex, SameMemory, Shape
  <1>2. \A n \in Objs : ~Present(n) /\ Under(n, 0)
    BY Names DEF Wiped, WriteEnvelope, WriteHeader, EmptyIndex, Running, Creating
  <1>3. disk' = disk \/ \E n \in {Envelope, Header, Index} : \E b : Write(n, b)
    BY DEF Wiped, WriteEnvelope, WriteHeader, EmptyIndex, SameFiles
  <1>4. \A n \in Objs : disk'[n] = disk[n]
    BY <1>3, WriteEffect, Names DEF Shape
  <1>5. \A n \in Objs : ~Present(n)' /\ Under(n, 0)'
    BY <1>2, <1>4 DEF Under, Present
  <1>6. CASE Wiped
    <2>1. op'.at = "envelope"
      BY <1>6, GotoKeeps DEF Wiped, Goto, Shape
    <2> QED
      BY <1>1, <1>5, <2>1 DEF Creating
  <1>7. CASE WriteEnvelope
    <2>1. op'.at = "header"
      BY <1>7, GotoKeeps DEF WriteEnvelope, Goto, Shape
    <2>2. Write(Envelope, [key |-> op.key])
      BY <1>7 DEF WriteEnvelope
    <2>3. disk'[Envelope].key = op.key
      BY <2>2, WriteEffect, Names DEF Shape
    <2> QED
      BY <1>1, <1>5, <2>1, <2>3 DEF Creating
  <1>8. CASE WriteHeader
    <2>1. op'.at = "index"
      BY <1>8, GotoKeeps DEF WriteHeader, Goto, Shape
    <2>2. Write(Header, [key |-> op.key])
      BY <1>8 DEF WriteHeader
    <2>3. disk'[Header].key = op.key /\ disk'[Envelope].key = op.key
      BY <1>8, <2>2, WriteEffect, Names DEF Shape, WriteHeader, Creating
    <2> QED
      BY <1>1, <1>5, <2>1, <2>3 DEF Creating
  <1>9. CASE EmptyIndex
    <2>1. op'.at = "finish"
      BY <1>9, GotoKeeps DEF EmptyIndex, Goto, Shape
    <2>2. PICK b : b.key = op.key /\ Write(Index, b)
      BY <1>9 DEF EmptyIndex
    <2>3. disk'[Index].key = op.key /\ disk'[Header].key = op.key /\ disk'[Envelope].key = op.key
      BY <1>9, <2>2, WriteEffect, Names DEF Shape, EmptyIndex, Running, Creating
    <2> QED
      BY <1>1, <1>5, <2>1, <2>3 DEF Creating
  <1> QED
    BY <1>6, <1>7, <1>8, <1>9

(* A creation goes on, ends with its files in agreement, or is torn. *)
LEMMA CreationSteps ==
  ASSUME Shape, Creating, op.kind = "init", [Next]_vars, ~KeysTorn'
  PROVE  \/ op'.kind = "init" /\ Creating'
         \/ op'.kind \notin {"recover", "init"} /\ Ordinary'
  <1>1. op.at # "dropChunk" /\ op.at \in At
    BY DEF Creating, At
  <1>2. ~Crash /\ ~WriteFails
    BY <1>1, CutsRemembered, CutsTear
  <1>3. CASE Wipe \/ Wiped \/ WriteEnvelope \/ WriteHeader \/ EmptyIndex
    BY <1>3, Wipes, CreationWrites
  <1>4. CASE ShowCode
    <2>1. op' = Idle /\ disk' = disk /\ mem'.key = 0
      BY <1>4 DEF ShowCode, SameFiles, SameMemory, Creating
    <2>2. /\ \A n \in Objs : ~Present(n) /\ Under(n, 0) /\ op.key # 0
          /\ disk[Envelope].key = op.key /\ disk[Header].key = op.key /\ disk[Index].key = op.key
      BY <1>4 DEF ShowCode, Creating
    <2>3. \A n \in Objs \cup {Index} : Under(n, op.key)
      BY <2>2, Names DEF Under, Objs
    <2>4. op.key # 0
      BY DEF Creating
    <2>5. Agree
      BY <2>2, <2>3, <2>4, AllUnder
    <2>6. Beside'
      BY ShapePreserved DEF Shape
    <2> QED
      BY <2>1, <2>5, <2>6, AgreeStays, EndsOrdinary
  <1>5. CASE UNCHANGED vars
    BY <1>5 DEF vars, Creating, Under, Present
  <1>6. ~LoadOld /\ ~Reseal /\ ~ResealFails /\ ~ResealIndex
    BY DEF LoadOld, Reseal, ResealFails, ResealIndex, Running
  <1> QED
    BY <1>1, <1>2, <1>3, <1>4, <1>5, <1>6, RekeyingSteps DEF KeyStep, Shape

-----------------------------------------------------------------------------
(* KeyInv is inductive. *)
LEMMA KeyInvPreserved == Shape /\ KeyInv /\ [Next]_vars => KeyInv'
  <1> SUFFICES ASSUME Shape, KeyInv, [Next]_vars, ~KeysTorn'
               PROVE  CASE op'.kind = "recover" -> Recovering'
                        [] op'.kind = "init"    -> Creating'
                        [] OTHER                -> Ordinary'
    BY DEF KeyInv
  <1>1. ~KeysTorn
    BY KeysSteps, TearsStay DEF Shape
  <1>2. CASE op.kind = "recover"
    <2>1. Recovering
      BY <1>1, <1>2 DEF KeyInv
    <2> QED
      BY <1>2, <2>1, RecoverySteps
  <1>3. CASE op.kind = "init"
    <2>1. Creating
      BY <1>1, <1>3 DEF KeyInv
    <2> QED
      BY <1>3, <2>1, CreationSteps
  <1>4. CASE op.kind \notin {"recover", "init"}
    <2>1. Ordinary
      BY <1>1, <1>4 DEF KeyInv
    <2>2. ~KeyStep
      BY <1>4, KeySteps
    <2>3. MemMoves /\ NextMoves
      BY MemSteps DEF Shape, Moves
    <2>4. CASE Beginnings
      BY <2>1, <2>4, OrdinaryBegins
    <2>5. CASE BeginRecover
      BY <2>1, <2>5, RecoverBegins
    <2>6. CASE \E reset \in BOOLEAN : BeginInit(reset)
      BY <2>1, <2>6, InitBegins
    <2>7. CASE WriteStep \/ PurgeStep \/ Load \/ Unlock \/ List \/ Lock \/ LoseIndex \/ GraceEnds
               \/ Crash \/ WriteFails \/ AgainStep \/ UNCHANGED vars
      BY <1>4, <2>1, <2>3, <2>7, OrdinaryGoesOn
    <2> QED
      BY <2>2, <2>4, <2>5, <2>6, <2>7 DEF Next, Beginnings
  <1> QED
    BY <1>2, <1>3, <1>4

(* A device starts with no files. *)
LEMMA KeysStart == Init => Shape /\ KeyInv
  <1> SUFFICES ASSUME Init PROVE Shape /\ KeyInv
    OBVIOUS
  <1>1. \A n \in Kept : disk[n] = Missing(n)
    BY DEF Init, Kept
  <1>2. \A n \in Kept : ~Present(n) /\ Under(n, 0)
    BY <1>1, MissingFiles DEF Present, Under
  <1>3. DiskShape
    <2>1. disk = [n \in Name |-> disk[n]]
      BY DEF Init
    <2> QED
      BY <1>1, <2>1, MissingFiles, Names DEF DiskShape, Objs
  <1>4. Shape
    BY <1>3, IdleShaped DEF Init, Shape, MemShape, Beside, Locked, NotAgain
  <1>5. Ordinary
    BY <1>2, Names, IdleShaped DEF Init, Ordinary, Agree, Locked, NotAgain, MemKinds
  <1>6. op.kind = "idle"
    BY IdleShaped DEF Init
  <1> QED
    BY <1>4, <1>5, <1>6 DEF KeyInv

(* Outside recoveries and creations the invariant is the property. *)
LEMMA KeyInvMeans == KeyInv => KeysAgree
  <1> SUFFICES ASSUME KeyInv, ~Rekeying, ~KeysTorn, Present(Header)
               PROVE  /\ \A n \in Name \ Chunks : Present(n) => disk[n].key = disk[Header].key
                      /\ \A a \in Attach : disk[Meta(a)].inner = disk[Meta(a)].key
                      /\ Present(Envelope)
                      /\ mem.key # 0 => mem.key = disk[Header].key
    BY DEF KeysAgree
  <1>1. Ordinary
    BY DEF KeyInv, Rekeying
  <1>2. \A a \in Attach : Meta(a) \in Metas /\ Meta(a) \in Kept
    BY Names DEF Metas, Objs
  <1> QED
    BY <1>1, <1>2 DEF Ordinary, Agree, Under, Kept

(* All that is stored opens with the password of the header and with the code of the envelope: *)
(* no command, crash, failed write, purge or loss of the index leaves two keys in use, except  *)
(* a recovery or a creation that was itself cut off between two files.                         *)
THEOREM KeysAlwaysAgree == Spec => []KeysAgree
  <1>1. Init => Shape /\ KeyInv
    BY KeysStart
  <1>2. Shape /\ KeyInv /\ [Next]_vars => Shape' /\ KeyInv'
    BY ShapePreserved, KeyInvPreserved
  <1>3. KeyInv => KeysAgree
    BY KeyInvMeans
  <1> QED
    BY <1>1, <1>2, <1>3, PTL DEF Spec

(***************************************************************************)
(* What the user was told is stored stays stored.                          *)
(***************************************************************************)

(* What was acknowledged is on the disk, and no tombstone threatens it. *)
Held ==
  \A o \in Object : acked[o].state = "live" =>
    Present(Body(o)) /\ acked[o].rev <= disk[Body(o)].rev /\ ~Present(Tomb(o))

(* The body is on the disk already ... *)
BodyWritten ==
  \/ op.kind = "put" /\ op.at = "index"
  \/ op.kind = "putRule" /\ op.at \in {"noTomb", "index"}
  \/ op.kind = "import" /\ ~op.deleted /\ op.at \in {"index", "meta", "chunk"}

(* ... and, of a rule, the tombstone is gone. *)
NoTombNow == op.kind = "putRule" /\ op.at = "index"

(* What a command has seen to, and what it has taken back before it began to delete. *)
Doing ==
  /\ op.kind \in MemKinds => mem.key # 0 /\ op.id \in Object
  /\ op.kind = "recover" => op.key # 0
  /\ op.kind \in {"put", "putRule"} => acked[op.id].rev <= op.rev
  /\ op.kind \in {"delete", "deleteRule", "import"} => acked[op.id].state # "live"
  /\ op.kind \in {"delete", "deleteRule"} => op.deleted
  /\ op.kind = "import" /\ op.at = "tomb" => op.deleted
  /\ NoTombNow => ~Present(Tomb(op.id))
  /\ BodyWritten => Present(Body(op.id)) /\ disk[Body(op.id)].rev = op.rev
  /\ op.at = "noBody" => op.id \in Object /\ Present(Tomb(op.id))
  /\ op.kind = "init" => \A o \in Object : acked[o].state # "live"

(* Nothing has a revision that was not issued. *)
Issued ==
  /\ clock \in Nat
  /\ op.rev \in Nat /\ op.rev <= clock
  /\ \A o \in Object : acked[o].rev \in Nat /\ acked[o].rev <= clock
  /\ \A o \in Object : disk[Body(o)].rev \in Nat /\ disk[Body(o)].rev <= clock

AckInv == Held /\ Doing /\ Issued /\ acked = [o \in Object |-> acked[o]]

(* The files of the objects are, as far as AckInv can tell, as before. *)
SameObjects ==
  \A o \in Object :
    /\ disk'[Body(o)].key # 0 <=> Present(Body(o))
    /\ disk'[Body(o)].rev = disk[Body(o)].rev
    /\ disk'[Tomb(o)].key # 0 <=> Present(Tomb(o))

(* Time does not go back. *)
Onward == clock' \in Nat /\ clock <= clock'

--------------------------------------------------------------------------------
(***************************************************************************)
(* Steps that leave the files of the objects alone.                        *)
(***************************************************************************)

(* The files of an object are its own. *)
LEMMA ObjectNames ==
  ASSUME NEW o \in Object
  PROVE  /\ Body(o) \in Bodies /\ Body(o) \in Kept
         /\ Tomb(o) \in Tombs /\ Tomb(o) \in Kept
         /\ \A x : Body(o) = Body(x) => o = x
         /\ \A x : Tomb(o) = Tomb(x) => o = x
         /\ \A x : Body(o) # Tomb(x) /\ Tomb(o) # Body(x)
  BY Names DEF Bodies, Tombs, Body, Tomb, Objs

(* Files that do not change stay as they are. *)
LEMMA UntouchedObjects ==
  ASSUME \A o \in Object : disk'[Body(o)] = disk[Body(o)] /\ disk'[Tomb(o)] = disk[Tomb(o)]
  PROVE  SameObjects
  BY DEF SameObjects, Present

(* A file that is no object's is written ... *)
LEMMA WriteElsewhere ==
  ASSUME DiskShape, NEW n, NEW b, Write(n, b), n \notin Bodies \cup Tombs
  PROVE  SameObjects
  <1>1. \A o \in Object : Body(o) # n /\ Tomb(o) # n
    BY ObjectNames
  <1>2. \A o \in Object : disk'[Body(o)] = disk[Body(o)] /\ disk'[Tomb(o)] = disk[Tomb(o)]
    BY <1>1, WriteEffect, ObjectNames
  <1> QED
    BY <1>2, UntouchedObjects

(* ... or removed. *)
LEMMA RemoveElsewhere ==
  ASSUME DiskShape, NEW n, Remove(n), n \notin Bodies \cup Tombs
  PROVE  SameObjects
  <1>1. Write(n, Missing(n))
    BY DEF Remove, Write
  <1> QED
    BY <1>1, WriteElsewhere

(* No file is touched. *)
LEMMA SameDiskObjects == disk' = disk => SameObjects
  BY DEF SameObjects, Present

(* What is held stays held while the objects' files stay. *)
LEMMA HeldStays ==
  ASSUME Held, SameObjects, acked' = acked
  PROVE  Held'
  BY DEF Held, SameObjects, Present

(* Revisions stay within the clock while the objects' files stay. *)
LEMMA IssuedStays ==
  ASSUME Issued, SameObjects, acked' = acked, Onward, op'.rev = op.rev \/ op'.rev = 0
  PROVE  Issued'
  <1>1. op'.rev \in Nat /\ op'.rev <= clock'
    BY DEF Issued, Onward
  <1>2. \A o \in Object : acked'[o].rev \in Nat /\ acked'[o].rev <= clock'
    BY DEF Issued, Onward
  <1>3. \A o \in Object : disk'[Body(o)].rev \in Nat /\ disk'[Body(o)].rev <= clock'
    BY DEF Issued, Onward, SameObjects
  <1> QED
    BY <1>1, <1>2, <1>3 DEF Issued, Onward

(* A device at rest owes nothing. *)
LEMMA IdleDoes == op' = Idle => Doing' /\ op'.rev = 0
  BY DEF Idle, Doing, MemKinds, NoTombNow, BodyWritten

(* A command ends without a word about its object. *)
LEMMA QuietEnds ==
  ASSUME AckInv, SameObjects, acked' = acked, Onward, op' = Idle
  PROVE  AckInv'
  <1>1. Held' /\ Issued' /\ Doing'
    BY HeldStays, IssuedStays, IdleDoes DEF AckInv
  <1> QED
    BY <1>1 DEF AckInv

(* A command goes on, and nothing is to be taken back or added to what it has done. *)
SameCommand ==
  /\ op'.kind = op.kind /\ op'.rev = op.rev /\ op'.key = op.key
  /\ op.kind \in MemKinds => op'.id = op.id /\ op'.deleted = op.deleted
  /\ mem'.key = mem.key
  /\ op'.at # "noBody"
  /\ op.kind = "import" /\ op'.at = "tomb" => op.deleted
  /\ NoTombNow' => NoTombNow
  /\ BodyWritten' => BodyWritten

(* Such a step keeps the invariant. *)
LEMMA QuietGoes ==
  ASSUME AckInv, SameObjects, acked' = acked, Onward, SameCommand
  PROVE  AckInv'
  <1>1. Held' /\ Issued'
    BY HeldStays, IssuedStays DEF AckInv, SameCommand
  <1>2. op.kind \in MemKinds => mem'.key # 0 /\ op'.id = op.id /\ op.id \in Object
    BY DEF AckInv, Doing, SameCommand
  <1>3. NoTombNow \/ BodyWritten => op.kind \in MemKinds
    BY DEF NoTombNow, BodyWritten, MemKinds
  <1>4. NoTombNow' => disk'[Tomb(op'.id)].key = 0
    <2> SUFFICES ASSUME NoTombNow' PROVE disk'[Tomb(op'.id)].key = 0
      OBVIOUS
    <2>1. NoTombNow
      BY DEF SameCommand
    <2>2. op'.id = op.id /\ op.id \in Object
      BY <1>2, <1>3, <2>1
    <2>3. ~Present(Tomb(op.id))
      BY <2>1 DEF AckInv, Doing
    <2>4. disk'[Tomb(op.id)].key # 0 <=> Present(Tomb(op.id))
      BY <2>2 DEF SameObjects
    <2> QED
      BY <2>2, <2>3, <2>4
  <1>5. BodyWritten' => disk'[Body(op'.id)].key # 0 /\ disk'[Body(op'.id)].rev = op'.rev
    <2> SUFFICES ASSUME BodyWritten'
                 PROVE  disk'[Body(op'.id)].key # 0 /\ disk'[Body(op'.id)].rev = op'.rev
      OBVIOUS
    <2>1. BodyWritten
      BY DEF SameCommand
    <2>2. op'.id = op.id /\ op.id \in Object /\ op'.rev = op.rev
      BY <1>2, <1>3, <2>1 DEF SameCommand
    <2>3. Present(Body(op.id)) /\ disk[Body(op.id)].rev = op.rev
      BY <2>1 DEF AckInv, Doing
    <2> QED
      BY <2>2, <2>3 DEF SameObjects, Present
  <1>6. /\ op'.kind \in {"put", "putRule"} => acked'[op'.id].rev <= op'.rev
        /\ op'.kind \in {"delete", "deleteRule", "import"} => acked'[op'.id].state # "live"
    BY <1>2 DEF AckInv, Doing, SameCommand, MemKinds
  <1>7. /\ op'.kind \in {"delete", "deleteRule"} => op'.deleted
        /\ op'.kind = "import" /\ op'.at = "tomb" => op'.deleted
    BY DEF AckInv, Doing, SameCommand, MemKinds
  <1>8. /\ op'.kind \in MemKinds => mem'.key # 0 /\ op'.id \in Object
        /\ op'.kind = "recover" => op'.key # 0
        /\ op'.kind = "init" => \A o \in Object : acked'[o].state # "live"
        /\ op'.at # "noBody"
    BY <1>2 DEF AckInv, Doing, SameCommand
  <1>9. Doing'
    BY <1>4, <1>5, <1>6, <1>7, <1>8 DEF Doing, Present
  <1> QED
    BY <1>1, <1>9 DEF AckInv

(* A step that only goes on changes no other field of the command. *)
LEMMA GotoSame ==
  ASSUME Shaped(op), NEW s, op' = [op EXCEPT !.at = s]
  PROVE  /\ op'.kind = op.kind /\ op'.rev = op.rev /\ op'.key = op.key /\ op'.at = s
         /\ op'.id = op.id /\ op'.deleted = op.deleted
  BY DEF Shaped

(* Index, header and envelope are no object's files. *)
LEMMA IndexElsewhere == Index \notin Bodies \cup Tombs
                        /\ Header \notin Bodies \cup Tombs /\ Envelope \notin Bodies \cup Tombs
  BY Names DEF Objs

(* Tombstones that grow old are still there. *)
LEMMA GraceObjects ==
  ASSUME DiskShape, GraceEnds
  PROVE  SameObjects
  <1>1. disk' = [n \in Name |-> IF n \in Tombs /\ Present(n) THEN [disk[n] EXCEPT !.old = TRUE]
                                ELSE disk[n]]
    BY DEF GraceEnds
  <1>2. \A n \in Tombs : [disk[n] EXCEPT !.old = TRUE].key = disk[n].key
    BY DEF DiskShape, TombShape
  <1>3. \A o \in Object : disk'[Body(o)] = disk[Body(o)]
    BY <1>1, ObjectNames, Names DEF Kept
  <1>4. \A o \in Object : disk'[Tomb(o)].key = disk[Tomb(o)].key
    BY <1>1, <1>2, ObjectNames DEF Kept
  <1> QED
    BY <1>3, <1>4 DEF SameObjects, Present

(* An unlock of the unlocked vault writes no file but the index, and says nothing. *)
LEMMA AgainKeeps ==
  ASSUME Shape, AckInv, AgainStep
  PROVE  AckInv'
  <1>1. acked' = acked /\ op' = op
    BY DEF AgainStep, LoadAgain, SaveAgain, UnlockAgain, AgainFails, SameAck
  <1>2. clock' = clock \/ clock' = clock + 1
    BY DEF AgainStep, LoadAgain, Issue, SaveAgain, UnlockAgain, AgainFails
  <1>3. Onward
    BY <1>2 DEF Onward, AckInv, Issued
  <1>4. SameObjects
    <2>1. disk' = disk \/ \E b : Write(Index, b)
      BY DEF AgainStep, LoadAgain, SaveAgain, UnlockAgain, AgainFails, SameFiles
    <2> QED
      BY <2>1, SameDiskObjects, WriteElsewhere, IndexElsewhere DEF Shape
  <1>5. CASE UnlockAgain
    BY <1>1, <1>3, <1>4, <1>5, QuietEnds DEF UnlockAgain
  <1>6. CASE ~UnlockAgain
    <2>1. mem'.key = mem.key
      <3>1. \E x : mem' = [mem EXCEPT !.next = x]
        BY <1>6 DEF AgainStep, LoadAgain, SaveAgain, AgainFails
      <3> QED
        BY <3>1 DEF Shape, MemShape
    <2>2. Doing'
      <3>1. \A o \in Object : /\ disk'[Body(o)].key # 0 <=> Present(Body(o))
                              /\ disk'[Body(o)].rev = disk[Body(o)].rev
                              /\ disk'[Tomb(o)].key # 0 <=> Present(Tomb(o))
        BY <1>4 DEF SameObjects
      <3>2. NoTombNow \/ BodyWritten => op.id \in Object
        BY DEF AckInv, Doing, MemKinds, NoTombNow, BodyWritten
      <3>3. (NoTombNow' <=> NoTombNow) /\ (BodyWritten' <=> BodyWritten)
        BY <1>1 DEF NoTombNow, BodyWritten
      <3>4. /\ NoTombNow' => disk'[Tomb(op'.id)].key = 0
            /\ BodyWritten' => disk'[Body(op'.id)].key # 0 /\ disk'[Body(op'.id)].rev = op'.rev
            /\ op'.at = "noBody" => op'.id \in Object /\ disk'[Tomb(op'.id)].key # 0
        BY <1>1, <3>1, <3>2, <3>3 DEF AckInv, Doing, Present
      <3> QED
        BY <1>1, <2>1, <3>4 DEF AckInv, Doing, Present
    <2>3. Held' /\ Issued'
      BY <1>1, <1>3, <1>4, HeldStays, IssuedStays DEF AckInv
    <2> QED
      BY <1>1, <2>2, <2>3 DEF AckInv
  <1> QED
    BY <1>5, <1>6

(* The steps that end a command, or are one by themselves, without a word about an object. *)
Endings == List \/ Lock \/ LoseIndex \/ GraceEnds \/ Crash \/ WriteFails \/ ResealFails \/ ShowCode
           \/ Unlock \/ SaveHardDelete

(* They keep the invariant. *)
LEMMA EndingsKeep ==
  ASSUME Shape, AckInv, Endings
  PROVE  AckInv'
  <1>1. op' = Idle /\ acked' = acked
    BY DEF Endings, List, Lock, LoseIndex, GraceEnds, Crash, WriteFails, ResealFails, ShowCode,
           Unlock, SaveHardDelete, Unlocked, Free, SameAck
  <1>2. clock' = clock
    BY DEF Endings, List, Lock, LoseIndex, GraceEnds, Crash, WriteFails, ResealFails, ShowCode,
           Unlock, SaveHardDelete, NothingElse
  <1>3. Onward
    BY <1>2 DEF Onward, AckInv, Issued
  <1>4. SameObjects
    <2>1. CASE GraceEnds
      BY <2>1, GraceObjects DEF Shape
    <2>2. CASE List \/ SaveHardDelete
      <3>1. \E b : Write(Index, b)
        BY <2>2 DEF List, SaveHardDelete
      <3> QED
        BY <3>1, WriteElsewhere, IndexElsewhere DEF Shape
    <2>3. CASE LoseIndex
      BY <2>3, RemoveElsewhere, IndexElsewhere DEF Shape, LoseIndex
    <2>4. CASE Lock \/ Crash \/ WriteFails \/ ResealFails \/ ShowCode \/ Unlock
      BY <2>4, SameDiskObjects DEF Lock, Crash, WriteFails, ResealFails, ShowCode, Unlock, SameFiles
    <2> QED
      BY <2>1, <2>2, <2>3, <2>4 DEF Endings
  <1> QED
    BY <1>1, <1>3, <1>4, QuietEnds

(* The steps between two files that are no object's. *)
MemGoings == PutChunks \/ PutMeta \/ DropChunks \/ DropReplaced \/ SaveImported \/ ImportMeta

(* They keep the invariant. *)
LEMMA MemGoingsKeep ==
  ASSUME Shape, AckInv, MemGoings
  PROVE  AckInv'
  <1>1. acked' = acked /\ clock' = clock
    BY DEF MemGoings, PutChunks, PutMeta, DropChunks, DropReplaced, SaveImported, ImportMeta,
           SameAck, NothingElse
  <1>2. SameObjects
    <2>1. \/ disk' = disk
          \/ \E x, b : Write(Chunk(x), b) \/ Write(Meta(x), b)
          \/ \E b : Write(Index, b)
          \/ \E x : Remove(Chunk(x)) \/ Remove(Meta(x))
      BY DEF MemGoings, PutChunks, PutMeta, DropChunks, DropReplaced, SaveImported, ImportMeta,
             SameFiles
    <2>2. \A x : Chunk(x) \notin Bodies \cup Tombs /\ Meta(x) \notin Bodies \cup Tombs
      BY NamesOf, Names DEF Objs
    <2> QED
      BY <2>1, <2>2, IndexElsewhere, SameDiskObjects, WriteElsewhere, RemoveElsewhere DEF Shape
  <1>3. mem'.key = mem.key
    BY DEF MemGoings, PutChunks, PutMeta, DropChunks, DropReplaced, SaveImported, ImportMeta,
           SameMemory, Shape, MemShape
  <1>4. PICK s : op' = [op EXCEPT !.at = s]
    BY DEF MemGoings, PutChunks, PutMeta, DropChunks, DropReplaced, SaveImported, ImportMeta, Goto
  <1>5. /\ op'.kind = op.kind /\ op'.rev = op.rev /\ op'.key = op.key /\ op'.at = s
        /\ op'.id = op.id /\ op'.deleted = op.deleted
    BY <1>4, GotoSame DEF Shape
  <1>6. \/ op.kind = "put" /\ op'.at \in {"meta", "body", "dropChunk"}
        \/ op'.at = "dropMeta"
        \/ op.kind \in {"put", "import"} /\ op'.at = "body"
        \/ op.kind = "import" /\ op.at = "index" /\ op'.at = IF op.deleted THEN "tomb" ELSE "meta"
        \/ op.kind = "import" /\ op.at = "meta" /\ op'.at = "chunk"
    <2>1. CASE PutChunks \/ PutMeta
      BY <2>1, GotoSame DEF PutChunks, PutMeta, Goto, Running, Shape
    <2>2. CASE DropChunks
      BY <2>2, GotoSame DEF DropChunks, Goto, Shape
    <2>3. CASE DropReplaced
      BY <2>3, GotoSame DEF DropReplaced, Goto, Shape
    <2>4. CASE SaveImported
      BY <2>4, GotoSame DEF SaveImported, Goto, Running, Shape
    <2>5. CASE ImportMeta
      BY <2>5, GotoSame DEF ImportMeta, Goto, Running, Shape
    <2> QED
      BY <2>1, <2>2, <2>3, <2>4, <2>5 DEF MemGoings
  <1>7. op'.at # "noBody" /\ (op.kind = "import" /\ op'.at = "tomb" => op.deleted)
    BY <1>6
  <1>8. NoTombNow' => NoTombNow
    BY <1>5, <1>6 DEF NoTombNow
  <1>9. BodyWritten' => BodyWritten
    BY <1>5, <1>6 DEF BodyWritten
  <1>10. SameCommand
    BY <1>3, <1>5, <1>7, <1>8, <1>9 DEF SameCommand
  <1>11. Onward
    BY <1>1 DEF Onward, AckInv, Issued
  <1> QED
    BY <1>1, <1>2, <1>10, <1>11, QuietGoes

(* A file that is sealed again is the same file. *)
LEMMA ResealObjects ==
  ASSUME Shape, NEW n \in op.todo, Recoverable(n), Write(n, Resealed(n)), op.key # 0
  PROVE  SameObjects
  <1>1. CASE n \notin Bodies \cup Tombs
    BY <1>1, WriteElsewhere DEF Shape
  <1>2. CASE n \in Bodies \cup Tombs
    <2>1. Resealed(n) = [disk[n] EXCEPT !.key = op.key]
      BY <1>2, Names DEF Resealed
    <2>2. Resealed(n).key = op.key /\ (n \in Bodies => Resealed(n).rev = disk[n].rev)
      BY <1>2, <2>1, Names DEF Shape, DiskShape, BodyShape, TombShape
    <2>3. Present(n)
      BY DEF Recoverable, Opens, Present
    <2>4. disk'[n] = Resealed(n) /\ \A m \in Kept : m # n => disk'[m] = disk[m]
      BY <1>2, WriteEffect, Names DEF Shape, Objs
    <2>5. ASSUME NEW o \in Object
          PROVE  /\ disk'[Body(o)].key # 0 <=> Present(Body(o))
                 /\ disk'[Body(o)].rev = disk[Body(o)].rev
      BY <2>2, <2>3, <2>4, ObjectNames DEF Present
    <2>6. ASSUME NEW o \in Object
          PROVE  disk'[Tomb(o)].key # 0 <=> Present(Tomb(o))
      BY <2>2, <2>3, <2>4, ObjectNames DEF Present
    <2> QED
      BY <2>5, <2>6 DEF SameObjects
  <1> QED
    BY <1>1, <1>2

(* Steps of unlocking, recovery and creation that touch no object, or only reseal one. *)
OtherGoings == Load \/ PurgeDone \/ LoadOld \/ Reseal \/ ResealIndex \/ WriteEnvelope \/ WriteHeader
               \/ EmptyIndex \/ Wiped

(* They keep the invariant. *)
LEMMA OtherGoingsKeep ==
  ASSUME Shape, AckInv, OtherGoings
  PROVE  AckInv'
  <1>0. op.kind \in {"unlock", "recover", "init"}
    BY DEF OtherGoings, Load, PurgeDone, LoadOld, Reseal, ResealIndex, WriteEnvelope, WriteHeader,
           EmptyIndex, Wiped, Running
  <1>1. acked' = acked /\ mem' = mem
    BY DEF OtherGoings, Load, PurgeDone, LoadOld, Reseal, ResealIndex, WriteEnvelope, WriteHeader,
           EmptyIndex, Wiped, SameAck, SameMemory
  <1>2. clock' = clock \/ clock' = clock + 1
    BY DEF OtherGoings, Load, LoadIndex, PurgeDone, LoadOld, Reseal, ResealIndex, WriteEnvelope,
           WriteHeader, EmptyIndex, Wiped, NothingElse, Now
  <1>3. Onward
    BY <1>2 DEF Onward, AckInv, Issued
  <1>4. SameObjects
    <2>1. CASE Reseal
      <3>1. op.key # 0
        BY <2>1 DEF Reseal, Running, AckInv, Doing
      <3> QED
        BY <2>1, <3>1, ResealObjects DEF Reseal
    <2>2. CASE ~Reseal
      <3>1. disk' = disk \/ \E n \in {Index, Header, Envelope} : \E b : Write(n, b)
        BY <2>2 DEF OtherGoings, Load, LoadIndex, PurgeDone, LoadOld, ResealIndex, WriteEnvelope,
                    WriteHeader, EmptyIndex, Wiped, SameFiles
      <3> QED
        BY <3>1, SameDiskObjects, WriteElsewhere, IndexElsewhere DEF Shape
    <2> QED
      BY <2>1, <2>2
  <1>5. op'.kind = op.kind /\ op'.rev = op.rev /\ op'.key = op.key /\ op'.at # "noBody"
    <2>1. ASSUME NEW s \in {"finish", "purge", "reseal", "envelope", "header", "index"}, NEW e,
                 op' = [op EXCEPT !.at = s, !.entries = e]
          PROVE  op'.kind = op.kind /\ op'.rev = op.rev /\ op'.key = op.key /\ op'.at # "noBody"
      BY <2>1 DEF Shape, Shaped
    <2>2. ASSUME NEW s \in {"finish", "purge", "reseal", "envelope", "header", "index"},
                 NEW e, NEW t, op' = [op EXCEPT !.at = s, !.entries = e, !.todo = t]
          PROVE  op'.kind = op.kind /\ op'.rev = op.rev /\ op'.key = op.key /\ op'.at # "noBody"
      BY <2>2 DEF Shape, Shaped
    <2>3. CASE Load
      BY <2>1, <2>3 DEF Load, LoadIndex
    <2>4. CASE LoadOld
      BY <2>2, <2>4 DEF LoadOld
    <2>5. CASE Reseal
      <3>1. PICK t : op' = [op EXCEPT !.todo = t]
        BY <2>5 DEF Reseal
      <3> QED
        BY <2>5, <3>1 DEF Reseal, Running, Shape, Shaped
    <2>6. CASE PurgeDone \/ ResealIndex \/ WriteEnvelope \/ WriteHeader \/ EmptyIndex \/ Wiped
      <3>1. PICK s \in {"finish", "purge", "reseal", "envelope", "header", "index"} :
                   op' = [op EXCEPT !.at = s]
        BY <2>6 DEF PurgeDone, ResealIndex, WriteEnvelope, WriteHeader, EmptyIndex, Wiped, Goto
      <3> QED
        BY <3>1, GotoSame DEF Shape
    <2> QED
      BY <2>3, <2>4, <2>5, <2>6 DEF OtherGoings
  <1>6. ~NoTombNow' /\ ~BodyWritten' /\ op.kind \notin MemKinds
    BY <1>0, <1>5 DEF NoTombNow, BodyWritten, MemKinds
  <1>7. SameCommand
    BY <1>0, <1>1, <1>5, <1>6 DEF SameCommand
  <1> QED
    BY <1>1, <1>3, <1>4, <1>7, QuietGoes

--------------------------------------------------------------------------------
(***************************************************************************)
(* Steps that write or remove one.                                         *)
(***************************************************************************)

(* The writing of a body changes that file and no other. *)
LEMMA BodyChanges ==
  ASSUME DiskShape, NEW o \in Object, NEW b, Write(Body(o), b)
  PROVE  /\ disk'[Body(o)] = b
         /\ \A x \in Object : x # o => disk'[Body(x)] = disk[Body(x)]
         /\ \A x \in Object : disk'[Tomb(x)] = disk[Tomb(x)]
  BY WriteEffect, ObjectNames

(* The writing of a tombstone changes that file and no other. *)
LEMMA TombChanges ==
  ASSUME DiskShape, NEW o \in Object, NEW b, Write(Tomb(o), b)
  PROVE  /\ disk'[Tomb(o)] = b
         /\ \A x \in Object : x # o => disk'[Tomb(x)] = disk[Tomb(x)]
         /\ \A x \in Object : disk'[Body(x)] = disk[Body(x)]
  BY WriteEffect, ObjectNames

(* The new body carries the command's revision, which is newer than what the user knows. *)
LEMMA WriteBodyKeeps ==
  ASSUME Shape, AckInv, WriteBody
  PROVE  AckInv'
  <1> DEFINE b == [key |-> mem.key, rev |-> op.rev, deleted |-> op.deleted, attach |-> op.attach]
  <1>1. /\ op.kind \in {"put", "delete", "putRule", "import"}
        /\ Write(Body(op.id), b) /\ op' = [op EXCEPT !.at = AfterBody]
        /\ mem' = mem /\ acked' = acked /\ clock' = clock
    BY DEF WriteBody, Goto, SameMemory, SameAck, NothingElse
  <1>2. mem.key # 0 /\ op.id \in Object /\ b.key = mem.key /\ b.rev = op.rev
    BY <1>1 DEF AckInv, Doing, MemKinds
  <1> HIDE DEF b
  <1>3. /\ disk'[Body(op.id)] = b
        /\ \A x \in Object : x # op.id => disk'[Body(x)] = disk[Body(x)]
        /\ \A x \in Object : disk'[Tomb(x)] = disk[Tomb(x)]
    BY <1>1, <1>2, BodyChanges DEF Shape
  <1>4. /\ op'.kind = op.kind /\ op'.rev = op.rev /\ op'.key = op.key /\ op'.at = AfterBody
        /\ op'.id = op.id /\ op'.deleted = op.deleted
    BY <1>1, GotoSame DEF Shape
  <1>5. op.rev \in Nat /\ op.rev <= clock
    BY DEF AckInv, Issued
  <1>6. Held'
    <2> SUFFICES ASSUME NEW o \in Object, acked[o].state = "live"
                 PROVE  disk'[Body(o)].key # 0 /\ acked[o].rev <= disk'[Body(o)].rev
                        /\ disk'[Tomb(o)].key = 0
      BY <1>1 DEF Held, Present
    <2>1. Present(Body(o)) /\ acked[o].rev <= disk[Body(o)].rev /\ ~Present(Tomb(o))
      BY DEF AckInv, Held
    <2>2. CASE o = op.id
      <3>1. op.kind \in {"put", "putRule"}
        BY <1>1, <2>2 DEF AckInv, Doing
      <3>2. acked[o].rev <= op.rev
        BY <2>2, <3>1 DEF AckInv, Doing
      <3> QED
        BY <1>2, <1>3, <2>1, <2>2, <3>2 DEF Present
    <2>3. CASE o # op.id
      BY <1>3, <2>1, <2>3 DEF Present
    <2> QED
      BY <2>2, <2>3
  <1>7. Issued'
    <2>1. \A o \in Object : disk'[Body(o)].rev \in Nat /\ disk'[Body(o)].rev <= clock
      BY <1>2, <1>3, <1>5 DEF AckInv, Issued
    <2> QED
      BY <1>1, <1>4, <1>5, <2>1 DEF AckInv, Issued
  <1>8. op'.at \in {"tomb", "noTomb", "index"} /\ (op.kind = "putRule" => op'.at = "noTomb")
        /\ (op.kind = "import" => op'.at = "index")
    BY <1>1, <1>4 DEF AfterBody
  <1>9. NoTombNow' => disk'[Tomb(op.id)].key = 0
    <2>1. NoTombNow' => NoTombNow
      BY <1>4, <1>8 DEF NoTombNow
    <2> QED
      BY <1>2, <1>3, <2>1 DEF AckInv, Doing, Present
  <1>10. disk'[Body(op.id)].key # 0 /\ disk'[Body(op.id)].rev = op.rev
    BY <1>2, <1>3
  <1>11. /\ op'.kind \in {"put", "putRule"} => acked'[op'.id].rev <= op'.rev
         /\ op'.kind \in {"delete", "deleteRule", "import"} => acked'[op'.id].state # "live"
         /\ op'.kind \in {"delete", "deleteRule"} => op'.deleted
    BY <1>1, <1>4 DEF AckInv, Doing
  <1>12. Doing'
    BY <1>1, <1>2, <1>4, <1>8, <1>9, <1>10, <1>11 DEF Doing, Present
  <1> QED
    BY <1>1, <1>6, <1>7, <1>12 DEF AckInv

(* A tombstone is written for an object the user no longer counts on. *)
LEMMA WriteTombKeeps ==
  ASSUME Shape, AckInv, WriteTomb
  PROVE  AckInv'
  <1>1. PICK b : /\ op.kind \in {"delete", "deleteRule", "import"} /\ op.at = "tomb"
                 /\ Write(Tomb(op.id), b)
                 /\ op' = [op EXCEPT !.at = IF op.kind = "import" THEN "meta" ELSE "index"]
                 /\ mem' = mem /\ acked' = acked /\ clock' = clock
    BY DEF WriteTomb, Goto, SameMemory, SameAck, NothingElse
  <1>2. mem.key # 0 /\ op.id \in Object /\ acked[op.id].state # "live" /\ op.deleted
    BY <1>1 DEF AckInv, Doing, MemKinds
  <1>3. /\ \A x \in Object : x # op.id => disk'[Tomb(x)] = disk[Tomb(x)]
        /\ \A x \in Object : disk'[Body(x)] = disk[Body(x)]
    BY <1>1, <1>2, TombChanges DEF Shape
  <1>4. /\ op'.kind = op.kind /\ op'.rev = op.rev /\ op'.at \in {"meta", "index"}
        /\ op'.id = op.id /\ op'.deleted = op.deleted
    BY <1>1, GotoSame DEF Shape
  <1>5. Held'
    BY <1>1, <1>2, <1>3 DEF AckInv, Held, Present
  <1>6. Issued'
    BY <1>1, <1>3, <1>4 DEF AckInv, Issued
  <1>7. ~NoTombNow' /\ ~BodyWritten'
    BY <1>1, <1>2, <1>4 DEF NoTombNow, BodyWritten
  <1>8. Doing'
    BY <1>1, <1>2, <1>4, <1>7 DEF AckInv, Doing
  <1> QED
    BY <1>1, <1>5, <1>6, <1>8 DEF AckInv

(* A rule's tombstone goes after its body was written. *)
LEMMA ClearTombKeeps ==
  ASSUME Shape, AckInv, ClearTomb
  PROVE  AckInv'
  <1>1. /\ op.kind = "putRule" /\ op.at = "noTomb"
        /\ Write(Tomb(op.id), Missing(Tomb(op.id))) /\ op' = [op EXCEPT !.at = "index"]
        /\ mem' = mem /\ acked' = acked /\ clock' = clock
    BY DEF ClearTomb, Running, Goto, Remove, Write, SameMemory, SameAck, NothingElse
  <1>2. mem.key # 0 /\ op.id \in Object
    BY <1>1 DEF AckInv, Doing, MemKinds
  <1>3. Missing(Tomb(op.id)).key = 0
    BY <1>2, ObjectNames, MissingFiles
  <1>4. /\ disk'[Tomb(op.id)].key = 0
        /\ \A x \in Object : x # op.id => disk'[Tomb(x)] = disk[Tomb(x)]
        /\ \A x \in Object : disk'[Body(x)] = disk[Body(x)]
    BY <1>1, <1>2, <1>3, TombChanges DEF Shape
  <1>5. /\ op'.kind = op.kind /\ op'.rev = op.rev /\ op'.at = "index"
        /\ op'.id = op.id /\ op'.deleted = op.deleted
    BY <1>1, GotoSame DEF Shape
  <1>6. Held'
    BY <1>1, <1>4 DEF AckInv, Held, Present
  <1>7. Issued'
    BY <1>1, <1>4, <1>5 DEF AckInv, Issued
  <1>8. disk'[Body(op.id)].key # 0 /\ disk'[Body(op.id)].rev = op.rev
    BY <1>1, <1>2, <1>4 DEF AckInv, Doing, BodyWritten, Present
  <1>9. acked[op.id].rev <= op.rev
    BY <1>1 DEF AckInv, Doing
  <1>10. Doing'
    BY <1>1, <1>2, <1>4, <1>5, <1>8, <1>9 DEF Doing, Present
  <1> QED
    BY <1>1, <1>6, <1>7, <1>10 DEF AckInv

(* What the user is told is what the command has done. *)
LEMMA TellsKeep ==
  ASSUME Shape, AckInv, SaveIndex \/ ImportChunks
  PROVE  AckInv'
  <1> DEFINE st == IF op.deleted THEN "deleted"
                   ELSE IF op.kind # "putRule" /\ Present(Tomb(op.id)) THEN "revived"
                   ELSE "live"
  <1>1. /\ op.kind \in {"put", "delete", "putRule", "deleteRule", "import"}
        /\ acked' = [acked EXCEPT ![op.id] = [state |-> st, rev |-> op.rev]]
        /\ op' = Idle /\ clock' = clock
    BY DEF SaveIndex, ImportChunks, Running, Answered, Told, NothingElse
  <1>2. \/ op.kind \in {"put", "delete", "putRule", "deleteRule"} /\ op.at = "index"
        \/ op.kind = "import" /\ op.at = "chunk"
    BY DEF SaveIndex, ImportChunks, Running
  <1>3. op.id \in Object /\ op.rev \in Nat /\ op.rev <= clock
    BY <1>1 DEF AckInv, Doing, Issued, MemKinds
  <1>4. SameObjects
    <2>1. disk' = disk \/ (\E b : Write(Index, b)) \/ \E x, b : Write(Chunk(x), b)
      BY DEF SaveIndex, ImportChunks, SameFiles
    <2>2. \A x : Chunk(x) \notin Bodies \cup Tombs
      BY NamesOf, Names DEF Objs
    <2> QED
      BY <2>1, <2>2, IndexElsewhere, SameDiskObjects, WriteElsewhere DEF Shape
  <1>5. acked'[op.id] = [state |-> st, rev |-> op.rev]
        /\ \A x \in Object : x # op.id => acked'[x] = acked[x]
    BY <1>1, <1>3 DEF AckInv
  <1>6. acked' = [o \in Object |-> acked'[o]]
    BY <1>1 DEF AckInv
  <1>7. ASSUME ~op.deleted
        PROVE  /\ Present(Body(op.id)) /\ disk[Body(op.id)].rev = op.rev
               /\ op.kind = "putRule" => ~Present(Tomb(op.id))
    <2>1. op.kind \notin {"delete", "deleteRule"}
      BY <1>7 DEF AckInv, Doing
    <2>2. BodyWritten /\ (op.kind = "putRule" => NoTombNow)
      BY <1>2, <1>7, <2>1 DEF BodyWritten, NoTombNow
    <2> QED
      BY <2>2 DEF AckInv, Doing
  <1>8. st = "live" => ~op.deleted /\ (op.kind = "putRule" \/ ~Present(Tomb(op.id)))
    OBVIOUS
  <1> HIDE DEF st
  <1>9. Held'
    <2> SUFFICES ASSUME NEW o \in Object, acked'[o].state = "live"
                 PROVE  disk'[Body(o)].key # 0 /\ acked'[o].rev <= disk'[Body(o)].rev
                        /\ disk'[Tomb(o)].key = 0
      BY DEF Held, Present
    <2>1. CASE o = op.id
      <3>1. st = "live" /\ acked'[o].rev = op.rev
        BY <1>5, <2>1
      <3>2. Present(Body(o)) /\ disk[Body(o)].rev = op.rev /\ ~Present(Tomb(o))
        BY <1>7, <1>8, <2>1, <3>1
      <3> QED
        BY <1>3, <1>4, <3>1, <3>2 DEF SameObjects
    <2>2. CASE o # op.id
      BY <1>4, <1>5, <2>2 DEF AckInv, Held, SameObjects
    <2> QED
      BY <2>1, <2>2
  <1>10. Issued'
    <2>1. op'.rev = 0
      BY <1>1, IdleDoes
    <2>2. \A o \in Object : acked'[o].rev \in Nat /\ acked'[o].rev <= clock
      BY <1>3, <1>5 DEF AckInv, Issued
    <2> QED
      BY <1>1, <1>4, <2>1, <2>2 DEF AckInv, Issued, SameObjects
  <1>11. Doing'
    BY <1>1, IdleDoes
  <1> QED
    BY <1>6, <1>9, <1>10, <1>11 DEF AckInv

(* A body that is not there has no revision. *)
LEMMA MissingBody ==
  ASSUME NEW o \in Object
  PROVE  Missing(Body(o)).rev = 0
  <1>1. Body(o) \in Bodies
    BY ObjectNames
  <1>2. Missing(Body(o)) = NoBody
    BY <1>1, Names DEF Missing, Objs
  <1> QED
    BY <1>2 DEF NoBody

(* A purge takes the body of an object that has a tombstone, and then the tombstone. *)
LEMMA PurgeKeeps ==
  ASSUME Shape, AckInv, PurgeNext \/ PurgeBody \/ PurgeTomb \/ PurgeMeta
  PROVE  AckInv'
  <1>1. op.kind \in {"unlock", "hardDelete"} /\ acked' = acked /\ clock' = clock /\ mem' = mem
    BY DEF PurgeNext, PurgeBody, PurgeTomb, PurgeMeta, Running, SameAck, SameMemory, NothingElse
  <1>2. /\ op'.kind = op.kind /\ op'.rev = op.rev
        /\ op'.at = "noBody" => PurgeNext
        /\ op.kind = "hardDelete" => op'.id = op.id
    <2>1. CASE PurgeNext
      BY <2>1 DEF PurgeNext, Running, Shape, Shaped
    <2>2. CASE \E s \in {"noTomb", "dropChunk", "index"} : op' = [op EXCEPT !.at = s]
      BY <2>2, GotoSame DEF Shape
    <2>3. CASE op.kind = "unlock" /\ op' = Purged(op.id)
      <3>1. op'.kind = op.kind /\ op'.rev = op.rev /\ op'.at = "purge"
        BY <2>3 DEF Purged, Shape, Shaped
      <3> QED
        BY <2>3, <3>1
    <2> QED
      BY <2>1, <2>2, <2>3 DEF PurgeBody, PurgeTomb, PurgeMeta, Goto
  <1>3. PurgeNext => op'.id \in Object /\ Present(Tomb(op'.id)) /\ disk' = disk
    <2> SUFFICES ASSUME PurgeNext PROVE op'.id \in Object /\ Present(Tomb(op'.id)) /\ disk' = disk
      OBVIOUS
    <2>1. PICK o \in Expired(op.key) :
            op' = [op EXCEPT !.at = "noBody", !.id = o,
                        !.drop = IF Opens(op.key, Body(o)) THEN disk[Body(o)].attach
                                 ELSE NoAttach]
      BY DEF PurgeNext
    <2>2. op'.id = o
      BY <2>1 DEF Shape, Shaped
    <2> QED
      BY <2>2 DEF Expired, Opens, Present, PurgeNext, SameFiles
  <1>4. /\ \A o \in Object : /\ disk'[Body(o)] = disk[Body(o)]
                             \/ /\ disk'[Body(o)].rev = 0
                                /\ Present(Tomb(o))
        /\ \A o \in Object : disk'[Tomb(o)] = disk[Tomb(o)] \/ disk'[Tomb(o)].key = 0
    <2>1. CASE PurgeNext
      BY <1>3, <2>1
    <2>2. CASE PurgeBody
      <3>1. op.id \in Object /\ Present(Tomb(op.id))
        BY <2>2 DEF PurgeBody, AckInv, Doing
      <3>2. Write(Body(op.id), Missing(Body(op.id)))
        BY <2>2 DEF PurgeBody, Remove, Write
      <3>3. Missing(Body(op.id)).rev = 0
        BY <3>1, MissingBody
      <3> QED
        BY <3>1, <3>2, <3>3, BodyChanges DEF Shape
    <2>3. CASE PurgeTomb
      <3>1. Write(Tomb(op.id), Missing(Tomb(op.id)))
        BY <2>3 DEF PurgeTomb, Remove, Write
      <3>2. CASE op.id \in Object
        <4>1. Missing(Tomb(op.id)).key = 0
          BY <3>2, ObjectNames, MissingFiles
        <4> QED
          BY <3>1, <3>2, <4>1, TombChanges DEF Shape
      <3>3. CASE op.id \notin Object
        <4>1. \A o \in Object : Body(o) # Tomb(op.id) /\ Tomb(o) # Tomb(op.id)
          BY <3>3, ObjectNames
        <4> QED
          BY <3>1, <4>1, WriteEffect, ObjectNames DEF Shape
      <3> QED
        BY <3>2, <3>3
    <2>4. CASE PurgeMeta
      <3>1. Write(Meta(op.drop), Missing(Meta(op.drop)))
        BY <2>4 DEF PurgeMeta, Remove, Write
      <3>2. \A o \in Object : Body(o) # Meta(op.drop) /\ Tomb(o) # Meta(op.drop)
        BY ObjectNames, NamesOf, Names DEF Objs
      <3> QED
        BY <3>1, <3>2, WriteEffect, ObjectNames DEF Shape
    <2> QED
      BY <2>1, <2>2, <2>3, <2>4
  <1>5. Held'
    <2> SUFFICES ASSUME NEW o \in Object, acked[o].state = "live"
                 PROVE  disk'[Body(o)].key # 0 /\ acked[o].rev <= disk'[Body(o)].rev
                        /\ disk'[Tomb(o)].key = 0
      BY <1>1 DEF Held, Present
    <2>1. Present(Body(o)) /\ acked[o].rev <= disk[Body(o)].rev /\ ~Present(Tomb(o))
      BY DEF AckInv, Held
    <2> QED
      BY <1>4, <2>1 DEF Present
  <1>6. Issued'
    <2>1. \A o \in Object : disk'[Body(o)].rev \in Nat /\ disk'[Body(o)].rev <= clock
      BY <1>4 DEF AckInv, Issued
    <2> QED
      BY <1>1, <1>2, <2>1 DEF AckInv, Issued
  <1>7. op'.at = "noBody" => op'.id \in Object /\ disk'[Tomb(op'.id)].key # 0
    BY <1>2, <1>3 DEF Present
  <1>8. ~NoTombNow' /\ ~BodyWritten'
    BY <1>1, <1>2 DEF NoTombNow, BodyWritten
  <1>9. op'.kind \in MemKinds => mem'.key # 0 /\ op'.id \in Object
    BY <1>1, <1>2 DEF AckInv, Doing, MemKinds
  <1>10. Doing'
    BY <1>1, <1>2, <1>7, <1>8, <1>9 DEF Doing, Present
  <1> QED
    BY <1>1, <1>5, <1>6, <1>10 DEF AckInv

--------------------------------------------------------------------------------
(***************************************************************************)
(* Beginnings, and the theorem.                                            *)
(***************************************************************************)

(* What a command starts with. *)
LEMMA BeginFields ==
  ASSUME NEW kind, NEW at, NEW o, NEW deleted, NEW attach, NEW drop,
         Begin(kind, at, o, deleted, attach, drop)
  PROVE  /\ op'.kind = kind /\ op'.at = at /\ op'.id = o /\ op'.rev = clock'
         /\ op'.deleted = deleted
         /\ clock' = clock + 1
  BY DEF Begin, Issue, Idle

(* The user is told nothing new: of an object, at most, that it is undecided. *)
NoNews ==
  /\ acked' = [o \in Object |-> acked'[o]]
  /\ \A o \in Object : /\ acked'[o].rev = acked[o].rev
                       /\ acked'[o].state = "live" => acked[o].state = "live"

(* Saying nothing is no news. *)
LEMMA SameAckNews == AckInv /\ acked' = acked => NoNews
  BY DEF NoNews, AckInv

(* Nor is an object's being undecided. *)
LEMMA UndecidedNews ==
  ASSUME AckInv, NEW o \in Object, Undecided(o)
  PROVE  NoNews /\ acked'[o].state = "none"
  <1>1. acked' = [acked EXCEPT ![o] = [state |-> "none", rev |-> acked[o].rev]]
    BY DEF Undecided, Told
  <1>2. acked'[o] = [state |-> "none", rev |-> acked[o].rev]
        /\ \A x \in Object : x # o => acked'[x] = acked[x]
    BY <1>1 DEF AckInv
  <1>3. acked' = [x \in Object |-> acked'[x]]
    BY <1>1 DEF AckInv
  <1> QED
    BY <1>2, <1>3 DEF NoNews

(* A command that begins leaves the disk and what the user counts on as they are. *)
LEMMA BeginsQuietly ==
  ASSUME AckInv, disk' = disk, NoNews, Onward, op'.rev = clock' \/ op'.rev = 0, Doing'
  PROVE  AckInv'
  <1>1. Held'
    <2> SUFFICES ASSUME NEW o \in Object, acked'[o].state = "live"
                 PROVE  disk'[Body(o)].key # 0 /\ acked'[o].rev <= disk'[Body(o)].rev
                        /\ disk'[Tomb(o)].key = 0
      BY DEF Held, Present
    <2>1. Present(Body(o)) /\ acked[o].rev <= disk[Body(o)].rev /\ ~Present(Tomb(o))
      BY DEF AckInv, Held, NoNews
    <2> QED
      BY <2>1 DEF NoNews, Present
  <1>2. Issued'
    <2>1. op'.rev \in Nat /\ op'.rev <= clock' /\ clock' \in Nat /\ clock \in Nat
      BY DEF Onward, AckInv, Issued
    <2>2. \A o \in Object : acked'[o].rev \in Nat /\ acked'[o].rev <= clock'
      BY <2>1 DEF NoNews, Onward, AckInv, Issued
    <2>3. \A o \in Object : disk'[Body(o)].rev \in Nat /\ disk'[Body(o)].rev <= clock'
      BY <2>1 DEF Onward, AckInv, Issued
    <2> QED
      BY <2>1, <2>2, <2>3 DEF Issued
  <1> QED
    BY <1>1, <1>2 DEF AckInv, NoNews

(* An item is written at a revision newer than any the user knows. *)
LEMMA BeginPutKeeps ==
  ASSUME Shape, AckInv, NEW o \in Item, BeginPut(o)
  PROVE  AckInv'
  <1>1. mem.key # 0 /\ mem' = mem /\ disk' = disk /\ o \in Object
    BY DEF BeginPut, Free, Unlocked, SameMemory, SameFiles, Object
  <1>2. op'.kind = "put" /\ op'.at \in {"body", "chunk"} /\ op'.id = o /\ op'.rev = clock'
        /\ clock' = clock + 1
    BY BeginFields DEF BeginPut
  <1>3. NoNews
    BY <1>1, SameAckNews, UndecidedNews DEF BeginPut, SameAck
  <1>4. Onward /\ acked'[o].rev <= clock'
    BY <1>1, <1>2, <1>3 DEF Onward, AckInv, Issued, NoNews
  <1>5. ~BodyWritten' /\ ~NoTombNow'
    BY <1>2 DEF BodyWritten, NoTombNow
  <1>6. Doing'
    BY <1>1, <1>2, <1>4, <1>5 DEF Doing
  <1> QED
    BY <1>1, <1>2, <1>3, <1>4, <1>6, BeginsQuietly

(* A rule may be written over its tombstone, which goes before the user hears of it. *)
LEMMA BeginPutRuleKeeps ==
  ASSUME Shape, AckInv, NEW o \in Rule, BeginPutRule(o)
  PROVE  AckInv'
  <1>1. mem.key # 0 /\ mem' = mem /\ disk' = disk /\ o \in Object
    BY DEF BeginPutRule, Unlocked, Free, SameMemory, SameFiles, Object
  <1>2. op'.kind = "putRule" /\ op'.at = "body" /\ op'.id = o /\ op'.rev = clock'
        /\ clock' = clock + 1
    BY BeginFields DEF BeginPutRule
  <1>3. NoNews
    BY <1>1, SameAckNews, UndecidedNews DEF BeginPutRule, SameAck
  <1>4. Onward /\ acked'[o].rev <= clock'
    BY <1>1, <1>2, <1>3 DEF Onward, AckInv, Issued, NoNews
  <1>5. ~BodyWritten' /\ ~NoTombNow'
    BY <1>2 DEF BodyWritten, NoTombNow
  <1>6. Doing'
    BY <1>1, <1>2, <1>4, <1>5 DEF Doing
  <1> QED
    BY <1>1, <1>2, <1>3, <1>4, <1>6, BeginsQuietly

(* A deletion takes back what the user counts on before it touches a file. *)
LEMMA BeginDeletesKeep ==
  ASSUME Shape, AckInv, NEW o \in Object, BeginDelete(o) \/ BeginDeleteRule(o)
  PROVE  AckInv'
  <1>1. mem.key # 0 /\ disk' = disk /\ Undecided(o)
    BY DEF BeginDelete, BeginDeleteRule, Unlocked, Free, SameFiles
  <1>2. mem'.key = mem.key
    <2>1. mem' = mem \/ \E e : mem' = [mem EXCEPT !.index[o] = e]
      BY DEF BeginDelete, BeginDeleteRule, SameMemory
    <2> QED
      BY <2>1 DEF Shape, MemShape
  <1>3. op'.kind \in {"delete", "deleteRule"} /\ op'.at \in {"body", "tomb"} /\ op'.id = o
        /\ op'.deleted /\ op'.rev = clock' /\ clock' = clock + 1
    <2>1. CASE BeginDelete(o)
      <3>1. op'.kind = "delete" /\ op'.at = "body" /\ op'.id = o /\ op'.deleted = TRUE
            /\ op'.rev = clock' /\ clock' = clock + 1
        BY <2>1, BeginFields DEF BeginDelete
      <3> QED
        BY <3>1
    <2>2. CASE BeginDeleteRule(o)
      <3>1. op'.kind = "deleteRule" /\ op'.at = "tomb" /\ op'.id = o /\ op'.deleted = TRUE
            /\ op'.rev = clock' /\ clock' = clock + 1
        BY <2>2, BeginFields DEF BeginDeleteRule
      <3> QED
        BY <3>1
    <2> QED
      BY <2>1, <2>2
  <1>4. NoNews /\ acked'[o].state = "none"
    BY <1>1, UndecidedNews
  <1>5. Onward
    BY <1>3 DEF Onward, AckInv, Issued
  <1>6. ~BodyWritten' /\ ~NoTombNow'
    BY <1>3 DEF BodyWritten, NoTombNow
  <1>7. Doing'
    BY <1>1, <1>2, <1>3, <1>4, <1>6 DEF Doing
  <1> QED
    BY <1>1, <1>3, <1>4, <1>5, <1>7, BeginsQuietly

(* So does an import. *)
LEMMA BeginImportKeeps ==
  ASSUME Shape, AckInv, NEW o \in Object, BeginImport(o)
  PROVE  AckInv'
  <1>1. mem.key # 0 /\ mem' = mem /\ disk' = disk /\ Undecided(o)
    BY DEF BeginImport, Free, SameMemory, SameFiles
  <1>2. PICK deleted \in BOOLEAN,
             a \in {disk[Body(o)].attach} \cup (IF o \in Item THEN FreshAttach ELSE {}) :
          LET old == disk[Body(o)].attach
          IN  /\ Issue
              /\ op' = [Idle EXCEPT !.kind = "import", !.id = o, !.rev = clock',
                          !.deleted = deleted, !.attach = a,
                          !.drop = IF a = old THEN NoAttach ELSE old,
                          !.at = IF a = old \/ old = NoAttach THEN "body" ELSE "dropChunk",
                          !.todo = IF a = old THEN {} ELSE {Meta(a), Chunk(a)}]
    BY DEF BeginImport
  <1>3. op'.kind = "import" /\ op'.at \in {"body", "dropChunk"} /\ op'.id = o /\ op'.rev = clock'
    BY <1>2 DEF Idle
  <1>4. clock' = clock + 1
    BY <1>2 DEF Issue
  <1>5. NoNews /\ acked'[o].state = "none"
    BY <1>1, UndecidedNews
  <1>6. Onward
    BY <1>4 DEF Onward, AckInv, Issued
  <1>7. ~BodyWritten' /\ ~NoTombNow'
    BY <1>3 DEF BodyWritten, NoTombNow
  <1>8. Doing'
    BY <1>1, <1>3, <1>5, <1>7 DEF Doing
  <1> QED
    BY <1>1, <1>3, <1>5, <1>6, <1>8, BeginsQuietly

(* The sync engine removes only what has a tombstone. *)
LEMMA BeginHardDeleteKeeps ==
  ASSUME Shape, AckInv, NEW o \in Object, BeginHardDelete(o)
  PROVE  AckInv'
  <1>1. /\ mem.key # 0 /\ mem' = mem /\ disk' = disk /\ acked' = acked /\ clock' = clock
        /\ Present(Tomb(o))
    BY DEF BeginHardDelete, Unlocked, Free, SameMemory, SameFiles, SameAck, NothingElse, Opens, Present
  <1>2. PICK d : op' = [Idle EXCEPT !.kind = "hardDelete", !.at = "noBody", !.id = o, !.drop = d]
    BY DEF BeginHardDelete
  <1>3. op'.kind = "hardDelete" /\ op'.at = "noBody" /\ op'.id = o /\ op'.rev = 0
    BY <1>2 DEF Idle
  <1>4. Onward
    BY <1>1 DEF Onward, AckInv, Issued
  <1>5. ~BodyWritten' /\ ~NoTombNow'
    BY <1>3 DEF BodyWritten, NoTombNow
  <1>6. disk'[Tomb(o)].key # 0
    BY <1>1 DEF Present
  <1>7. Doing'
    BY <1>1, <1>3, <1>5, <1>6 DEF Doing, Present
  <1> QED
    BY <1>1, <1>3, <1>4, <1>7, SameAckNews, BeginsQuietly

(* The second answer to a deletion. *)
LEMMA DeleteAgainKeeps ==
  ASSUME Shape, AckInv, NEW o \in Object, DeleteAgain(o)
  PROVE  AckInv'
  <1>1. /\ disk' = disk /\ clock' = clock /\ op' = Idle /\ op = Idle
        /\ acked' = [acked EXCEPT ![o] = [state |-> "deleted", rev |-> disk[Body(o)].rev]]
    BY DEF DeleteAgain, Unlocked, Free, SameFiles, NothingElse, Told
  <1>2. acked'[o].state = "deleted" /\ acked'[o].rev = disk[Body(o)].rev
        /\ \A x \in Object : x # o => acked'[x] = acked[x]
    BY <1>1 DEF AckInv
  <1>3. acked' = [x \in Object |-> acked'[x]]
    BY <1>1 DEF AckInv
  <1>4. Held'
    BY <1>1, <1>2 DEF AckInv, Held, Present
  <1>5. \A x \in Object : acked'[x].rev \in Nat /\ acked'[x].rev <= clock
    BY <1>2 DEF AckInv, Issued
  <1>6. Issued'
    BY <1>1, <1>5 DEF AckInv, Issued
  <1>7. Doing'
    BY <1>1, IdleDoes
  <1> QED
    BY <1>3, <1>4, <1>6, <1>7 DEF AckInv

(* Unlocking and recovering begin without a word about any object. *)
LEMMA KeyBeginsKeep ==
  ASSUME Shape, AckInv, BeginUnlock \/ BeginRecover
  PROVE  AckInv'
  <1>1. disk' = disk /\ acked' = acked /\ clock' = clock
    BY DEF BeginUnlock, BeginRecover, SameFiles, SameAck, NothingElse
  <1>2. /\ op'.kind \in {"unlock", "recover"} /\ op'.at = "load" /\ op'.rev = 0
        /\ op'.kind = "recover" => op'.key # 0
    <2>1. CASE BeginUnlock
      BY <2>1 DEF BeginUnlock, Idle
    <2>2. CASE BeginRecover
      <3>1. keys + 1 # 0
        BY DEF Shape
      <3> QED
        BY <2>2, <3>1 DEF BeginRecover, Idle
    <2> QED
      BY <2>1, <2>2
  <1>3. Onward
    BY <1>1 DEF Onward, AckInv, Issued
  <1>4. ~BodyWritten' /\ ~NoTombNow' /\ op'.kind \notin MemKinds
    BY <1>2 DEF BodyWritten, NoTombNow, MemKinds
  <1>5. Doing'
    BY <1>2, <1>4 DEF Doing
  <1> QED
    BY <1>1, <1>2, <1>3, <1>5, SameAckNews, BeginsQuietly

(* A creation voids what the user was told. *)
LEMMA BeginInitKeeps ==
  ASSUME Shape, AckInv, NEW reset, BeginInit(reset)
  PROVE  AckInv'
  <1>1. /\ disk' = disk /\ clock' = clock
        /\ acked' = [o \in Object |-> [state |-> "none", rev |-> 0]]
    BY DEF BeginInit, SameFiles
  <1>2. op'.kind = "init" /\ op'.at \in {"wipe", "envelope"} /\ op'.rev = 0
    <2>1. PICK s \in {"wipe", "envelope"} : \E t :
            op' = [Idle EXCEPT !.kind = "init", !.key = keys', !.at = s, !.todo = t]
      BY DEF BeginInit
    <2> QED
      BY <2>1 DEF Idle
  <1>3. Held' /\ acked' = [o \in Object |-> acked'[o]]
    BY <1>1 DEF Held
  <1>4. Issued'
    BY <1>1, <1>2 DEF AckInv, Issued
  <1>5. ~BodyWritten' /\ ~NoTombNow' /\ op'.kind \notin MemKinds
    BY <1>2 DEF BodyWritten, NoTombNow, MemKinds
  <1>6. Doing'
    BY <1>1, <1>2, <1>5 DEF Doing
  <1> QED
    BY <1>3, <1>4, <1>6 DEF AckInv

(* What a creation removes, nobody counts on. *)
LEMMA WipeKeeps ==
  ASSUME Shape, AckInv, Wipe
  PROVE  AckInv'
  <1>1. /\ op.kind = "init" /\ op.at = "wipe" /\ acked' = acked /\ clock' = clock
    BY DEF Wipe, Running, SameAck, NothingElse
  <1>2. \A o \in Object : acked[o].state # "live"
    BY <1>1 DEF AckInv, Doing
  <1>3. op'.kind = "init" /\ op'.at = "wipe" /\ op'.rev = op.rev
    <2>1. PICK t : op' = [op EXCEPT !.todo = t]
      BY DEF Wipe
    <2> QED
      BY <1>1, <2>1 DEF Shape, Shaped
  <1>4. \A o \in Object : disk'[Body(o)] = disk[Body(o)] \/ disk'[Body(o)].rev = 0
    <2>1. PICK n : Write(n, Missing(n))
      BY DEF Wipe, Remove, Write
    <2>2. \A o \in Object : disk'[Body(o)] = disk[Body(o)]
                            \/ (Body(o) = n /\ disk'[Body(o)] = Missing(n))
      BY <2>1, WriteEffect, ObjectNames DEF Shape
    <2> QED
      BY <2>2, MissingBody
  <1>5. Held'
    BY <1>1, <1>2 DEF Held
  <1>6. Issued'
    <2>1. \A o \in Object : disk'[Body(o)].rev \in Nat /\ disk'[Body(o)].rev <= clock
      BY <1>4 DEF AckInv, Issued
    <2> QED
      BY <1>1, <1>3, <2>1 DEF AckInv, Issued
  <1>7. ~BodyWritten' /\ ~NoTombNow' /\ op'.kind \notin MemKinds
    BY <1>3 DEF BodyWritten, NoTombNow, MemKinds
  <1>8. Doing'
    BY <1>1, <1>2, <1>3, <1>7 DEF Doing
  <1> QED
    BY <1>1, <1>5, <1>6, <1>8 DEF AckInv

(* Every step keeps what the user counts on. *)
LEMMA AckInvPreserved == Shape /\ AckInv /\ [Next]_vars => AckInv'
  <1> SUFFICES ASSUME Shape, AckInv, [Next]_vars PROVE AckInv'
    OBVIOUS
  <1>1. CASE ItemCommand
    <2>1. Item \subseteq Object
      BY DEF Object
    <2> QED
      BY <1>1, <2>1, BeginPutKeeps, BeginDeletesKeep, DeleteAgainKeeps DEF ItemCommand
  <1>2. CASE RuleCommand
    <2>1. Rule \subseteq Object
      BY DEF Object
    <2> QED
      BY <1>2, <2>1, BeginPutRuleKeeps, BeginDeletesKeep DEF RuleCommand
  <1>3. CASE SyncCommand
    BY <1>3, BeginImportKeeps, BeginHardDeleteKeeps DEF SyncCommand
  <1>4. CASE WriteStep
    BY <1>4, MemGoingsKeep, WriteBodyKeeps, WriteTombKeeps, ClearTombKeeps, TellsKeep, EndingsKeep
       DEF WriteStep, MemGoings, Endings
  <1>5. CASE PurgeStep
    BY <1>5, PurgeKeeps, OtherGoingsKeep DEF PurgeStep, OtherGoings
  <1>6. CASE KeyStep
    BY <1>6, OtherGoingsKeep, EndingsKeep, WipeKeeps DEF KeyStep, OtherGoings, Endings
  <1>7. CASE List \/ Lock \/ Unlock \/ Crash \/ WriteFails \/ LoseIndex \/ GraceEnds
    BY <1>7, EndingsKeep DEF Endings
  <1>8. CASE BeginUnlock \/ BeginRecover \/ \E reset \in BOOLEAN : BeginInit(reset)
    BY <1>8, KeyBeginsKeep, BeginInitKeeps
  <1>9. CASE Load
    BY <1>9, OtherGoingsKeep DEF OtherGoings
  <1>10. CASE UNCHANGED vars
    BY <1>10 DEF vars, AckInv, Held, Doing, Issued, BodyWritten, NoTombNow, Present
  <1>11. CASE AgainStep
    BY <1>11, AgainKeeps
  <1> QED
    BY <1>1, <1>2, <1>3, <1>4, <1>5, <1>6, <1>7, <1>8, <1>9, <1>10, <1>11 DEF Next

(* Nothing has been said yet, and nothing is there. *)
LEMMA AckStart == Init => AckInv
  <1> SUFFICES ASSUME Init PROVE AckInv
    OBVIOUS
  <1>1. acked = [o \in Object |-> [state |-> "none", rev |-> 0]] /\ op = Idle /\ clock = 0
    BY DEF Init
  <1>2. \A o \in Object : disk[Body(o)].rev = 0
    BY ObjectNames, MissingBody DEF Init, Kept
  <1>3. Held /\ acked = [o \in Object |-> acked[o]]
    BY <1>1 DEF Held
  <1>4. op.kind = "idle" /\ op.at = "idle" /\ op.rev = 0
    BY <1>1 DEF Idle
  <1>5. Issued
    BY <1>1, <1>2, <1>4 DEF Issued
  <1>6. Doing
    BY <1>4 DEF Doing, MemKinds, NoTombNow, BodyWritten
  <1> QED
    BY <1>3, <1>5, <1>6 DEF AckInv

(* What the user was told is stored stays stored, at that revision or a later one, through     *)
(* every crash, failed write, purge, loss of the index, import and recovery, complete or not:  *)
(* the file of an object goes only with a tombstone, which no object the user counts on has,   *)
(* those brought back under one apart.                                                         *)
THEOREM AckedAlwaysSurvives == Spec => []AckedSurvives
  <1>1. Init => Shape /\ AckInv
    BY KeysStart, AckStart
  <1>2. Shape /\ AckInv /\ [Next]_vars => Shape' /\ AckInv'
    BY ShapePreserved, AckInvPreserved
  <1>3. AckInv => AckedSurvives
    BY DEF AckInv, Held, Issued, AckedSurvives, Stored
  <1> QED
    BY <1>1, <1>2, <1>3, PTL DEF Spec

================================================================================
