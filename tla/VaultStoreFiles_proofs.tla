------------------------- MODULE VaultStoreFiles_proofs -------------------------
(***************************************************************************)
(* Proofs of what ties the files of a vault to each other: the index never *)
(* announces what is not there (IndexNeverAhead), an attachment that an    *)
(* item refers to can be exported (AttachmentsWhole), and a deletion the   *)
(* user was told of stays recorded (DeletionRecorded).  None is inductive: *)
(* each speaks of the files between commands, and is made true by what a   *)
(* command under way has still in hand, in its own fields and in memory.   *)
(***************************************************************************)
EXTENDS VaultStore_proofs

(* The files of a kind are left alone. *)
SameBodies == \A o \in Object : disk'[Body(o)] = disk[Body(o)]
SameTombs  == \A o \in Object : disk'[Tomb(o)] = disk[Tomb(o)]
SameMetas  == \A a \in Attach : disk'[Meta(a)] = disk[Meta(a)]
SameChunks == \A a \in Attach : disk'[Chunk(a)] = disk[Chunk(a)]
SameIndex  == disk'[Index] = disk[Index]

SameAttachments == SameMetas /\ SameChunks
SameAll == SameBodies /\ SameTombs /\ SameAttachments /\ SameIndex

(* The command under way, but for its step. *)
SameWork ==
  /\ op'.kind = op.kind /\ op'.id = op.id /\ op'.rev = op.rev /\ op'.deleted = op.deleted
  /\ op'.attach = op.attach /\ op'.drop = op.drop /\ op'.key = op.key
  /\ op'.entries = op.entries /\ op'.todo = op.todo

(* Nothing happens but on the disk and in the command. *)
Quiet == /\ mem' = mem /\ acked' = acked /\ clock' = clock
         /\ interrupted' = interrupted /\ synced' = synced

--------------------------------------------------------------------------------
(***************************************************************************)
(* What a write or a removal does.                                         *)
(***************************************************************************)

(* The files of an attachment are its own. *)
LEMMA AttachNames ==
  ASSUME NEW a \in Attach
  PROVE  /\ Meta(a) \in Name /\ Chunk(a) \in Name
         /\ \A x : Meta(a) = Meta(x) => a = x
         /\ \A x : Chunk(a) = Chunk(x) => a = x
         /\ \A x : Meta(a) # Chunk(x) /\ Chunk(a) # Meta(x)
         /\ \A x : Meta(a) # Body(x) /\ Meta(a) # Tomb(x)
         /\ \A x : Chunk(a) # Body(x) /\ Chunk(a) # Tomb(x)
         /\ Meta(a) \notin Fixed \cup {Index} /\ Chunk(a) \notin Fixed \cup {Index}
  BY DEF Name, Metas, Chunks, Meta, Chunk, Body, Tomb, Fixed, Header, Envelope, Index

(* So are those of an object. *)
LEMMA OwnNames ==
  ASSUME NEW o \in Object
  PROVE  /\ Body(o) \in Name /\ Tomb(o) \in Name
         /\ \A x : Body(o) = Body(x) => o = x
         /\ \A x : Tomb(o) = Tomb(x) => o = x
         /\ \A x : Body(o) # Tomb(x) /\ Tomb(o) # Body(x)
         /\ \A x : Body(o) # Meta(x) /\ Body(o) # Chunk(x)
         /\ \A x : Tomb(o) # Meta(x) /\ Tomb(o) # Chunk(x)
         /\ Body(o) \notin Fixed \cup {Index} /\ Tomb(o) \notin Fixed \cup {Index}
  BY DEF Name, Bodies, Tombs, Meta, Chunk, Body, Tomb, Fixed, Header, Envelope, Index

(* The index is one file, and none of the others. *)
LEMMA IndexName ==
  /\ Index \in Name /\ Index \notin Fixed
  /\ \A x : Index # Body(x) /\ Index # Tomb(x) /\ Index # Meta(x) /\ Index # Chunk(x)
  BY DEF Name, Index, Fixed, Body, Tomb, Meta, Chunk, Header, Envelope

(* One file changes. *)
LEMMA OneFile ==
  ASSUME DiskShape, NEW n, NEW b, Write(n, b)
  PROVE  /\ n \in Name => disk'[n] = b
         /\ \A m \in Name : m # n => disk'[m] = disk[m]
  BY DEF DiskShape, Write

(* A removal writes what is there of a missing file. *)
LEMMA RemovalWrites == \A n : Remove(n) => Write(n, Missing(n))
  BY DEF Remove, Write

(* What is there of each missing file. *)
LEMMA MissingBlobs ==
  /\ \A o \in Object : Missing(Body(o)) = NoBody /\ Missing(Tomb(o)) = NoTomb
  /\ \A a \in Attach : Missing(Meta(a)) = NoMeta /\ Missing(Chunk(a)) = NoFile
  /\ Missing(Index) = NoIndex
  <1>1. ASSUME NEW o \in Object PROVE Missing(Body(o)) = NoBody
    <2>1. Body(o) \in Bodies
      BY DEF Bodies
    <2> QED
      BY <2>1, Names DEF Missing, Objs
  <1>2. ASSUME NEW o \in Object PROVE Missing(Tomb(o)) = NoTomb
    <2>1. Tomb(o) \in Tombs
      BY DEF Tombs
    <2> QED
      BY <2>1, Names DEF Missing, Objs
  <1>3. ASSUME NEW a \in Attach PROVE Missing(Meta(a)) = NoMeta
    <2>1. Meta(a) \in Metas
      BY DEF Metas
    <2> QED
      BY <2>1, Names DEF Missing, Objs
  <1>4. ASSUME NEW a \in Attach PROVE Missing(Chunk(a)) = NoFile
    BY AttachNames DEF Missing, Bodies, Tombs, Metas
  <1>5. Missing(Index) = NoIndex
    BY IndexName DEF Missing, Bodies, Tombs, Metas
  <1> QED
    BY <1>1, <1>2, <1>3, <1>4, <1>5

(* The disk is not touched. *)
LEMMA NoFileChanges == disk' = disk => SameAll
  BY DEF SameAll, SameAttachments, SameBodies, SameTombs, SameMetas, SameChunks, SameIndex

(* The body of an object is written ... *)
LEMMA BodyWrite ==
  ASSUME DiskShape, NEW o \in Object, NEW b, Write(Body(o), b)
  PROVE  /\ disk'[Body(o)] = b
         /\ \A x \in Object : x # o => disk'[Body(x)] = disk[Body(x)]
         /\ SameTombs /\ SameAttachments /\ SameIndex
  BY OneFile, OwnNames, AttachNames, IndexName
     DEF SameTombs, SameAttachments, SameMetas, SameChunks, SameIndex

(* ... or its tombstone ... *)
LEMMA TombWrite ==
  ASSUME DiskShape, NEW o \in Object, NEW b, Write(Tomb(o), b)
  PROVE  /\ disk'[Tomb(o)] = b
         /\ \A x \in Object : x # o => disk'[Tomb(x)] = disk[Tomb(x)]
         /\ SameBodies /\ SameAttachments /\ SameIndex
  BY OneFile, OwnNames, AttachNames, IndexName
     DEF SameBodies, SameAttachments, SameMetas, SameChunks, SameIndex

(* ... or the metadata of an attachment ... *)
LEMMA MetaWrite ==
  ASSUME DiskShape, NEW a, NEW b, Write(Meta(a), b)
  PROVE  /\ a \in Attach => disk'[Meta(a)] = b
         /\ \A x \in Attach : x # a => disk'[Meta(x)] = disk[Meta(x)]
         /\ SameBodies /\ SameTombs /\ SameChunks /\ SameIndex
  BY OneFile, OwnNames, AttachNames, IndexName DEF SameBodies, SameTombs, SameChunks, SameIndex

(* ... or its chunks ... *)
LEMMA ChunkWrite ==
  ASSUME DiskShape, NEW a, NEW b, Write(Chunk(a), b)
  PROVE  /\ a \in Attach => disk'[Chunk(a)] = b
         /\ \A x \in Attach : x # a => disk'[Chunk(x)] = disk[Chunk(x)]
         /\ SameBodies /\ SameTombs /\ SameMetas /\ SameIndex
  BY OneFile, OwnNames, AttachNames, IndexName DEF SameBodies, SameTombs, SameMetas, SameIndex

(* ... or the index ... *)
LEMMA IndexWrite ==
  ASSUME DiskShape, NEW b, Write(Index, b)
  PROVE  disk'[Index] = b /\ SameBodies /\ SameTombs /\ SameAttachments
  BY OneFile, OwnNames, AttachNames, IndexName
     DEF SameBodies, SameTombs, SameAttachments, SameMetas, SameChunks

(* ... or header or envelope. *)
LEMMA FixedWrite ==
  ASSUME DiskShape, NEW n \in Fixed, NEW b, Write(n, b)
  PROVE  SameAll
  BY OneFile, OwnNames, AttachNames, IndexName
     DEF SameAll, SameBodies, SameTombs, SameAttachments, SameMetas, SameChunks, SameIndex

(* A command that goes on to another step. *)
LEMMA WorkGoesOn ==
  ASSUME Shaped(op), NEW s, op' = [op EXCEPT !.at = s]
  PROVE  SameWork /\ op'.at = s
  BY DEF Shaped, SameWork

(* No command: the fields of an idle daemon. *)
LEMMA NoWork ==
  /\ Idle.kind = "idle" /\ Idle.at = "idle" /\ Idle.id = NoObject /\ Idle.rev = 0
  /\ Idle.attach = NoAttach /\ Idle.drop = NoAttach /\ Idle.key = 0
  /\ Idle.entries = Empty /\ Idle.todo = {}
  BY DEF Idle

--------------------------------------------------------------------------------
(***************************************************************************)
(* The steps, as what they leave and what they change.                     *)
(***************************************************************************)

(* The chunks of a new attachment. *)
LEMMA PutChunksFx ==
  ASSUME Shape, PutChunks
  PROVE  /\ op.kind = "put" /\ op.at = "chunk" /\ SameWork /\ op'.at = "meta" /\ Quiet
         /\ SameBodies /\ SameTombs /\ SameMetas /\ SameIndex
         /\ op.attach \in Attach => disk'[Chunk(op.attach)] = OwnKey
         /\ \A x \in Attach : x # op.attach => disk'[Chunk(x)] = disk[Chunk(x)]
  <1>1. Write(Chunk(op.attach), OwnKey) /\ op' = [op EXCEPT !.at = "meta"]
    BY DEF PutChunks, Goto
  <1>2. op.kind = "put" /\ op.at = "chunk" /\ Quiet
    BY DEF PutChunks, Running, Quiet, SameMemory, SameAck, NothingElse
  <1> QED
    BY <1>1, <1>2, ChunkWrite, WorkGoesOn DEF Shape

(* Its metadata. *)
LEMMA PutMetaFx ==
  ASSUME Shape, PutMeta
  PROVE  /\ op.kind = "put" /\ op.at = "meta" /\ SameWork /\ Quiet
         /\ op'.at = IF op.drop = NoAttach THEN "body" ELSE "dropChunk"
         /\ SameBodies /\ SameTombs /\ SameChunks /\ SameIndex
         /\ op.attach \in Attach => disk'[Meta(op.attach)].key = mem.key
         /\ \A x \in Attach : x # op.attach => disk'[Meta(x)] = disk[Meta(x)]
  <1> DEFINE b == [key |-> mem.key, inner |-> mem.key]
             s == IF op.drop = NoAttach THEN "body" ELSE "dropChunk"
  <1>1. Write(Meta(op.attach), b) /\ op' = [op EXCEPT !.at = s]
    BY DEF PutMeta, Goto
  <1>2. op.kind = "put" /\ op.at = "meta" /\ Quiet
    BY DEF PutMeta, Running, Quiet, SameMemory, SameAck, NothingElse
  <1>3. b.key = mem.key
    OBVIOUS
  <1> HIDE DEF b, s
  <1>4. SameWork /\ op'.at = s
    BY <1>1, WorkGoesOn DEF Shape
  <1>5. /\ op.attach \in Attach => disk'[Meta(op.attach)] = b
        /\ \A x \in Attach : x # op.attach => disk'[Meta(x)] = disk[Meta(x)]
        /\ SameBodies /\ SameTombs /\ SameChunks /\ SameIndex
    BY <1>1, MetaWrite DEF Shape
  <1> QED
    BY <1>2, <1>3, <1>4, <1>5 DEF s

(* The chunks of an attachment that goes. *)
LEMMA DropChunksFx ==
  ASSUME Shape, DropChunks
  PROVE  /\ op.at = "dropChunk" /\ SameWork /\ op'.at = "dropMeta" /\ Quiet
         /\ SameBodies /\ SameTombs /\ SameMetas /\ SameIndex
         /\ \A x \in Attach : x # op.drop => disk'[Chunk(x)] = disk[Chunk(x)]
  <1>1. op.at = "dropChunk" /\ op' = [op EXCEPT !.at = "dropMeta"] /\ Quiet
    BY DEF DropChunks, Goto, Quiet, SameMemory, SameAck, NothingElse
  <1>2. SameWork /\ op'.at = "dropMeta"
    BY <1>1, WorkGoesOn DEF Shape
  <1>3. disk' = disk \/ Write(Chunk(op.drop), Missing(Chunk(op.drop)))
    BY RemovalWrites DEF DropChunks, SameFiles
  <1>4. CASE disk' = disk
    BY <1>1, <1>2, <1>4, NoFileChanges DEF SameAll, SameAttachments, SameChunks
  <1>5. CASE Write(Chunk(op.drop), Missing(Chunk(op.drop)))
    BY <1>1, <1>2, <1>5, ChunkWrite DEF Shape
  <1> QED
    BY <1>3, <1>4, <1>5

(* The metadata of an attachment that an update replaces. *)
LEMMA DropReplacedFx ==
  ASSUME Shape, DropReplaced
  PROVE  /\ op.kind \in {"put", "import"} /\ op.at = "dropMeta" /\ SameWork /\ op'.at = "body"
         /\ Quiet /\ SameBodies /\ SameTombs /\ SameChunks /\ SameIndex
         /\ \A x \in Attach : x # op.drop => disk'[Meta(x)] = disk[Meta(x)]
  <1>1. Write(Meta(op.drop), Missing(Meta(op.drop))) /\ op' = [op EXCEPT !.at = "body"]
    BY RemovalWrites DEF DropReplaced, Goto
  <1>2. op.kind \in {"put", "import"} /\ op.at = "dropMeta" /\ Quiet
    BY DEF DropReplaced, Quiet, SameMemory, SameAck, NothingElse
  <1> QED
    BY <1>1, <1>2, MetaWrite, WorkGoesOn DEF Shape

(* A body. *)
LEMMA WriteBodyFx ==
  ASSUME Shape, WriteBody, op.id \in Object
  PROVE  /\ op.kind \in {"put", "delete", "putRule", "import"} /\ op.at = "body"
         /\ SameWork /\ op'.at = AfterBody /\ Quiet
         /\ disk'[Body(op.id)].key = mem.key /\ disk'[Body(op.id)].rev = op.rev
         /\ disk'[Body(op.id)].deleted = op.deleted /\ disk'[Body(op.id)].attach = op.attach
         /\ \A x \in Object : x # op.id => disk'[Body(x)] = disk[Body(x)]
         /\ SameTombs /\ SameAttachments /\ SameIndex
  <1> DEFINE b == [key |-> mem.key, rev |-> op.rev, deleted |-> op.deleted, attach |-> op.attach]
  <1>1. /\ op.kind \in {"put", "delete", "putRule", "import"} /\ op.at = "body" /\ Quiet
        /\ Write(Body(op.id), b) /\ op' = [op EXCEPT !.at = AfterBody]
    BY DEF WriteBody, Goto, Quiet, SameMemory, SameAck, NothingElse
  <1>2. b.key = mem.key /\ b.rev = op.rev /\ b.deleted = op.deleted /\ b.attach = op.attach
    OBVIOUS
  <1> HIDE DEF b
  <1>3. SameWork /\ op'.at = AfterBody
    BY <1>1, WorkGoesOn DEF Shape
  <1>4. /\ disk'[Body(op.id)] = b
        /\ \A x \in Object : x # op.id => disk'[Body(x)] = disk[Body(x)]
        /\ SameTombs /\ SameAttachments /\ SameIndex
    BY <1>1, BodyWrite DEF Shape
  <1> QED
    BY <1>1, <1>2, <1>3, <1>4

(* A tombstone. *)
LEMMA WriteTombFx ==
  ASSUME Shape, WriteTomb, op.id \in Object
  PROVE  /\ op.kind \in {"delete", "deleteRule", "import"} /\ op.at = "tomb" /\ SameWork /\ Quiet
         /\ op'.at = IF op.kind = "import" THEN "meta" ELSE "index"
         /\ disk'[Tomb(op.id)].key = mem.key
         /\ \A x \in Object : x # op.id => disk'[Tomb(x)] = disk[Tomb(x)]
         /\ SameBodies /\ SameAttachments /\ SameIndex
  <1> DEFINE b == [key |-> mem.key, rev |-> op.rev, old |-> FALSE]
             s == IF op.kind = "import" THEN "meta" ELSE "index"
  <1>1. /\ op.kind \in {"delete", "deleteRule", "import"} /\ op.at = "tomb" /\ Quiet
        /\ Write(Tomb(op.id), b) /\ op' = [op EXCEPT !.at = s]
    BY DEF WriteTomb, Goto, Quiet, SameMemory, SameAck, NothingElse
  <1>2. b.key = mem.key
    OBVIOUS
  <1> HIDE DEF b, s
  <1>3. SameWork /\ op'.at = s
    BY <1>1, WorkGoesOn DEF Shape
  <1>4. /\ disk'[Tomb(op.id)] = b
        /\ \A x \in Object : x # op.id => disk'[Tomb(x)] = disk[Tomb(x)]
        /\ SameBodies /\ SameAttachments /\ SameIndex
    BY <1>1, TombWrite DEF Shape
  <1> QED
    BY <1>1, <1>2, <1>3, <1>4 DEF s

(* The tombstone of a rule that is written again. *)
LEMMA ClearTombFx ==
  ASSUME Shape, ClearTomb, op.id \in Object
  PROVE  /\ op.kind = "putRule" /\ op.at = "noTomb" /\ SameWork /\ op'.at = "index" /\ Quiet
         /\ disk'[Tomb(op.id)].key = 0
         /\ \A x \in Object : x # op.id => disk'[Tomb(x)] = disk[Tomb(x)]
         /\ SameBodies /\ SameAttachments /\ SameIndex
  <1>1. /\ op.kind = "putRule" /\ op.at = "noTomb" /\ Quiet
        /\ Write(Tomb(op.id), Missing(Tomb(op.id))) /\ op' = [op EXCEPT !.at = "index"]
    BY RemovalWrites DEF ClearTomb, Running, Goto, Quiet, SameMemory, SameAck, NothingElse
  <1>2. Missing(Tomb(op.id)).key = 0
    BY MissingBlobs DEF NoTomb
  <1> QED
    BY <1>1, <1>2, TombWrite, WorkGoesOn DEF Shape

(* An attachment that comes with an import: its metadata ... *)
LEMMA ImportMetaFx ==
  ASSUME Shape, ImportMeta
  PROVE  /\ op.kind = "import" /\ op.at = "meta" /\ SameWork /\ op'.at = "chunk" /\ Quiet
         /\ SameBodies /\ SameTombs /\ SameChunks /\ SameIndex
         /\ op.todo = {} => SameMetas
         /\ op.todo # {} /\ op.attach \in Attach => disk'[Meta(op.attach)].key = mem.key
         /\ \A x \in Attach : x # op.attach => disk'[Meta(x)] = disk[Meta(x)]
  <1> DEFINE b == [key |-> mem.key, inner |-> mem.key]
  <1>1. op.kind = "import" /\ op.at = "meta" /\ Quiet /\ op' = [op EXCEPT !.at = "chunk"]
    BY DEF ImportMeta, Running, Goto, Quiet, SameMemory, SameAck, NothingElse
  <1>2. SameWork /\ op'.at = "chunk"
    BY <1>1, WorkGoesOn DEF Shape
  <1>3. CASE op.todo = {}
    <2>1. SameAll
      BY <1>3, NoFileChanges DEF ImportMeta, SameFiles
    <2> QED
      BY <1>1, <1>2, <1>3, <2>1 DEF SameAll, SameAttachments, SameMetas
  <1>4. CASE op.todo # {}
    <2>1. Write(Meta(op.attach), b) /\ b.key = mem.key
      BY <1>4 DEF ImportMeta
    <2> HIDE DEF b
    <2> QED
      BY <1>1, <1>2, <1>4, <2>1, MetaWrite DEF Shape
  <1> QED
    BY <1>3, <1>4

(* What the user is told at the end. *)
News == IF op.deleted THEN "deleted"
        ELSE IF op.kind # "putRule" /\ Present(Tomb(op.id)) THEN "revived" ELSE "live"

(* ... and its chunks; then the user is told. *)
LEMMA ImportChunksFx ==
  ASSUME Shape, ImportChunks
  PROVE  /\ op.kind = "import" /\ op.at = "chunk" /\ op' = Idle
         /\ mem' = mem /\ clock' = clock /\ interrupted' = interrupted /\ synced' = synced
         /\ acked' = [acked EXCEPT ![op.id] =
                        [state |-> News, rev |-> op.rev]]
         /\ SameBodies /\ SameTombs /\ SameMetas /\ SameIndex
         /\ op.todo = {} => SameChunks
         /\ op.todo # {} /\ op.attach \in Attach => disk'[Chunk(op.attach)] = OwnKey
         /\ \A x \in Attach : x # op.attach => disk'[Chunk(x)] = disk[Chunk(x)]
  <1>1. /\ op.kind = "import" /\ op.at = "chunk" /\ op' = Idle
        /\ mem' = mem /\ clock' = clock /\ interrupted' = interrupted /\ synced' = synced
        /\ acked' = [acked EXCEPT ![op.id] =
                       [state |-> News, rev |-> op.rev]]
    BY DEF ImportChunks, Running, Answered, News, Told, SameMemory, NothingElse
  <1>2. CASE op.todo = {}
    <2>1. SameAll
      BY <1>2, NoFileChanges DEF ImportChunks, SameFiles
    <2> QED
      BY <1>1, <1>2, <2>1 DEF SameAll, SameAttachments, SameChunks
  <1>3. CASE op.todo # {}
    <2>1. Write(Chunk(op.attach), OwnKey)
      BY <1>3 DEF ImportChunks
    <2> QED
      BY <1>1, <1>3, <2>1, ChunkWrite DEF Shape
  <1> QED
    BY <1>2, <1>3

(* The index in memory and on the disk at the end of a command. *)
LEMMA SaveIndexFx ==
  ASSUME Shape, SaveIndex
  PROVE  /\ op.kind \in {"put", "delete", "putRule", "deleteRule"} /\ op.at = "index" /\ op' = Idle
         /\ mem'.key = mem.key /\ mem'.index = Entered /\ disk'[Index].entries = Entered
         /\ SameBodies /\ SameTombs /\ SameAttachments
         /\ acked' = [acked EXCEPT ![op.id] =
                        [state |-> News, rev |-> op.rev]]
         /\ clock' = clock /\ interrupted' = interrupted /\ synced' = synced
  <1> DEFINE b == [key |-> mem.key, entries |-> Entered]
  <1>1. /\ op.kind \in {"put", "delete", "putRule", "deleteRule"} /\ op.at = "index" /\ op' = Idle
        /\ mem' = [mem EXCEPT !.index = Entered] /\ Write(Index, b)
        /\ acked' = [acked EXCEPT ![op.id] =
                       [state |-> News, rev |-> op.rev]]
        /\ clock' = clock /\ interrupted' = interrupted /\ synced' = synced
    BY DEF SaveIndex, Answered, News, Told, NothingElse
  <1>2. mem'.key = mem.key /\ mem'.index = Entered
    BY <1>1 DEF Shape, MemShape
  <1>3. b.entries = Entered
    OBVIOUS
  <1> HIDE DEF b
  <1> QED
    BY <1>1, <1>2, <1>3, IndexWrite DEF Shape

(* The same in the middle of an import. *)
LEMMA SaveImportedFx ==
  ASSUME Shape, SaveImported
  PROVE  /\ op.kind = "import" /\ op.at = "index" /\ SameWork
         /\ op'.at = IF op.deleted THEN "tomb" ELSE "meta"
         /\ mem'.key = mem.key /\ mem'.index = Entered /\ disk'[Index].entries = Entered
         /\ SameBodies /\ SameTombs /\ SameAttachments
         /\ acked' = acked /\ clock' = clock /\ interrupted' = interrupted /\ synced' = synced
  <1> DEFINE b == [key |-> mem.key, entries |-> Entered]
             s == IF op.deleted THEN "tomb" ELSE "meta"
  <1>1. /\ op.kind = "import" /\ op.at = "index" /\ op' = [op EXCEPT !.at = s]
        /\ mem' = [mem EXCEPT !.index = Entered] /\ Write(Index, b)
        /\ acked' = acked /\ clock' = clock /\ interrupted' = interrupted /\ synced' = synced
    BY DEF SaveImported, Running, Goto, SameAck, NothingElse
  <1>2. mem'.key = mem.key /\ mem'.index = Entered
    BY <1>1 DEF Shape, MemShape
  <1>3. b.entries = Entered
    OBVIOUS
  <1> HIDE DEF b, s
  <1>4. SameWork /\ op'.at = s
    BY <1>1, WorkGoesOn DEF Shape
  <1>5. disk'[Index] = b /\ SameBodies /\ SameTombs /\ SameAttachments
    BY <1>1, IndexWrite DEF Shape
  <1> QED
    BY <1>1, <1>2, <1>3, <1>4, <1>5 DEF s

(* The object leaves the index. *)
LEMMA SaveHardDeleteFx ==
  ASSUME Shape, SaveHardDelete
  PROVE  /\ op.kind = "hardDelete" /\ op.at = "index" /\ op' = Idle
         /\ mem'.key = mem.key /\ mem'.index = [mem.index EXCEPT ![op.id] = NoEntry]
         /\ disk'[Index].entries = [mem.index EXCEPT ![op.id] = NoEntry]
         /\ SameBodies /\ SameTombs /\ SameAttachments
         /\ acked' = acked /\ clock' = clock /\ interrupted' = interrupted /\ synced' = synced
  <1> DEFINE left == [mem.index EXCEPT ![op.id] = NoEntry]
             b == [key |-> mem.key, entries |-> left]
  <1>1. /\ op.kind = "hardDelete" /\ op.at = "index" /\ op' = Idle
        /\ mem' = [mem EXCEPT !.index = left] /\ Write(Index, b)
        /\ acked' = acked /\ clock' = clock /\ interrupted' = interrupted /\ synced' = synced
    BY DEF SaveHardDelete, Running, SameAck, NothingElse
  <1>2. b.entries = left
    OBVIOUS
  <1> HIDE DEF b, left
  <1>3. mem'.key = mem.key /\ mem'.index = left
    BY <1>1 DEF Shape, MemShape
  <1>4. disk'[Index] = b /\ SameBodies /\ SameTombs /\ SameAttachments
    BY <1>1, IndexWrite DEF Shape
  <1> QED
    BY <1>1, <1>2, <1>3, <1>4 DEF left

(* Items whose file is gone leave the index, in memory and on the disk. *)
LEMMA ListFx ==
  ASSUME Shape, List
  PROVE  /\ op = Idle /\ op' = Idle /\ mem'.key = mem.key
         /\ mem'.index = disk'[Index].entries
         /\ mem'.index = [o \in Object |-> mem'.index[o]]
         /\ \A o \in Object : mem'.index[o] \in {NoEntry, mem.index[o]}
         /\ SameBodies /\ SameTombs /\ SameAttachments
         /\ acked' = acked /\ clock' = clock /\ interrupted' = interrupted /\ synced' = synced
  <1> DEFINE gone == {o \in Item : mem.index[o] # NoEntry /\ ~Present(Body(o))}
             kept == [o \in Object |-> IF o \in gone THEN NoEntry ELSE mem.index[o]]
             b == [key |-> mem.key, entries |-> kept]
  <1>1. /\ op = Idle /\ op' = Idle /\ mem' = [mem EXCEPT !.index = kept] /\ Write(Index, b)
        /\ acked' = acked /\ clock' = clock /\ interrupted' = interrupted /\ synced' = synced
    BY DEF List, Unlocked, Free, SameAck, NothingElse
  <1>2. b.entries = kept
    OBVIOUS
  <1>3. kept = [o \in Object |-> kept[o]] /\ \A o \in Object : kept[o] \in {NoEntry, mem.index[o]}
    OBVIOUS
  <1> HIDE DEF b, kept
  <1>4. mem'.key = mem.key /\ mem'.index = kept
    BY <1>1 DEF Shape, MemShape
  <1>5. disk'[Index] = b /\ SameBodies /\ SameTombs /\ SameAttachments
    BY <1>1, IndexWrite DEF Shape
  <1> QED
    BY <1>1, <1>2, <1>3, <1>4, <1>5

(* The fields of a purge that is through with its object. *)
PurgedWork ==
  /\ op'.kind = op.kind /\ op'.at = "purge" /\ op'.id = NoObject /\ op'.rev = op.rev
  /\ op'.attach = op.attach /\ op'.drop = NoAttach /\ op'.key = op.key /\ op'.todo = {Index}
  /\ op'.entries = [op.entries EXCEPT ![op.id] = NoEntry]

(* That is what Purged leaves. *)
LEMMA PurgedFx == Shaped(op) /\ op' = Purged(op.id) => PurgedWork
  BY DEF Shaped, Purged, PurgedWork

(* The next object to be purged. *)
LEMMA PurgeNextFx ==
  ASSUME Shape, PurgeNext
  PROVE  /\ op.kind = "unlock" /\ op.at = "purge" /\ op'.kind = "unlock" /\ op'.at = "noBody"
         /\ op'.id \in Object /\ Present(Tomb(op'.id))
         /\ op'.drop # NoAttach => op'.drop = disk[Body(op'.id)].attach
         /\ op'.rev = op.rev /\ op'.key = op.key /\ op'.entries = op.entries /\ op'.todo = op.todo
         /\ op'.attach = op.attach
         /\ Quiet /\ disk' = disk
  <1>1. op.kind = "unlock" /\ op.at = "purge" /\ Quiet /\ disk' = disk
    BY DEF PurgeNext, Running, Quiet, SameFiles, SameMemory, SameAck, NothingElse
  <1>2. PICK o \in Expired(op.key) :
          op' = [op EXCEPT !.at = "noBody", !.id = o,
                        !.drop = IF Opens(op.key, Body(o)) THEN disk[Body(o)].attach
                                 ELSE NoAttach]
    BY DEF PurgeNext
  <1> DEFINE d == IF Opens(op.key, Body(o)) THEN disk[Body(o)].attach ELSE NoAttach
  <1>3. d # NoAttach => d = disk[Body(o)].attach
    OBVIOUS
  <1>4. op' = [op EXCEPT !.at = "noBody", !.id = o, !.drop = d]
    BY <1>2
  <1> HIDE DEF d
  <1>5. /\ op'.kind = op.kind /\ op'.at = "noBody" /\ op'.id = o /\ op'.drop = d
        /\ op'.rev = op.rev /\ op'.key = op.key /\ op'.entries = op.entries /\ op'.todo = op.todo
        /\ op'.attach = op.attach
    BY <1>4 DEF Shape, Shaped
  <1>6. o \in Object /\ Present(Tomb(o))
    BY DEF Expired, Opens, Present
  <1> QED
    BY <1>1, <1>3, <1>5, <1>6

(* Its body. *)
LEMMA PurgeBodyFx ==
  ASSUME Shape, PurgeBody, op.id \in Object
  PROVE  /\ op.kind \in {"unlock", "hardDelete"} /\ op.at = "noBody" /\ SameWork
         /\ op'.at = "noTomb" /\ Quiet
         /\ disk'[Body(op.id)] = NoBody
         /\ \A x \in Object : x # op.id => disk'[Body(x)] = disk[Body(x)]
         /\ SameTombs /\ SameAttachments /\ SameIndex
  <1>1. /\ op.kind \in {"unlock", "hardDelete"} /\ op.at = "noBody" /\ Quiet
        /\ Write(Body(op.id), Missing(Body(op.id))) /\ op' = [op EXCEPT !.at = "noTomb"]
    BY RemovalWrites DEF PurgeBody, Goto, Quiet, SameMemory, SameAck, NothingElse
  <1> QED
    BY <1>1, MissingBlobs, BodyWrite, WorkGoesOn DEF Shape

(* Its tombstone. *)
LEMMA PurgeTombFx ==
  ASSUME Shape, PurgeTomb, op.id \in Object
  PROVE  /\ op.kind \in {"unlock", "hardDelete"} /\ op.at = "noTomb" /\ Quiet
         /\ \/ op.drop # NoAttach /\ SameWork /\ op'.at = "dropChunk"
            \/ op.drop = NoAttach /\ op.kind = "unlock" /\ PurgedWork
            \/ op.drop = NoAttach /\ op.kind = "hardDelete" /\ SameWork /\ op'.at = "index"
         /\ disk'[Tomb(op.id)].key = 0
         /\ \A x \in Object : x # op.id => disk'[Tomb(x)] = disk[Tomb(x)]
         /\ SameBodies /\ SameAttachments /\ SameIndex
  <1>1. /\ op.kind \in {"unlock", "hardDelete"} /\ op.at = "noTomb" /\ Quiet
        /\ Write(Tomb(op.id), Missing(Tomb(op.id)))
    BY RemovalWrites DEF PurgeTomb, Quiet, SameMemory, SameAck, NothingElse
  <1>2. Missing(Tomb(op.id)).key = 0
    BY MissingBlobs DEF NoTomb
  <1>3. /\ disk'[Tomb(op.id)].key = 0
        /\ \A x \in Object : x # op.id => disk'[Tomb(x)] = disk[Tomb(x)]
        /\ SameBodies /\ SameAttachments /\ SameIndex
    BY <1>1, <1>2, TombWrite DEF Shape
  <1>4. CASE op.drop # NoAttach
    <2>1. op' = [op EXCEPT !.at = "dropChunk"]
      BY <1>4 DEF PurgeTomb, Goto
    <2> QED
      BY <1>1, <1>3, <1>4, <2>1, WorkGoesOn DEF Shape
  <1>5. CASE op.drop = NoAttach /\ op.kind = "unlock"
    <2>1. op' = Purged(op.id)
      BY <1>5 DEF PurgeTomb
    <2> QED
      BY <1>1, <1>3, <1>5, <2>1, PurgedFx DEF Shape
  <1>6. CASE op.drop = NoAttach /\ op.kind # "unlock"
    <2>1. op' = [op EXCEPT !.at = "index"]
      BY <1>6 DEF PurgeTomb, Goto
    <2> QED
      BY <1>1, <1>3, <1>6, <2>1, WorkGoesOn DEF Shape
  <1> QED
    BY <1>4, <1>5, <1>6

(* The metadata of its attachment. *)
LEMMA PurgeMetaFx ==
  ASSUME Shape, PurgeMeta
  PROVE  /\ op.kind \in {"unlock", "hardDelete"} /\ op.at = "dropMeta" /\ Quiet
         /\ \/ op.kind = "unlock" /\ PurgedWork
            \/ op.kind = "hardDelete" /\ SameWork /\ op'.at = "index"
         /\ SameBodies /\ SameTombs /\ SameChunks /\ SameIndex
         /\ \A x \in Attach : x # op.drop => disk'[Meta(x)] = disk[Meta(x)]
  <1>1. /\ op.kind \in {"unlock", "hardDelete"} /\ op.at = "dropMeta" /\ Quiet
        /\ Write(Meta(op.drop), Missing(Meta(op.drop)))
    BY RemovalWrites DEF PurgeMeta, Quiet, SameMemory, SameAck, NothingElse
  <1>2. /\ SameBodies /\ SameTombs /\ SameChunks /\ SameIndex
        /\ \A x \in Attach : x # op.drop => disk'[Meta(x)] = disk[Meta(x)]
    BY <1>1, MetaWrite DEF Shape
  <1>3. CASE op.kind = "unlock"
    <2>1. op' = Purged(op.id)
      BY <1>3 DEF PurgeMeta
    <2> QED
      BY <1>1, <1>2, <1>3, <2>1, PurgedFx DEF Shape
  <1>4. CASE op.kind # "unlock"
    <2>1. op' = [op EXCEPT !.at = "index"]
      BY <1>4 DEF PurgeMeta, Goto
    <2> QED
      BY <1>1, <1>2, <1>4, <2>1, WorkGoesOn DEF Shape
  <1> QED
    BY <1>3, <1>4

(* The index, when something was purged. *)
LEMMA PurgeDoneFx ==
  ASSUME Shape, PurgeDone
  PROVE  /\ op.kind = "unlock" /\ op.at = "purge" /\ SameWork /\ op'.at = "finish" /\ Quiet
         /\ SameBodies /\ SameTombs /\ SameAttachments
         /\ op.todo = {} => SameIndex
         /\ op.todo # {} => disk'[Index].entries = op.entries
  <1> DEFINE b == [key |-> op.key, entries |-> op.entries]
  <1>1. op.kind = "unlock" /\ op.at = "purge" /\ op' = [op EXCEPT !.at = "finish"] /\ Quiet
    BY DEF PurgeDone, Running, Goto, Quiet, SameMemory, SameAck, NothingElse
  <1>2. SameWork /\ op'.at = "finish"
    BY <1>1, WorkGoesOn DEF Shape
  <1>3. CASE op.todo = {}
    <2>1. SameAll
      BY <1>3, NoFileChanges DEF PurgeDone, SameFiles
    <2> QED
      BY <1>1, <1>2, <1>3, <2>1 DEF SameAll
  <1>4. CASE op.todo # {}
    <2>1. Write(Index, b) /\ b.entries = op.entries
      BY <1>4 DEF PurgeDone
    <2> HIDE DEF b
    <2> QED
      BY <1>1, <1>2, <1>4, <2>1, IndexWrite DEF Shape
  <1> QED
    BY <1>3, <1>4

(* The end of an unlocking. *)
LEMMA UnlockFx ==
  ASSUME Shape, Unlock
  PROVE  /\ op.kind = "unlock" /\ op.at = "finish" /\ op' = Idle /\ disk' = disk
         /\ mem'.key = op.key /\ mem'.index = op.entries
         /\ acked' = acked /\ clock' = clock /\ interrupted' = interrupted /\ synced' = synced
  BY DEF Unlock, Running, SameFiles, SameAck, NothingElse

(* The index that an unlocking works with: the one on the disk, or one that is rebuilt. *)
LEMMA LoadFx ==
  ASSUME Shape, Load
  PROVE  /\ op.kind = "unlock" /\ op.at = "load" /\ op'.kind = "unlock"
         /\ op'.at = IF synced THEN "finish" ELSE "purge"
         /\ op'.id = op.id /\ op'.rev = op.rev /\ op'.drop = op.drop /\ op'.key = op.key
         /\ op'.attach = op.attach /\ op'.todo = op.todo
         /\ \/ op'.entries = disk[Index].entries /\ clock' = clock
            \/ op'.entries = Rebuilt(op.key, clock') /\ Now
         /\ disk'[Index].entries = op'.entries
         /\ mem' = mem /\ acked' = acked /\ interrupted' = interrupted /\ synced' = synced
         /\ SameBodies /\ SameTombs /\ SameAttachments
  <1> DEFINE s == IF synced THEN "finish" ELSE "purge"
             e == Rebuilt(op.key, clock')
             b == [key |-> op.key, entries |-> e]
  <1>1. /\ op.kind = "unlock" /\ op.at = "load"
        /\ mem' = mem /\ acked' = acked /\ interrupted' = interrupted /\ synced' = synced
    BY DEF Load, Running, SameMemory, SameAck
  <1>2. ASSUME NEW t, NEW x, op' = [op EXCEPT !.at = t, !.entries = x]
        PROVE  /\ op'.kind = op.kind /\ op'.at = t /\ op'.id = op.id /\ op'.rev = op.rev
               /\ op'.drop = op.drop /\ op'.key = op.key /\ op'.todo = op.todo
               /\ op'.attach = op.attach /\ op'.entries = x
    BY <1>2 DEF Shape, Shaped
  <1>3. CASE Opens(op.key, Index)
    <2>1. op' = [op EXCEPT !.at = s, !.entries = disk[Index].entries] /\ disk' = disk
          /\ clock' = clock
      BY <1>3 DEF Load, LoadIndex, SameFiles
    <2> HIDE DEF s
    <2> QED
      BY <1>1, <1>2, <2>1, NoFileChanges DEF SameAll, s
  <1>4. CASE ~Opens(op.key, Index)
    <2>1. op' = [op EXCEPT !.at = s, !.entries = e] /\ Now /\ Write(Index, b)
      BY <1>4 DEF Load, LoadIndex
    <2>2. b.entries = e
      OBVIOUS
    <2> HIDE DEF b, s, e
    <2>3. disk'[Index] = b /\ SameBodies /\ SameTombs /\ SameAttachments
      BY <2>1, IndexWrite DEF Shape
    <2>4. /\ op'.kind = op.kind /\ op'.at = s /\ op'.id = op.id /\ op'.rev = op.rev
          /\ op'.drop = op.drop /\ op'.key = op.key /\ op'.todo = op.todo
          /\ op'.attach = op.attach /\ op'.entries = e
      BY <1>2, <2>1
    <2> QED
      BY <1>1, <2>1, <2>2, <2>3, <2>4 DEF s, e
  <1> QED
    BY <1>3, <1>4

(* The same for a recovery, which lists the files to be sealed again. *)
LEMMA LoadOldFx ==
  ASSUME Shape, LoadOld
  PROVE  /\ op.kind = "recover" /\ op.at = "load" /\ op'.kind = "recover" /\ op'.at = "reseal"
         /\ op'.id = op.id /\ op'.rev = op.rev /\ op'.drop = op.drop /\ op'.key = op.key
         /\ op'.attach = op.attach /\ op'.todo \subseteq Objs
         /\ \/ op'.entries = disk[Index].entries /\ clock' = clock
            \/ op'.entries = Rebuilt(op.oldKey, clock') /\ Now
         /\ disk'[Index].entries = op'.entries
         /\ mem' = mem /\ acked' = acked /\ interrupted' = interrupted /\ synced' = synced
         /\ SameBodies /\ SameTombs /\ SameAttachments
  <1> DEFINE e == Rebuilt(op.oldKey, clock')
             b == [key |-> op.oldKey, entries |-> e]
             l == {n \in Bodies \cup Tombs \cup Metas : Present(n)}
  <1>1. /\ op.kind = "recover" /\ op.at = "load"
        /\ mem' = mem /\ acked' = acked /\ interrupted' = interrupted /\ synced' = synced
    BY DEF LoadOld, Running, SameMemory, SameAck
  <1>2. ASSUME NEW x, NEW t, op' = [op EXCEPT !.at = "reseal", !.entries = x, !.todo = t]
        PROVE  /\ op'.kind = op.kind /\ op'.at = "reseal" /\ op'.id = op.id /\ op'.rev = op.rev
               /\ op'.drop = op.drop /\ op'.key = op.key /\ op'.entries = x
               /\ op'.attach = op.attach /\ op'.todo = t
    BY <1>2 DEF Shape, Shaped
  <1>3. l \subseteq Objs
    BY DEF Objs
  <1>4. CASE Opens(op.oldKey, Index)
    <2>1. op' = [op EXCEPT !.at = "reseal", !.entries = disk[Index].entries, !.todo = l]
          /\ disk' = disk /\ clock' = clock
      BY <1>4 DEF LoadOld, SameFiles
    <2> HIDE DEF l, e
    <2>2. /\ op'.kind = op.kind /\ op'.at = "reseal" /\ op'.id = op.id /\ op'.rev = op.rev
          /\ op'.drop = op.drop /\ op'.key = op.key /\ op'.entries = disk[Index].entries
          /\ op'.attach = op.attach /\ op'.todo = l
      BY <1>2, <2>1
    <2>3. SameAll
      BY <2>1, NoFileChanges
    <2> QED
      BY <1>1, <1>3, <2>1, <2>2, <2>3 DEF SameAll, SameIndex
  <1>5. CASE ~Opens(op.oldKey, Index)
    <2>1. op' = [op EXCEPT !.at = "reseal", !.entries = e, !.todo = l] /\ Now /\ Write(Index, b)
      BY <1>5 DEF LoadOld
    <2>2. b.entries = e
      OBVIOUS
    <2> HIDE DEF b, l, e
    <2>3. /\ op'.kind = op.kind /\ op'.at = "reseal" /\ op'.id = op.id /\ op'.rev = op.rev
          /\ op'.drop = op.drop /\ op'.key = op.key /\ op'.entries = e
          /\ op'.attach = op.attach /\ op'.todo = l
      BY <1>2, <2>1
    <2>4. disk'[Index] = b /\ SameBodies /\ SameTombs /\ SameAttachments
      BY <2>1, IndexWrite DEF Shape
    <2> QED
      BY <1>1, <1>3, <2>1, <2>2, <2>3, <2>4 DEF e
  <1> QED
    BY <1>4, <1>5

(* A file that is sealed again: the same file under another key. *)
SealedAgain ==
  /\ \A o \in Object :
       /\ disk'[Body(o)].rev = disk[Body(o)].rev /\ disk'[Body(o)].deleted = disk[Body(o)].deleted
       /\ disk'[Body(o)].attach = disk[Body(o)].attach
       /\ disk'[Body(o)].key # 0 <=> disk[Body(o)].key # 0
       /\ disk'[Tomb(o)].key # 0 <=> disk[Tomb(o)].key # 0
  /\ \A a \in Attach : disk[Meta(a)].key # 0 => disk'[Meta(a)].key # 0
  /\ SameChunks /\ SameIndex

(* The step of a recovery that seals one. *)
LEMMA ResealFx ==
  ASSUME Shape, Reseal, op.key # 0, op.todo \subseteq Objs
  PROVE  /\ op.kind = "recover" /\ op.at = "reseal" /\ op'.at = "reseal"
         /\ op'.kind = op.kind /\ op'.id = op.id /\ op'.rev = op.rev /\ op'.drop = op.drop
         /\ op'.key = op.key /\ op'.entries = op.entries /\ op'.attach = op.attach
         /\ op'.todo \subseteq Objs
         /\ Quiet /\ SealedAgain
  <1>1. PICK n \in op.todo : /\ Recoverable(n) /\ Write(n, Resealed(n))
                             /\ op' = [op EXCEPT !.todo = @ \ {n}]
    BY DEF Reseal
  <1>2. op.kind = "recover" /\ op.at = "reseal" /\ Quiet
    BY DEF Reseal, Running, Quiet, SameMemory, SameAck, NothingElse
  <1>3. /\ op'.at = "reseal" /\ op'.kind = op.kind /\ op'.id = op.id /\ op'.rev = op.rev
        /\ op'.drop = op.drop /\ op'.key = op.key /\ op'.entries = op.entries
        /\ op'.attach = op.attach /\ op'.todo = op.todo \ {n}
    BY <1>1, <1>2 DEF Shape, Shaped
  <1>4. n \in Name /\ disk[n].key # 0 /\ n \in Objs
    BY <1>1, Names DEF Recoverable, Opens, Kept
  <1>5. disk'[n] = Resealed(n) /\ \A m \in Name : m # n => disk'[m] = disk[m]
    BY <1>1, <1>4, OneFile DEF Shape
  <1>6. Resealed(n).key = op.key
    <2>1. CASE n \in Metas
      BY <2>1 DEF Resealed
    <2>2. CASE n \notin Metas
      BY <1>4, <2>2 DEF Resealed, Objs, Shape, DiskShape, BodyShape, TombShape
    <2> QED
      BY <2>1, <2>2
  <1>7. n \in Bodies => /\ Resealed(n).rev = disk[n].rev /\ Resealed(n).deleted = disk[n].deleted
                        /\ Resealed(n).attach = disk[n].attach
    BY Names DEF Resealed, Shape, DiskShape, BodyShape
  <1>8. ASSUME NEW o \in Object
        PROVE  /\ disk'[Body(o)].rev = disk[Body(o)].rev
               /\ disk'[Body(o)].deleted = disk[Body(o)].deleted
               /\ disk'[Body(o)].attach = disk[Body(o)].attach
               /\ disk'[Body(o)].key # 0 <=> disk[Body(o)].key # 0
               /\ disk'[Tomb(o)].key # 0 <=> disk[Tomb(o)].key # 0
    <2>1. Body(o) \in Name /\ Tomb(o) \in Name /\ Body(o) \in Bodies /\ Tomb(o) # Body(o)
      BY OwnNames DEF Bodies
    <2>2. CASE n = Body(o)
      <3>1. disk'[Tomb(o)] = disk[Tomb(o)]
        BY <1>5, <2>1, <2>2
      <3>2. disk'[Body(o)].key # 0 <=> disk[Body(o)].key # 0
        BY <1>4, <1>5, <1>6, <2>2
      <3> QED
        BY <1>5, <1>7, <2>1, <2>2, <3>1, <3>2
    <2>3. CASE n = Tomb(o)
      <3>1. disk'[Body(o)] = disk[Body(o)]
        BY <1>5, <2>1, <2>3
      <3>2. disk'[Tomb(o)].key # 0 <=> disk[Tomb(o)].key # 0
        BY <1>4, <1>5, <1>6, <2>3
      <3> QED
        BY <3>1, <3>2
    <2>4. CASE n # Body(o) /\ n # Tomb(o)
      BY <1>5, <2>1, <2>4
    <2> QED
      BY <2>2, <2>3, <2>4
  <1>9. ASSUME NEW a \in Attach
        PROVE  /\ disk[Meta(a)].key # 0 => disk'[Meta(a)].key # 0
               /\ disk'[Chunk(a)] = disk[Chunk(a)]
    <2>1. Chunk(a) \notin Objs /\ Meta(a) \in Name /\ Chunk(a) \in Name
      BY AttachNames, NamesOf, Names
    <2> QED
      BY <1>4, <1>5, <1>6, <2>1
  <1>10. SameIndex
    BY <1>4, <1>5, Names, IndexName DEF SameIndex
  <1> QED
    BY <1>2, <1>3, <1>8, <1>9, <1>10 DEF SealedAgain, SameChunks

(* The index that a recovery has loaded is written under the new key. *)
LEMMA ResealIndexFx ==
  ASSUME Shape, ResealIndex
  PROVE  /\ op.kind = "recover" /\ op.at = "reseal" /\ SameWork /\ op'.at = "envelope" /\ Quiet
         /\ disk'[Index].entries = op.entries
         /\ SameBodies /\ SameTombs /\ SameAttachments
  <1> DEFINE b == [key |-> op.key, entries |-> op.entries]
  <1>1. /\ op.kind = "recover" /\ op.at = "reseal" /\ op' = [op EXCEPT !.at = "envelope"] /\ Quiet
        /\ Write(Index, b)
    BY DEF ResealIndex, Running, Goto, Quiet, SameMemory, SameAck, NothingElse
  <1>2. b.entries = op.entries
    OBVIOUS
  <1> HIDE DEF b
  <1> QED
    BY <1>1, <1>2, WorkGoesOn, IndexWrite DEF Shape

(* Envelope and header; the end of a wiping. *)
LEMMA FixedStepsFx ==
  ASSUME Shape, WriteEnvelope \/ WriteHeader \/ Wiped
  PROVE  /\ SameWork /\ Quiet /\ SameAll
         /\ \/ op.kind \in {"recover", "init"} /\ op.at = "envelope" /\ op'.at = "header"
            \/ op.kind = "init" /\ op.at = "header" /\ op'.at = "index"
            \/ op.kind = "recover" /\ op.at = "header" /\ op'.at = "finish"
            \/ op.kind = "init" /\ op.at = "wipe" /\ op.todo = {} /\ op'.at = "envelope"
  <1>1. CASE WriteEnvelope
    <2>1. op.kind \in {"recover", "init"} /\ op.at = "envelope" /\ op' = [op EXCEPT !.at = "header"]
          /\ Quiet /\ (\E b : Write(Envelope, b)) /\ Envelope \in Fixed
      BY <1>1 DEF WriteEnvelope, Goto, Quiet, SameMemory, SameAck, NothingElse, Fixed
    <2> QED
      BY <2>1, WorkGoesOn, FixedWrite DEF Shape
  <1>2. CASE WriteHeader
    <2> DEFINE s == IF op.kind = "init" THEN "index" ELSE "finish"
    <2>1. op.kind \in {"recover", "init"} /\ op.at = "header" /\ op' = [op EXCEPT !.at = s]
          /\ Quiet /\ (\E b : Write(Header, b)) /\ Header \in Fixed
      BY <1>2 DEF WriteHeader, Goto, Quiet, SameMemory, SameAck, NothingElse, Fixed
    <2> HIDE DEF s
    <2>2. SameWork /\ op'.at = s /\ SameAll
      BY <2>1, WorkGoesOn, FixedWrite DEF Shape
    <2> QED
      BY <2>1, <2>2 DEF s
  <1>3. CASE Wiped
    <2>1. op.kind = "init" /\ op.at = "wipe" /\ op.todo = {} /\ op' = [op EXCEPT !.at = "envelope"]
          /\ Quiet /\ disk' = disk
      BY <1>3 DEF Wiped, Running, Goto, Quiet, SameFiles, SameMemory, SameAck, NothingElse
    <2> QED
      BY <2>1, WorkGoesOn, NoFileChanges DEF Shape
  <1> QED
    BY <1>1, <1>2, <1>3

(* A file of the old vault goes. *)
LEMMA WipeFx ==
  ASSUME Shape, Wipe
  PROVE  /\ op.kind = "init" /\ op.at = "wipe" /\ op'.at = "wipe" /\ Quiet
         /\ op'.kind = op.kind /\ op'.id = op.id /\ op'.rev = op.rev /\ op'.drop = op.drop
         /\ op'.key = op.key /\ op'.entries = op.entries /\ op'.attach = op.attach
         /\ \A o \in Object : \/ disk'[Body(o)] = NoBody
                              \/ disk'[Body(o)] = disk[Body(o)]
                                 /\ (Body(o) \in op.todo => Body(o) \in op'.todo)
         /\ disk'[Index] \in {disk[Index], NoIndex}
  <1>1. PICK n \in op.todo : Write(n, Missing(n)) /\ op' = [op EXCEPT !.todo = @ \ {n}]
    BY RemovalWrites DEF Wipe
  <1>2. op.kind = "init" /\ op.at = "wipe" /\ Quiet
    BY DEF Wipe, Running, Quiet, SameMemory, SameAck, NothingElse
  <1>3. /\ op'.at = "wipe" /\ op'.kind = op.kind /\ op'.id = op.id /\ op'.rev = op.rev
        /\ op'.drop = op.drop /\ op'.key = op.key /\ op'.entries = op.entries
        /\ op'.attach = op.attach /\ op'.todo = op.todo \ {n}
    BY <1>1, <1>2 DEF Shape, Shaped
  <1>4. \A m \in Name : (m = n => disk'[m] = Missing(m)) /\ (m # n => disk'[m] = disk[m])
    BY <1>1, OneFile DEF Shape
  <1>5. ASSUME NEW o \in Object
        PROVE  \/ disk'[Body(o)] = NoBody
               \/ disk'[Body(o)] = disk[Body(o)] /\ (Body(o) \in op.todo => Body(o) \in op'.todo)
    BY <1>3, <1>4, OwnNames, MissingBlobs
  <1>6. disk'[Index] \in {disk[Index], NoIndex}
    BY <1>4, IndexName, MissingBlobs
  <1> QED
    BY <1>2, <1>3, <1>5, <1>6

(* The empty index of a new vault. *)
LEMMA EmptyIndexFx ==
  ASSUME Shape, EmptyIndex
  PROVE  /\ op.kind = "init" /\ op.at = "index" /\ SameWork /\ op'.at = "finish" /\ Quiet
         /\ disk'[Index].entries = Empty
         /\ SameBodies /\ SameTombs /\ SameAttachments
  <1> DEFINE b == [key |-> op.key, entries |-> Empty]
  <1>1. /\ op.kind = "init" /\ op.at = "index" /\ op' = [op EXCEPT !.at = "finish"] /\ Quiet
        /\ Write(Index, b)
    BY DEF EmptyIndex, Running, Goto, Quiet, SameMemory, SameAck, NothingElse
  <1>2. b.entries = Empty
    OBVIOUS
  <1> HIDE DEF b
  <1> QED
    BY <1>1, <1>2, WorkGoesOn, IndexWrite DEF Shape

(* The user is told of no object but o, and of o not that it is deleted. *)
NotDeleted(o) ==
  /\ acked' = [x \in Object |-> acked'[x]]
  /\ \A x \in Object : x # o => acked'[x] = acked[x]
  /\ acked'[o].state # "deleted"

(* What a command that writes o has to begin with. *)
BegunOn(o) ==
  /\ op = Idle /\ mem.key # 0 /\ disk' = disk /\ mem'.key = mem.key
  /\ op'.id = o /\ op'.rev = clock' /\ op'.entries = Empty
  /\ clock' = clock + 1 /\ interrupted' = interrupted /\ synced' = synced
  /\ NotDeleted(o)

AckShape == acked = [o \in Object |-> acked[o]]

(* A word about o that is not of its deletion. *)
LEMMA NotDeletedIf ==
  ASSUME AckShape, NEW o \in Object,
         Undecided(o) \/ (acked[o].state # "deleted" /\ acked' = acked)
  PROVE  NotDeleted(o)
  <1>1. CASE Undecided(o)
    <2>1. acked' = [acked EXCEPT ![o] = [state |-> "none", rev |-> acked[o].rev]]
      BY <1>1 DEF Undecided, Told
    <2>2. acked'[o].state = "none" /\ \A x \in Object : x # o => acked'[x] = acked[x]
      BY <2>1 DEF AckShape
    <2>3. acked' = [x \in Object |-> acked'[x]]
      BY <2>1 DEF AckShape
    <2> QED
      BY <2>2, <2>3 DEF NotDeleted
  <1>2. CASE acked[o].state # "deleted" /\ acked' = acked
    BY <1>2 DEF NotDeleted, AckShape
  <1> QED
    BY <1>1, <1>2

(* An item is to be written, with its attachment or with a new one. *)
LEMMA BeginPutFx ==
  ASSUME AckShape, NEW o \in Item, BeginPut(o)
  PROVE  /\ BegunOn(o) /\ mem' = mem /\ op'.kind = "put" /\ ~op'.deleted
         /\ \/ op'.at = "body" /\ op'.attach = disk[Body(o)].attach /\ op'.drop = NoAttach
            \/ op'.at = "chunk" /\ op'.attach \in FreshAttach /\ op'.drop = disk[Body(o)].attach
  <1>1. /\ op = Idle /\ mem.key # 0 /\ disk' = disk /\ mem' = mem /\ o \in Object
        /\ interrupted' = interrupted /\ synced' = synced
    BY DEF BeginPut, Unlocked, Free, SameFiles, SameMemory, Object
  <1>2. NotDeleted(o)
    BY <1>1, NotDeletedIf DEF BeginPut, SameAck
  <1>3. CASE Begin("put", "body", o, FALSE, disk[Body(o)].attach, NoAttach)
    <2>1. /\ op'.kind = "put" /\ op'.at = "body" /\ op'.id = o /\ op'.rev = clock'
          /\ op'.deleted = FALSE /\ op'.attach = disk[Body(o)].attach /\ op'.drop = NoAttach
          /\ op'.entries = Empty /\ clock' = clock + 1
      BY <1>3 DEF Begin, Issue, Idle
    <2> QED
      BY <1>1, <1>2, <2>1 DEF BegunOn
  <1>4. ASSUME NEW a \in FreshAttach, Begin("put", "chunk", o, FALSE, a, disk[Body(o)].attach)
        PROVE  /\ BegunOn(o) /\ op'.kind = "put" /\ ~op'.deleted /\ op'.at = "chunk"
               /\ op'.attach \in FreshAttach /\ op'.drop = disk[Body(o)].attach
    <2>1. /\ op'.kind = "put" /\ op'.at = "chunk" /\ op'.id = o /\ op'.rev = clock'
          /\ op'.deleted = FALSE /\ op'.attach = a /\ op'.drop = disk[Body(o)].attach
          /\ op'.entries = Empty /\ clock' = clock + 1
      BY <1>4 DEF Begin, Issue, Idle
    <2> QED
      BY <1>1, <1>2, <2>1 DEF BegunOn
  <1> QED
    BY <1>1, <1>3, <1>4 DEF BeginPut

(* An item is to be deleted: it keeps its attachment. *)
LEMMA BeginDeleteFx ==
  ASSUME AckShape, NEW o \in Item, BeginDelete(o)
  PROVE  /\ BegunOn(o) /\ mem' = mem /\ op'.kind = "delete" /\ op'.at = "body" /\ op'.deleted
         /\ op'.attach = disk[Body(o)].attach /\ op'.drop = NoAttach
  <1>1. /\ op = Idle /\ mem.key # 0 /\ disk' = disk /\ mem' = mem /\ o \in Object
        /\ interrupted' = interrupted /\ synced' = synced
    BY DEF BeginDelete, Unlocked, Free, SameFiles, SameMemory, Object
  <1>2. NotDeleted(o)
    BY <1>1, NotDeletedIf DEF BeginDelete
  <1>3. /\ op'.kind = "delete" /\ op'.at = "body" /\ op'.id = o /\ op'.rev = clock'
        /\ op'.deleted = TRUE /\ op'.attach = disk[Body(o)].attach /\ op'.drop = NoAttach
        /\ op'.entries = Empty /\ clock' = clock + 1
    BY DEF BeginDelete, Begin, Issue, Idle
  <1> QED
    BY <1>1, <1>2, <1>3 DEF BegunOn

(* A rule is to be written ... *)
LEMMA BeginPutRuleFx ==
  ASSUME AckShape, NEW o \in Rule, BeginPutRule(o)
  PROVE  /\ BegunOn(o) /\ mem' = mem /\ op'.kind = "putRule" /\ op'.at = "body" /\ ~op'.deleted
         /\ op'.attach = NoAttach /\ op'.drop = NoAttach
  <1>1. /\ op = Idle /\ mem.key # 0 /\ disk' = disk /\ mem' = mem /\ o \in Object
        /\ interrupted' = interrupted /\ synced' = synced
    BY DEF BeginPutRule, Unlocked, Free, SameFiles, SameMemory, Object
  <1>2. NotDeleted(o)
    BY <1>1, NotDeletedIf DEF BeginPutRule, SameAck
  <1>3. /\ op'.kind = "putRule" /\ op'.at = "body" /\ op'.id = o /\ op'.rev = clock'
        /\ op'.deleted = FALSE /\ op'.attach = NoAttach /\ op'.drop = NoAttach
        /\ op'.entries = Empty /\ clock' = clock + 1
    BY DEF BeginPutRule, Begin, Issue, Idle
  <1> QED
    BY <1>1, <1>2, <1>3 DEF BegunOn

(* ... or deleted: the entry in memory goes first. *)
LEMMA BeginDeleteRuleFx ==
  ASSUME Shape, AckShape, NEW o \in Rule, BeginDeleteRule(o)
  PROVE  /\ BegunOn(o) /\ op'.kind = "deleteRule" /\ op'.at = "tomb" /\ op'.deleted
         /\ op'.attach = NoAttach /\ op'.drop = NoAttach
         /\ \/ mem'.index = mem.index
            \/ mem'.index = [mem.index EXCEPT ![o] = [rev |-> clock', deleted |-> TRUE]]
  <1>1. /\ op = Idle /\ mem.key # 0 /\ disk' = disk /\ o \in Object
        /\ interrupted' = interrupted /\ synced' = synced
    BY DEF BeginDeleteRule, Unlocked, Free, SameFiles, Object
  <1>2. NotDeleted(o)
    BY <1>1, NotDeletedIf DEF BeginDeleteRule
  <1>3. /\ op'.kind = "deleteRule" /\ op'.at = "tomb" /\ op'.id = o /\ op'.rev = clock'
        /\ op'.deleted = TRUE /\ op'.attach = NoAttach /\ op'.drop = NoAttach
        /\ op'.entries = Empty /\ clock' = clock + 1
    BY DEF BeginDeleteRule, Begin, Issue, Idle
  <1>4. mem' = mem \/ mem' = [mem EXCEPT !.index[o] = [rev |-> clock', deleted |-> TRUE]]
    BY DEF BeginDeleteRule
  <1>5. /\ mem'.key = mem.key
        /\ \/ mem'.index = mem.index
           \/ mem'.index = [mem.index EXCEPT ![o] = [rev |-> clock', deleted |-> TRUE]]
    BY <1>4 DEF Shape, MemShape
  <1> QED
    BY <1>1, <1>2, <1>3, <1>5 DEF BegunOn

(* A version comes in. *)
LEMMA BeginImportFx ==
  ASSUME AckShape, NEW o \in Object, BeginImport(o)
  PROVE  /\ BegunOn(o) /\ mem' = mem /\ op'.kind = "import"
         /\ \/ /\ op'.attach = disk[Body(o)].attach /\ op'.todo = {} /\ op'.drop = NoAttach
               /\ op'.at = "body"
            \/ /\ op'.attach # disk[Body(o)].attach /\ op'.attach \in FreshAttach /\ o \in Item
               /\ op'.todo # {} /\ op'.drop = disk[Body(o)].attach
               /\ op'.at = IF op'.drop = NoAttach THEN "body" ELSE "dropChunk"
  <1>1. /\ op = Idle /\ mem.key # 0 /\ disk' = disk /\ mem' = mem
        /\ interrupted' = interrupted /\ synced' = synced
    BY DEF BeginImport, Unlocked, Free, SameFiles, SameMemory
  <1>2. NotDeleted(o)
    BY <1>1, NotDeletedIf DEF BeginImport
  <1>3. PICK deleted \in BOOLEAN,
             a \in {disk[Body(o)].attach} \cup (IF o \in Item THEN FreshAttach ELSE {}) :
          LET old == disk[Body(o)].attach
          IN  /\ Issue
              /\ op' = [Idle EXCEPT !.kind = "import", !.id = o, !.rev = clock',
                          !.deleted = deleted, !.attach = a,
                          !.drop = IF a = old THEN NoAttach ELSE old,
                          !.at = IF a = old \/ old = NoAttach THEN "body" ELSE "dropChunk",
                          !.todo = IF a = old THEN {} ELSE {Meta(a), Chunk(a)}]
    BY DEF BeginImport
  <1> DEFINE old == disk[Body(o)].attach
             d == IF a = old THEN NoAttach ELSE old
             s == IF a = old \/ old = NoAttach THEN "body" ELSE "dropChunk"
             t == IF a = old THEN {} ELSE {Meta(a), Chunk(a)}
  <1>4. op' = [Idle EXCEPT !.kind = "import", !.id = o, !.rev = clock', !.deleted = deleted,
                           !.attach = a, !.drop = d, !.at = s, !.todo = t]
    BY <1>3
  <1>5. clock' = clock + 1
    BY <1>3 DEF Issue
  <1>6. \/ a = old /\ t = {} /\ d = NoAttach /\ s = "body"
        \/ /\ a # old /\ a \in FreshAttach /\ o \in Item /\ t # {} /\ d = old
           /\ s = IF d = NoAttach THEN "body" ELSE "dropChunk"
    OBVIOUS
  <1> HIDE DEF d, s, t
  <1>7. /\ op'.kind = "import" /\ op'.id = o /\ op'.rev = clock' /\ op'.attach = a
        /\ op'.drop = d /\ op'.at = s /\ op'.todo = t /\ op'.entries = Empty
    BY <1>4 DEF Idle
  <1> QED
    BY <1>1, <1>2, <1>5, <1>6, <1>7 DEF BegunOn

(* An object is to be removed for good. *)
LEMMA BeginHardDeleteFx ==
  ASSUME NEW o \in Object, BeginHardDelete(o)
  PROVE  /\ op = Idle /\ mem.key # 0 /\ disk' = disk /\ Quiet /\ mem.index[o].deleted
         /\ op'.kind = "hardDelete" /\ op'.at = "noBody" /\ op'.id = o /\ op'.entries = Empty
         /\ op'.drop # NoAttach => op'.drop = disk[Body(o)].attach
  <1> DEFINE d == IF Opens(mem.key, Body(o)) THEN disk[Body(o)].attach ELSE NoAttach
  <1>1. /\ op = Idle /\ mem.key # 0 /\ disk' = disk /\ Quiet /\ mem.index[o].deleted
        /\ op' = [Idle EXCEPT !.kind = "hardDelete", !.at = "noBody", !.id = o, !.drop = d]
    BY DEF BeginHardDelete, Unlocked, Free, SameFiles, SameMemory, SameAck, NothingElse, Quiet
  <1>2. d # NoAttach => d = disk[Body(o)].attach
    OBVIOUS
  <1> HIDE DEF d
  <1> QED
    BY <1>1, <1>2 DEF Idle

(* An unlocking or a recovery begins ... *)
LEMMA KeyBeginsFx ==
  ASSUME Shape, BeginUnlock \/ BeginRecover
  PROVE  /\ op = Idle /\ disk' = disk /\ op'.kind \in {"unlock", "recover"} /\ op'.at = "load"
         /\ op'.kind = "unlock" => mem' = mem
         /\ op'.kind = "recover" => op'.key # 0 /\ mem' = Locked
         /\ op'.entries = Empty /\ op'.drop = NoAttach /\ op'.todo = {}
         /\ acked' = acked /\ clock' = clock /\ interrupted' = interrupted /\ synced' = synced
  <1>1. CASE BeginUnlock
    BY <1>1 DEF BeginUnlock, Idle, SameFiles, SameMemory, SameAck, NothingElse
  <1>2. CASE BeginRecover
    <2>1. keys' # 0
      BY <1>2 DEF BeginRecover, Shape
    <2> QED
      BY <1>2, <2>1 DEF BeginRecover, Idle, SameFiles, SameAck
  <1> QED
    BY <1>1, <1>2

(* ... or a creation, which is told of no object. *)
LEMMA BeginInitFx ==
  ASSUME NEW reset, BeginInit(reset)
  PROVE  /\ op = Idle /\ disk' = disk /\ op'.kind = "init"
         /\ mem' \in {mem, Locked}
         /\ op'.entries = Empty /\ op'.drop = NoAttach
         /\ \/ ~Present(Header) /\ op'.at = "envelope"
            \/ /\ op'.at = "wipe" /\ mem' = Locked
               /\ op'.todo = {n \in Name : Present(n)}
         /\ AckShape' /\ \A o \in Object : acked'[o].state = "none"
         /\ clock' = clock /\ interrupted' = interrupted /\ synced' = synced
  <1> DEFINE s == IF Present(Header) THEN "wipe" ELSE "envelope"
             t == IF Present(Header) THEN {n \in Name : Present(n)} ELSE {}
  <1>1. /\ op = Idle /\ disk' = disk /\ clock' = clock /\ interrupted' = interrupted
        /\ synced' = synced /\ mem' = (IF reset THEN Locked ELSE mem)
        /\ Present(Header) => reset
        /\ op' = [Idle EXCEPT !.kind = "init", !.key = keys', !.at = s, !.todo = t]
        /\ acked' = [o \in Object |-> [state |-> "none", rev |-> 0]]
    BY DEF BeginInit, SameFiles
  <1>2. \/ ~Present(Header) /\ s = "envelope"
        \/ Present(Header) /\ s = "wipe" /\ t = {n \in Name : Present(n)}
    OBVIOUS
  <1> HIDE DEF s, t
  <1>3. op'.kind = "init" /\ op'.at = s /\ op'.todo = t /\ op'.entries = Empty /\ op'.drop = NoAttach
    BY <1>1 DEF Idle
  <1>4. AckShape' /\ \A o \in Object : acked'[o].state = "none"
    BY <1>1 DEF AckShape
  <1> QED
    BY <1>1, <1>2, <1>3, <1>4

(* The vault is opened again beside a round of the poller, or beside nothing. *)
LEMMA AgainFx ==
  ASSUME Shape, AgainStep
  PROVE  /\ op' = op /\ acked' = acked /\ synced' = synced
         /\ SameBodies /\ SameTombs /\ SameAttachments
         /\ ~UnlockAgain => mem'.key = mem.key /\ mem'.index = mem.index
         /\ UnlockAgain => /\ op = Idle /\ mem.next.at # "idle" /\ mem'.next.at = "idle"
                           /\ mem'.index = mem.next.entries
         /\ clock' = clock \/ clock' = clock + 1
         /\ SameIndex \/ (SaveAgain /\ disk'[Index].entries = mem.next.entries)
         /\ SaveAgain => /\ mem.next.at # "idle" /\ mem'.next.entries = mem.next.entries
                         /\ mem'.next.at = "finish"
         /\ LoadAgain => \/ mem'.next.entries = disk[Index].entries
                         \/ \E k, now : mem'.next.entries = Rebuilt(k, now)
  <1>0. Idle.kind = "idle"
    BY DEF Idle
  <1>1. CASE LoadAgain
    <2>1. PICK x : /\ mem' = [mem EXCEPT !.next = x]
                   /\ x.entries = IF Opens(disk[Header].key, Index) THEN disk[Index].entries
                                  ELSE Rebuilt(disk[Header].key, clock')
      BY <1>1, LoadedAgain
    <2>2. mem'.key = mem.key /\ mem'.index = mem.index /\ mem'.next = x
      BY <2>1 DEF Shape, MemShape
    <2>3. /\ op' = op /\ acked' = acked /\ synced' = synced /\ disk' = disk
          /\ clock' = clock + 1 /\ mem.next = NotAgain
      BY <1>1 DEF LoadAgain, SameFiles, SameAck, Issue
    <2>4. mem.next.at = "idle"
      BY <2>3 DEF NotAgain
    <2>5. ~SaveAgain /\ ~UnlockAgain
      BY <2>4 DEF SaveAgain, UnlockAgain
    <2> QED
      BY <2>1, <2>2, <2>3, <2>5, NoFileChanges DEF SameAll
  <1>2. CASE SaveAgain
    <2> DEFINE b == [key |-> mem.next.key, entries |-> mem.next.entries]
    <2>1. /\ op' = op /\ acked' = acked /\ synced' = synced /\ clock' = clock
          /\ Write(Index, b) /\ mem.next.at = "save"
          /\ mem' = [mem EXCEPT !.next = [@ EXCEPT !.at = "finish"]]
      BY <1>2 DEF SaveAgain, SameAck
    <2>2. /\ mem'.key = mem.key /\ mem'.index = mem.index /\ mem'.next.entries = mem.next.entries
          /\ mem'.next.at = "finish"
      BY <2>1 DEF Shape, MemShape
    <2>3. b.entries = mem.next.entries
      OBVIOUS
    <2> HIDE DEF b
    <2>4. ~LoadAgain /\ ~UnlockAgain
      BY <2>1 DEF LoadAgain, UnlockAgain, NotAgain
    <2> QED
      BY <1>2, <2>1, <2>2, <2>3, <2>4, IndexWrite DEF Shape
  <1>3. CASE UnlockAgain
    <2>1. /\ op' = op /\ op = Idle /\ acked' = acked /\ synced' = synced /\ clock' = clock
          /\ disk' = disk /\ mem.next.at = "finish"
          /\ mem' = [Locked EXCEPT !.key = mem.next.key, !.index = mem.next.entries]
      BY <1>3 DEF UnlockAgain, SameFiles, SameAck
    <2>2. mem'.index = mem.next.entries /\ mem'.next.at = "idle"
      BY <2>1 DEF Locked, NotAgain
    <2>3. ~LoadAgain /\ ~SaveAgain
      BY <2>1 DEF LoadAgain, SaveAgain, NotAgain
    <2> QED
      BY <1>3, <2>1, <2>2, <2>3, NoFileChanges DEF SameAll
  <1>4. CASE AgainFails
    <2>1. /\ op' = op /\ acked' = acked /\ synced' = synced /\ clock' = clock
          /\ disk' = disk /\ mem.next.at = "save" /\ mem' = [mem EXCEPT !.next = NotAgain]
      BY <1>4 DEF AgainFails, SameFiles, SameAck
    <2>2. mem'.key = mem.key /\ mem'.index = mem.index /\ mem'.next.at = "idle"
      BY <2>1 DEF Shape, MemShape, NotAgain
    <2>3. ~LoadAgain /\ ~SaveAgain /\ ~UnlockAgain
      <3>1. ~SaveAgain
        <4>1. SaveAgain => mem'.next.at = "finish"
          BY DEF SaveAgain, Shape, MemShape
        <4> QED
          BY <2>2, <4>1
      <3> QED
        BY <2>1, <3>1 DEF LoadAgain, UnlockAgain, NotAgain
    <2> QED
      BY <2>1, <2>2, <2>3, NoFileChanges DEF SameAll
  <1> QED
    BY <1>1, <1>2, <1>3, <1>4 DEF AgainStep

--------------------------------------------------------------------------------
(***************************************************************************)
(* What every command is about.                                            *)
(***************************************************************************)

(* The steps of each command. *)
InStep ==
  /\ op.kind \in Kind \ {"unlockAgain"}
  /\ op.kind = "idle" => op.at = "idle"
  /\ op.kind = "put" => op.at \in {"chunk", "meta", "dropChunk", "dropMeta", "body", "index"}
  /\ op.kind = "delete" => op.at \in {"body", "tomb", "index"}
  /\ op.kind = "putRule" => op.at \in {"body", "noTomb", "index"}
  /\ op.kind = "deleteRule" => op.at \in {"tomb", "index"}
  /\ op.kind = "import" =>
       op.at \in {"dropChunk", "dropMeta", "body", "index", "tomb", "meta", "chunk"}
  /\ op.kind = "hardDelete" => op.at \in {"noBody", "noTomb", "dropChunk", "dropMeta", "index"}
  /\ op.kind = "unlock" =>
       op.at \in {"load", "purge", "noBody", "noTomb", "dropChunk", "dropMeta", "finish"}
  /\ op.kind = "recover" => op.at \in {"load", "reseal", "envelope", "header", "finish"}
  /\ op.kind = "init" => op.at \in {"wipe", "envelope", "header", "index", "finish"}

(* The commands that issue a revision. *)
Issuing == {"put", "delete", "putRule", "deleteRule", "import"}

(* The steps of a purge at which it has an object. *)
Purges == op.kind \in {"unlock", "hardDelete"}
          /\ op.at \in {"noBody", "noTomb", "dropChunk", "dropMeta"}

(* What a command works on. *)
WorksOn ==
  /\ op.kind \in MemKinds => mem.key # 0 /\ op.id \in Object
  /\ Purges => op.id \in Object
  /\ op.kind = "recover" => op.key # 0 /\ op.todo \subseteq Objs
  /\ op.kind \in {"put", "delete"} => op.id \in Item
  /\ op.kind \in {"putRule", "deleteRule"} => op.id \in Rule
  /\ op.kind \in {"delete", "deleteRule"} => op.deleted
  /\ op.kind \in {"put", "putRule"} => ~op.deleted
  /\ op.kind \in Issuing => op.rev \in Nat /\ op.rev <= clock

Working == InStep /\ WorksOn /\ AckShape /\ clock \in Nat

(* A device at rest works on nothing. *)
LEMMA RestWorks == op' = Idle => InStep' /\ WorksOn'
  BY DEF Idle, InStep, WorksOn, MemKinds, Issuing, Purges, Kind

(* A command that goes on with the same work, at one of its steps. *)
LEMMA WorkStays ==
  ASSUME Working, SameWork, mem'.key = mem.key, clock' = clock, InStep',
         Purges' => op.id \in Object
  PROVE  WorksOn'
  BY DEF Working, WorksOn, SameWork, Issuing, MemKinds

(* A command that begins to write an object. *)
LEMMA BegunWorks ==
  ASSUME NEW o \in Object, BegunOn(o), InStep', op'.kind \in Issuing, clock \in Nat,
         op'.kind \in {"put", "delete"} => o \in Item,
         op'.kind \in {"putRule", "deleteRule"} => o \in Rule,
         op'.kind \in {"delete", "deleteRule"} => op'.deleted,
         op'.kind \in {"put", "putRule"} => ~op'.deleted
  PROVE  WorksOn'
  BY DEF BegunOn, WorksOn, MemKinds, Issuing, Purges

(* Its beginnings. *)
LEMMA BeginningsWork ==
  ASSUME Shape, Working, ItemCommand \/ RuleCommand \/ SyncCommand
  PROVE  InStep' /\ WorksOn'
  <1>0. Item \subseteq Object /\ Rule \subseteq Object
    BY DEF Object
  <1>1. ASSUME NEW o \in Item, BeginPut(o) PROVE InStep' /\ WorksOn'
    <2>1. /\ BegunOn(o) /\ op'.kind = "put" /\ ~op'.deleted /\ op'.at \in {"body", "chunk"}
      BY <1>1, BeginPutFx DEF Working
    <2>2. InStep'
      BY <2>1 DEF InStep, Kind
    <2> QED
      BY <1>0, <2>1, <2>2, BegunWorks DEF Issuing, Working
  <1>2. ASSUME NEW o \in Item, BeginDelete(o) PROVE InStep' /\ WorksOn'
    <2>1. /\ BegunOn(o) /\ op'.kind = "delete" /\ op'.deleted /\ op'.at = "body"
      BY <1>2, BeginDeleteFx DEF Working
    <2>2. InStep'
      BY <2>1 DEF InStep, Kind
    <2> QED
      BY <1>0, <2>1, <2>2, BegunWorks DEF Issuing, Working
  <1>3. ASSUME NEW o \in Item, DeleteAgain(o) PROVE InStep' /\ WorksOn'
    BY <1>3, RestWorks DEF DeleteAgain, Unlocked, Free
  <1>4. ASSUME NEW o \in Rule, BeginPutRule(o) PROVE InStep' /\ WorksOn'
    <2>1. /\ BegunOn(o) /\ op'.kind = "putRule" /\ ~op'.deleted /\ op'.at = "body"
      BY <1>4, BeginPutRuleFx DEF Working
    <2>2. InStep'
      BY <2>1 DEF InStep, Kind
    <2> QED
      BY <1>0, <2>1, <2>2, BegunWorks DEF Issuing, Working
  <1>5. ASSUME NEW o \in Rule, BeginDeleteRule(o) PROVE InStep' /\ WorksOn'
    <2>1. /\ BegunOn(o) /\ op'.kind = "deleteRule" /\ op'.deleted /\ op'.at = "tomb"
      BY <1>5, BeginDeleteRuleFx DEF Working
    <2>2. InStep'
      BY <2>1 DEF InStep, Kind
    <2> QED
      BY <1>0, <2>1, <2>2, BegunWorks DEF Issuing, Working
  <1>6. ASSUME NEW o \in Object, BeginImport(o) PROVE InStep' /\ WorksOn'
    <2>1. /\ BegunOn(o) /\ op'.kind = "import" /\ op'.at \in {"body", "dropChunk"}
      BY <1>6, BeginImportFx DEF Working
    <2>2. InStep'
      BY <2>1 DEF InStep, Kind
    <2> QED
      BY <2>1, <2>2, BegunWorks DEF Issuing, Working
  <1>7. ASSUME NEW o \in Object, BeginHardDelete(o) PROVE InStep' /\ WorksOn'
    <2>1. /\ mem.key # 0 /\ mem' = mem /\ op'.kind = "hardDelete" /\ op'.at = "noBody"
          /\ op'.id = o
      BY <1>7, BeginHardDeleteFx DEF Quiet
    <2> QED
      BY <2>1 DEF InStep, Kind, WorksOn, MemKinds, Issuing, Purges
  <1> QED
    BY <1>1, <1>2, <1>3, <1>4, <1>5, <1>6, <1>7 DEF ItemCommand, RuleCommand, SyncCommand

(* Its steps on the files of objects and attachments. *)
LEMMA WritesWork ==
  ASSUME Shape, Working, WriteStep
  PROVE  InStep' /\ WorksOn'
  <1>0. op.at = "body" \/ op.at = "tomb" \/ op.at = "noTomb" => op.id \in Object
    BY DEF Working, InStep, WorksOn, MemKinds, Kind, Purges
  <1>1. CASE SaveIndex \/ ImportChunks \/ SaveHardDelete
    BY <1>1, RestWorks DEF SaveIndex, ImportChunks, SaveHardDelete
  <1>2. CASE PutChunks \/ PutMeta
    <2>1. /\ op.kind = "put" /\ op'.kind = "put" /\ SameWork /\ mem' = mem /\ clock' = clock
          /\ op'.at \in {"meta", "body", "dropChunk"}
      BY <1>2, PutChunksFx, PutMetaFx DEF SameWork, Quiet
    <2>2. InStep' /\ ~Purges'
      BY <2>1 DEF InStep, Kind, Purges
    <2> QED
      BY <2>1, <2>2, WorkStays
  <1>3. CASE DropChunks
    <2>1. /\ op.at = "dropChunk" /\ SameWork /\ mem' = mem /\ clock' = clock /\ op'.at = "dropMeta"
      BY <1>3, DropChunksFx DEF Quiet
    <2>2. InStep' /\ (Purges' => Purges)
      BY <2>1 DEF Working, InStep, Kind, Purges, SameWork
    <2> QED
      BY <2>1, <2>2, WorkStays DEF Working, WorksOn
  <1>4. CASE DropReplaced
    <2>1. /\ op.kind \in {"put", "import"} /\ SameWork /\ mem' = mem /\ clock' = clock
          /\ op'.at = "body"
      BY <1>4, DropReplacedFx DEF Quiet
    <2>2. InStep' /\ ~Purges'
      BY <2>1 DEF InStep, Kind, Purges, SameWork
    <2> QED
      BY <2>1, <2>2, WorkStays
  <1>5. CASE WriteBody
    <2>1. /\ op.kind \in {"put", "delete", "putRule", "import"} /\ SameWork /\ mem' = mem
          /\ clock' = clock /\ op'.at = AfterBody
      BY <1>0, <1>5, WriteBodyFx DEF Quiet, WriteBody
    <2>2. InStep' /\ ~Purges'
      BY <2>1 DEF InStep, Kind, Purges, SameWork, AfterBody
    <2> QED
      BY <2>1, <2>2, WorkStays
  <1>6. CASE WriteTomb
    <2>1. /\ op.kind \in {"delete", "deleteRule", "import"} /\ SameWork /\ mem' = mem
          /\ clock' = clock /\ op'.at = IF op.kind = "import" THEN "meta" ELSE "index"
      BY <1>0, <1>6, WriteTombFx DEF Quiet, WriteTomb
    <2>2. InStep' /\ ~Purges'
      BY <2>1 DEF InStep, Kind, Purges, SameWork
    <2> QED
      BY <2>1, <2>2, WorkStays
  <1>7. CASE ClearTomb
    <2>1. /\ op.kind = "putRule" /\ SameWork /\ mem' = mem /\ clock' = clock /\ op'.at = "index"
      BY <1>0, <1>7, ClearTombFx DEF Quiet, ClearTomb, Running
    <2>2. InStep' /\ ~Purges'
      BY <2>1 DEF InStep, Kind, Purges, SameWork
    <2> QED
      BY <2>1, <2>2, WorkStays
  <1>8. CASE SaveImported \/ ImportMeta
    <2>1. /\ op.kind = "import" /\ SameWork /\ mem'.key = mem.key /\ clock' = clock
          /\ op'.at \in {"tomb", "meta", "chunk"}
      BY <1>8, SaveImportedFx, ImportMetaFx DEF Quiet
    <2>2. InStep' /\ ~Purges'
      BY <2>1 DEF InStep, Kind, Purges, SameWork
    <2> QED
      BY <2>1, <2>2, WorkStays
  <1> QED
    BY <1>1, <1>2, <1>3, <1>4, <1>5, <1>6, <1>7, <1>8 DEF WriteStep

(* Those of a purge. *)
LEMMA PurgesWork ==
  ASSUME Shape, Working, PurgeStep
  PROVE  InStep' /\ WorksOn'
  <1>0. op.at = "noBody" \/ (op.at = "noTomb" /\ op.kind \in {"unlock", "hardDelete"})
          => op.id \in Object
    BY DEF Working, InStep, WorksOn, MemKinds, Kind, Purges
  <1>1. CASE PurgeNext
    <2>1. op'.kind = "unlock" /\ op'.at = "noBody" /\ op'.id \in Object
      BY <1>1, PurgeNextFx
    <2> QED
      BY <2>1 DEF InStep, WorksOn, MemKinds, Issuing, Purges, Kind
  <1>2. CASE PurgeBody
    <2>1. /\ op.kind \in {"unlock", "hardDelete"} /\ SameWork /\ mem' = mem /\ clock' = clock
          /\ op'.at = "noTomb" /\ op.id \in Object
      BY <1>0, <1>2, PurgeBodyFx DEF Quiet, PurgeBody
    <2>2. InStep'
      BY <2>1 DEF InStep, Kind, SameWork
    <2> QED
      BY <2>1, <2>2, WorkStays
  <1>3. CASE (PurgeTomb \/ PurgeMeta) /\ SameWork
    <2>1. /\ op.kind \in {"unlock", "hardDelete"} /\ mem' = mem /\ clock' = clock
          /\ op.id \in Object
          /\ \/ op'.at = "dropChunk"
             \/ op.kind = "hardDelete" /\ op'.at = "index"
             \/ op.kind = "unlock" /\ op'.at = "purge"
      <3>1. CASE PurgeTomb
        BY <1>0, <3>1, PurgeTombFx DEF Quiet, PurgeTomb, PurgedWork
      <3>2. CASE PurgeMeta
        <4>1. op.id \in Object
          BY <3>2 DEF PurgeMeta, Working, WorksOn, Purges
        <4> QED
          BY <3>2, <4>1, PurgeMetaFx DEF Quiet, PurgedWork
      <3> QED
        BY <1>3, <3>1, <3>2
    <2>2. InStep'
      BY <1>3, <2>1 DEF InStep, Kind, SameWork
    <2> QED
      BY <1>3, <2>1, <2>2, WorkStays
  <1>4. CASE (PurgeTomb \/ PurgeMeta) /\ ~SameWork
    <2>1. op.kind = "unlock" /\ PurgedWork
      <3>1. CASE PurgeTomb
        BY <1>0, <1>4, <3>1, PurgeTombFx DEF PurgeTomb
      <3>2. CASE PurgeMeta
        BY <1>4, <3>2, PurgeMetaFx
      <3> QED
        BY <1>4, <3>1, <3>2
    <2> QED
      BY <2>1 DEF PurgedWork, InStep, WorksOn, MemKinds, Issuing, Purges, Kind
  <1>5. CASE PurgeDone
    <2>1. /\ op.kind = "unlock" /\ SameWork /\ mem' = mem /\ clock' = clock /\ op'.at = "finish"
      BY <1>5, PurgeDoneFx DEF Quiet
    <2>2. InStep' /\ ~Purges'
      BY <2>1 DEF InStep, Kind, SameWork, Purges
    <2> QED
      BY <2>1, <2>2, WorkStays
  <1> QED
    BY <1>1, <1>2, <1>3, <1>4, <1>5 DEF PurgeStep

(* Those of unlocking, recovery and creation. *)
LEMMA KeyStepsWork ==
  ASSUME Shape, Working, KeyStep \/ Load
  PROVE  InStep' /\ WorksOn'
  <1>1. CASE ResealFails \/ ShowCode
    BY <1>1, RestWorks DEF ResealFails, ShowCode
  <1>2. CASE Load
    <2>1. op'.kind = "unlock" /\ op'.at \in {"finish", "purge"}
      BY <1>2, LoadFx
    <2> QED
      BY <2>1 DEF InStep, WorksOn, MemKinds, Issuing, Purges, Kind
  <1>3. CASE LoadOld \/ Reseal
    <2>1. op'.kind = "recover" /\ op'.at = "reseal" /\ op'.key # 0 /\ op'.todo \subseteq Objs
      <3>1. op.kind = "recover"
        BY <1>3 DEF LoadOld, Reseal, Running
      <3>2. op.key # 0 /\ op.todo \subseteq Objs
        BY <3>1 DEF Working, WorksOn
      <3> QED
        BY <1>3, <3>1, <3>2, LoadOldFx, ResealFx
    <2> QED
      BY <2>1 DEF InStep, WorksOn, MemKinds, Issuing, Purges, Kind
  <1>4. CASE ResealIndex \/ WriteEnvelope \/ WriteHeader \/ Wiped \/ EmptyIndex
    <2>1. /\ SameWork /\ mem' = mem /\ clock' = clock
          /\ \/ op.kind = "recover" /\ op'.at \in {"envelope", "header", "finish"}
             \/ op.kind = "init" /\ op'.at \in {"envelope", "header", "index", "finish"}
      BY <1>4, ResealIndexFx, FixedStepsFx, EmptyIndexFx DEF Quiet
    <2>2. InStep' /\ ~Purges'
      BY <2>1 DEF InStep, Kind, SameWork, Purges
    <2> QED
      BY <2>1, <2>2, WorkStays
  <1>5. CASE Wipe
    <2>1. op'.kind = "init" /\ op'.at = "wipe"
      BY <1>5, WipeFx
    <2> QED
      BY <2>1 DEF InStep, WorksOn, MemKinds, Issuing, Purges, Kind
  <1> QED
    BY <1>1, <1>2, <1>3, <1>4, <1>5 DEF KeyStep

(* What the user is told has a form, and time does not go back. *)
LEMMA NewsAndTime ==
  ASSUME AckShape, clock \in Nat, [Next]_vars
  PROVE  AckShape' /\ Onward
  <1>1. \A o, s, r : Told(o, s, r) => AckShape'
    BY DEF Told, AckShape
  <1>2. acked' = acked => AckShape'
    BY DEF AckShape
  <1>3. clock' = clock \/ clock' = clock + 1 => Onward
    BY DEF Onward
  <1>4. CASE ItemCommand
    <2>1. ASSUME NEW o, BeginPut(o) \/ BeginDelete(o) \/ DeleteAgain(o)
          PROVE (acked' = acked \/ \E s, r : Told(o, s, r)) /\ (clock' = clock \/ clock' = clock + 1)
      BY <2>1 DEF BeginPut, BeginDelete, DeleteAgain, Begin, Issue, SameAck, Undecided, NothingElse
    <2> QED
      BY <1>1, <1>2, <1>3, <1>4, <2>1 DEF ItemCommand
  <1>5. CASE RuleCommand
    <2>1. ASSUME NEW o, BeginPutRule(o) \/ BeginDeleteRule(o)
          PROVE (acked' = acked \/ \E s, r : Told(o, s, r)) /\ clock' = clock + 1
      BY <2>1 DEF BeginPutRule, BeginDeleteRule, Begin, Issue, SameAck, Undecided
    <2> QED
      BY <1>1, <1>2, <1>3, <1>5, <2>1 DEF RuleCommand
  <1>6. CASE SyncCommand
    <2>1. ASSUME NEW o, BeginImport(o)
          PROVE (\E s, r : Told(o, s, r)) /\ clock' = clock + 1
      BY <2>1 DEF BeginImport, Issue, Undecided
    <2>2. ASSUME NEW o, BeginHardDelete(o) PROVE acked' = acked /\ clock' = clock
      BY <2>2 DEF BeginHardDelete, SameAck, NothingElse
    <2> QED
      BY <1>1, <1>2, <1>3, <1>6, <2>1, <2>2 DEF SyncCommand
  <1>7. CASE List \/ Lock
    BY <1>2, <1>3, <1>7 DEF List, Lock, SameAck, NothingElse
  <1>8. CASE WriteStep
    BY <1>1, <1>2, <1>3, <1>8
       DEF WriteStep, Answered, PutChunks, PutMeta, DropChunks, DropReplaced, WriteBody, WriteTomb,
           ClearTomb, SaveIndex, SaveImported, ImportMeta, ImportChunks, SaveHardDelete,
           SameAck, NothingElse
  <1>9. CASE BeginUnlock \/ PurgeStep \/ Unlock
    BY <1>2, <1>3, <1>9 DEF BeginUnlock, PurgeStep, PurgeNext, PurgeBody, PurgeTomb, PurgeMeta,
                            PurgeDone, Unlock, SameAck, NothingElse
  <1>10. CASE Load
    BY <1>2, <1>3, <1>10 DEF Load, LoadIndex, Now, SameAck
  <1>11. CASE KeyStep
    BY <1>2, <1>3, <1>11 DEF KeyStep, LoadOld, Reseal, ResealFails, ResealIndex, WriteEnvelope,
                             WriteHeader, ShowCode, Wipe, Wiped, EmptyIndex, Now, SameAck,
                             NothingElse
  <1>12. CASE BeginRecover
    BY <1>2, <1>3, <1>12 DEF BeginRecover, SameAck
  <1>13. CASE \E reset \in BOOLEAN : BeginInit(reset)
    BY <1>3, <1>13 DEF BeginInit, AckShape
  <1>14. CASE Crash \/ WriteFails \/ LoseIndex \/ GraceEnds \/ UNCHANGED vars
    BY <1>2, <1>3, <1>14 DEF Crash, WriteFails, LoseIndex, GraceEnds, SameAck, NothingElse, vars
  <1>15. CASE AgainStep
    <2>1. acked' = acked /\ (clock' = clock \/ clock' = clock + 1)
      BY <1>15 DEF AgainStep, LoadAgain, SaveAgain, UnlockAgain, AgainFails, SameAck, Issue
    <2> QED
      BY <1>2, <1>3, <2>1
  <1> QED
    BY <1>4, <1>5, <1>6, <1>7, <1>8, <1>9, <1>10, <1>11, <1>12, <1>13, <1>14, <1>15 DEF Next

(* Every step leaves a command at one of its steps, with something to work on. *)
LEMMA WorkingPreserved ==
  ASSUME Shape, Working, [Next]_vars
  PROVE  Working'
  <1>1. AckShape' /\ clock' \in Nat
    BY NewsAndTime DEF Working, Onward
  <1>2. CASE List \/ Lock \/ Unlock \/ Crash \/ WriteFails \/ LoseIndex \/ GraceEnds
    <2>1. op' = Idle
      BY <1>2 DEF List, Lock, Unlock, Crash, WriteFails, LoseIndex, GraceEnds, Unlocked, Free
    <2> QED
      BY <1>1, <2>1, RestWorks DEF Working
  <1>3. CASE BeginUnlock \/ BeginRecover
    <2>1. /\ op'.kind \in {"unlock", "recover"} /\ op'.at = "load"
          /\ op'.kind = "recover" => op'.key # 0 /\ op'.todo = {}
      BY <1>3, KeyBeginsFx
    <2>2. InStep' /\ WorksOn'
      BY <2>1 DEF InStep, WorksOn, MemKinds, Issuing, Purges, Kind
    <2> QED
      BY <1>1, <2>2 DEF Working
  <1>4. CASE \E reset \in BOOLEAN : BeginInit(reset)
    <2>1. op'.kind = "init" /\ op'.at \in {"wipe", "envelope"}
      BY <1>4, BeginInitFx
    <2>2. InStep' /\ WorksOn'
      BY <2>1 DEF InStep, WorksOn, MemKinds, Issuing, Purges, Kind
    <2> QED
      BY <1>1, <2>2 DEF Working
  <1>5. CASE ItemCommand \/ RuleCommand \/ SyncCommand \/ WriteStep \/ PurgeStep \/ KeyStep \/ Load
    BY <1>1, <1>5, BeginningsWork, WritesWork, PurgesWork, KeyStepsWork DEF Working
  <1>6. CASE UNCHANGED vars
    BY <1>1, <1>6 DEF vars, Working, InStep, WorksOn, MemKinds, Issuing, Purges
  <1>7. CASE AgainStep
    <2>1. op' = op /\ (op.kind = "idle" \/ mem'.key = mem.key)
      BY <1>7, AgainFx DEF Idle
    <2>2. clock \in Nat /\ clock <= clock'
      BY NewsAndTime DEF Working, Onward
    <2>3. InStep' /\ WorksOn'
      BY <1>1, <2>1, <2>2 DEF Working, InStep, WorksOn, MemKinds, Issuing, Purges
    <2> QED
      BY <1>1, <2>3 DEF Working
  <1> QED
    BY <1>2, <1>3, <1>4, <1>5, <1>6, <1>7 DEF Next

--------------------------------------------------------------------------------
(***************************************************************************)
(* Which steps touch which files.                                          *)
(***************************************************************************)

(* The steps that touch no file at all. *)
LEMMA IdleFiles ==
  ASSUME \/ ItemCommand \/ RuleCommand \/ SyncCommand \/ Lock \/ PurgeNext \/ Unlock
         \/ BeginUnlock \/ BeginRecover \/ ResealFails \/ ShowCode \/ Crash \/ WriteFails
         \/ (\E reset \in BOOLEAN : BeginInit(reset)) \/ UNCHANGED vars
  PROVE  disk' = disk
  BY DEF ItemCommand, RuleCommand, SyncCommand, Lock, PurgeNext, Unlock, BeginUnlock,
         BeginRecover, ResealFails, ShowCode, Crash, WriteFails, BeginInit, BeginPut, BeginDelete,
         DeleteAgain, BeginPutRule, BeginDeleteRule, BeginImport, BeginHardDelete, SameFiles, vars

(* The object that a step on its files is about. *)
LEMMA Subject ==
  ASSUME Working
  PROVE  /\ WriteBody \/ WriteTomb \/ ClearTomb \/ PurgeBody \/ PurgeTomb => op.id \in Object
         /\ PurgeMeta => op.id \in Object
  BY DEF Working, WorksOn, InStep, Kind, MemKinds, Purges, WriteBody, WriteTomb, ClearTomb,
         PurgeBody, PurgeTomb, PurgeMeta, Running

(* After thirty days no body, no attachment and no index looks different. *)
LEMMA GraceEndsFx ==
  ASSUME Shape, GraceEnds
  PROVE  /\ SameBodies /\ SameAttachments /\ SameIndex
         /\ \A o \in Object : disk'[Tomb(o)].key = disk[Tomb(o)].key
         /\ op = Idle /\ op' = Idle /\ Quiet
  <1>1. \A n \in Name : disk'[n] = IF n \in Tombs /\ Present(n) THEN [disk[n] EXCEPT !.old = TRUE]
                                   ELSE disk[n]
    BY DEF GraceEnds
  <1>2. SameBodies
    BY <1>1, OwnNames DEF SameBodies, Tombs
  <1>3. SameMetas /\ SameChunks
    BY <1>1, AttachNames DEF SameMetas, SameChunks, Tombs
  <1>4. SameIndex
    BY <1>1, IndexName DEF SameIndex, Tombs
  <1>5. ASSUME NEW o \in Object PROVE disk'[Tomb(o)].key = disk[Tomb(o)].key
    <2>1. Tomb(o) \in Name /\ Tomb(o) \in Tombs
      BY OwnNames DEF Tombs
    <2>2. [disk[Tomb(o)] EXCEPT !.old = TRUE].key = disk[Tomb(o)].key
      BY <2>1 DEF Shape, DiskShape, TombShape
    <2> QED
      BY <1>1, <2>1, <2>2
  <1>6. op = Idle /\ op' = Idle /\ Quiet
    BY DEF GraceEnds, SameMemory, SameAck, NothingElse, Quiet
  <1> QED
    BY <1>2, <1>3, <1>4, <1>5, <1>6 DEF SameAttachments

(* The index that is lost is all that is lost. *)
LEMMA LoseIndexFx ==
  ASSUME Shape, LoseIndex
  PROVE  /\ SameBodies /\ SameTombs /\ SameAttachments /\ disk'[Index] = NoIndex
         /\ op = Idle /\ op' = Idle
         /\ mem' = mem /\ acked' = acked /\ clock' = clock /\ interrupted' = interrupted
         /\ synced' = synced
  <1>1. Write(Index, NoIndex)
    BY RemovalWrites, MissingBlobs DEF LoseIndex
  <1> QED
    BY <1>1, IndexWrite DEF Shape, LoseIndex, SameMemory, SameAck

(* Bodies are touched by four steps. *)
LEMMA BodySteps ==
  ASSUME Shape, Working, [Next]_vars
  PROVE  SameBodies \/ WriteBody \/ PurgeBody \/ Reseal \/ Wipe
  <1>0. disk' = disk => SameBodies
    BY DEF SameBodies
  <1>1. CASE WriteStep
    BY <1>1, Subject, PutChunksFx, PutMetaFx, DropChunksFx, DropReplacedFx, WriteTombFx, ClearTombFx,
       SaveIndexFx, SaveImportedFx, ImportMetaFx, ImportChunksFx, SaveHardDeleteFx DEF WriteStep
  <1>2. CASE PurgeTomb \/ PurgeMeta \/ PurgeDone
    BY <1>2, Subject, PurgeTombFx, PurgeMetaFx, PurgeDoneFx
  <1>3. CASE LoadOld \/ ResealIndex \/ WriteEnvelope \/ WriteHeader \/ Wiped \/ EmptyIndex
    BY <1>3, LoadOldFx, ResealIndexFx, FixedStepsFx, EmptyIndexFx DEF SameAll
  <1>4. CASE List \/ Load \/ LoseIndex \/ GraceEnds
    BY <1>4, ListFx, LoadFx, LoseIndexFx, GraceEndsFx
  <1>5. CASE AgainStep
    BY <1>5, AgainFx
  <1> QED
    BY <1>0, <1>1, <1>2, <1>3, <1>4, <1>5, IdleFiles DEF Next, PurgeStep, KeyStep

(* Tombstones by six ... *)
LEMMA TombSteps ==
  ASSUME Shape, Working, [Next]_vars
  PROVE  SameTombs \/ WriteTomb \/ ClearTomb \/ PurgeTomb \/ Reseal \/ Wipe \/ GraceEnds
  <1>0. disk' = disk => SameTombs
    BY DEF SameTombs
  <1>1. CASE WriteStep
    BY <1>1, Subject, PutChunksFx, PutMetaFx, DropChunksFx, DropReplacedFx, WriteBodyFx,
       SaveIndexFx, SaveImportedFx, ImportMetaFx, ImportChunksFx, SaveHardDeleteFx DEF WriteStep
  <1>2. CASE PurgeBody \/ PurgeMeta \/ PurgeDone
    BY <1>2, Subject, PurgeBodyFx, PurgeMetaFx, PurgeDoneFx
  <1>3. CASE LoadOld \/ ResealIndex \/ WriteEnvelope \/ WriteHeader \/ Wiped \/ EmptyIndex
    BY <1>3, LoadOldFx, ResealIndexFx, FixedStepsFx, EmptyIndexFx DEF SameAll
  <1>4. CASE List \/ Load \/ LoseIndex
    BY <1>4, ListFx, LoadFx, LoseIndexFx
  <1>5. CASE AgainStep
    BY <1>5, AgainFx
  <1> QED
    BY <1>0, <1>1, <1>2, <1>3, <1>4, <1>5, IdleFiles DEF Next, PurgeStep, KeyStep

(* ... and the files of attachments by those that write or remove one. *)
LEMMA AttachmentSteps ==
  ASSUME Shape, Working, [Next]_vars
  PROVE  \/ SameAttachments
         \/ PutChunks \/ PutMeta \/ DropChunks \/ DropReplaced \/ ImportMeta \/ ImportChunks
         \/ PurgeMeta \/ Reseal \/ Wipe
  <1>0. disk' = disk => SameAttachments
    BY DEF SameAttachments, SameMetas, SameChunks
  <1>1. CASE WriteStep
    BY <1>1, Subject, WriteBodyFx, WriteTombFx, ClearTombFx, SaveIndexFx, SaveImportedFx,
       SaveHardDeleteFx DEF WriteStep
  <1>2. CASE PurgeBody \/ PurgeTomb \/ PurgeDone
    BY <1>2, Subject, PurgeBodyFx, PurgeTombFx, PurgeDoneFx
  <1>3. CASE LoadOld \/ ResealIndex \/ WriteEnvelope \/ WriteHeader \/ Wiped \/ EmptyIndex
    BY <1>3, LoadOldFx, ResealIndexFx, FixedStepsFx, EmptyIndexFx DEF SameAll
  <1>4. CASE List \/ Load \/ LoseIndex \/ GraceEnds
    BY <1>4, ListFx, LoadFx, LoseIndexFx, GraceEndsFx
  <1>5. CASE AgainStep
    BY <1>5, AgainFx
  <1> QED
    BY <1>0, <1>1, <1>2, <1>3, <1>4, <1>5, IdleFiles DEF Next, PurgeStep, KeyStep

--------------------------------------------------------------------------------
(***************************************************************************)
(* Where the entries come from: those in memory, those a command carries,  *)
(* and those on the disk.                                                  *)
(***************************************************************************)

(* The index in memory. *)
LEMMA MemEntries ==
  ASSUME Shape, Working, [Next]_vars
  PROVE  \/ mem'.index = mem.index
         \/ mem'.index = Empty /\ mem'.next.at = "idle"
         \/ Unlock /\ mem'.index = op.entries
         \/ op.kind \in Issuing /\ op.at = "index" /\ mem'.index = Entered
         \/ /\ op.kind = "hardDelete" /\ op.at = "index"
            /\ mem'.index = [mem.index EXCEPT ![op.id] = NoEntry]
         \/ List
         \/ \E o \in Rule : BeginDeleteRule(o)
         \/ UnlockAgain /\ mem.next.at # "idle" /\ mem'.index = mem.next.entries
  <1>0. (mem' = mem \/ mem' = Locked)
          => mem'.index = mem.index \/ (mem'.index = Empty /\ mem'.next.at = "idle")
    BY DEF Locked, NotAgain
  <1>1. CASE ItemCommand \/ SyncCommand \/ BeginUnlock \/ Lock \/ BeginRecover
             \/ \E reset \in BOOLEAN : BeginInit(reset)
    BY <1>0, <1>1 DEF ItemCommand, SyncCommand, BeginPut, BeginDelete, DeleteAgain, BeginImport,
                      BeginHardDelete, BeginUnlock, Lock, BeginRecover, BeginInit, SameMemory
  <1>2. CASE RuleCommand
    BY <1>0, <1>2 DEF RuleCommand, BeginPutRule, SameMemory
  <1>3. CASE SaveIndex \/ SaveImported \/ SaveHardDelete
    BY <1>3, SaveIndexFx, SaveImportedFx, SaveHardDeleteFx DEF Issuing
  <1>4. CASE \/ PutChunks \/ PutMeta \/ DropChunks \/ DropReplaced \/ WriteBody \/ WriteTomb
             \/ ClearTomb \/ ImportMeta \/ ImportChunks
    BY <1>0, <1>4 DEF PutChunks, PutMeta, DropChunks, DropReplaced, WriteBody, WriteTomb,
                      ClearTomb, ImportMeta, ImportChunks, SameMemory
  <1>5. CASE Load \/ PurgeStep
    BY <1>0, <1>5 DEF Load, PurgeStep, PurgeNext, PurgeBody, PurgeTomb, PurgeMeta, PurgeDone,
                      SameMemory
  <1>6. CASE Unlock
    BY <1>6, UnlockFx
  <1>7. CASE KeyStep
    BY <1>0, <1>7 DEF KeyStep, LoadOld, Reseal, ResealFails, ResealIndex, WriteEnvelope,
                      WriteHeader, ShowCode, Wipe, Wiped, EmptyIndex, SameMemory
  <1>8. CASE Crash \/ LoseIndex \/ GraceEnds \/ UNCHANGED vars
    BY <1>0, <1>8 DEF Crash, LoseIndex, GraceEnds, SameMemory, vars
  <1>9. CASE WriteFails
    <2>1. CASE op.at # "index" \/ op.kind = "init"
      BY <1>0, <1>9, <2>1 DEF WriteFails
    <2>2. CASE op.at = "index" /\ op.kind = "hardDelete"
      <3>1. mem' = [mem EXCEPT !.index[op.id] = NoEntry]
        BY <1>9, <2>2 DEF WriteFails
      <3> QED
        BY <2>2, <3>1 DEF Shape, MemShape
    <2>3. CASE op.at = "index" /\ op.kind \notin {"init", "hardDelete"}
      <3>1. mem' = [mem EXCEPT !.index = Entered]
        BY <1>9, <2>3 DEF WriteFails
      <3>2. mem'.index = Entered
        BY <3>1 DEF Shape, MemShape
      <3>3. op.kind \in Issuing
        BY <2>3 DEF Working, InStep, Kind, Issuing
      <3> QED
        BY <2>3, <3>2, <3>3
    <2> QED
      BY <2>1, <2>2, <2>3
  <1>10. CASE AgainStep
    BY <1>10, AgainFx
  <1> QED
    BY <1>1, <1>2, <1>3, <1>4, <1>5, <1>6, <1>7, <1>8, <1>9, <1>10 DEF Next, WriteStep

(* The entries of a command: those of an unlocking and of a recovery. *)
LEMMA WorkEntries ==
  ASSUME Shape, Working, [Next]_vars
  PROVE  \/ op'.entries = op.entries
         \/ op'.entries = Empty
         \/ op.kind = "unlock" /\ op.at \in {"noTomb", "dropMeta"} /\ PurgedWork
         \/ (Load \/ LoadOld) /\ op'.entries = disk'[Index].entries
  <1>0. op' = Idle => op'.entries = Empty
    BY NoWork
  <1>1. CASE ItemCommand \/ RuleCommand \/ SyncCommand
    <2>0. Item \subseteq Object /\ Rule \subseteq Object
      BY DEF Object
    <2>1. ASSUME NEW o \in Object, BegunOn(o) PROVE op'.entries = Empty
      BY <2>1 DEF BegunOn
    <2>2. ASSUME NEW o, DeleteAgain(o) PROVE op'.entries = op.entries
      BY <2>2 DEF DeleteAgain
    <2>3. ASSUME NEW o \in Item, BeginPut(o) \/ BeginDelete(o) PROVE op'.entries = Empty
      BY <2>0, <2>1, <2>3, BeginPutFx, BeginDeleteFx DEF Working
    <2>4. ASSUME NEW o \in Rule, BeginPutRule(o) \/ BeginDeleteRule(o) PROVE op'.entries = Empty
      BY <2>0, <2>1, <2>4, BeginPutRuleFx, BeginDeleteRuleFx DEF Working
    <2>5. ASSUME NEW o \in Object, BeginImport(o) PROVE op'.entries = Empty
      BY <2>1, <2>5, BeginImportFx DEF Working
    <2>6. ASSUME NEW o \in Object, BeginHardDelete(o) PROVE op'.entries = Empty
      BY <2>6, BeginHardDeleteFx
    <2> QED
      BY <1>1, <2>2, <2>3, <2>4, <2>5, <2>6 DEF ItemCommand, RuleCommand, SyncCommand
  <1>2. CASE WriteStep
    <2>1. CASE SaveIndex \/ SaveHardDelete \/ ImportChunks
      BY <1>0, <2>1 DEF SaveIndex, SaveHardDelete, ImportChunks
    <2>2. CASE \/ PutChunks \/ PutMeta \/ DropChunks \/ DropReplaced \/ WriteBody \/ WriteTomb
               \/ ClearTomb \/ ImportMeta \/ SaveImported
      BY <2>2, Subject, PutChunksFx, PutMetaFx, DropChunksFx, DropReplacedFx, WriteBodyFx,
         WriteTombFx, ClearTombFx, ImportMetaFx, SaveImportedFx DEF SameWork
    <2> QED
      BY <1>2, <2>1, <2>2 DEF WriteStep
  <1>3. CASE PurgeStep
    BY <1>3, Subject, PurgeNextFx, PurgeBodyFx, PurgeTombFx, PurgeMetaFx, PurgeDoneFx
       DEF PurgeStep, SameWork
  <1>4. CASE Load \/ LoadOld
    BY <1>4, LoadFx, LoadOldFx
  <1>5. CASE Reseal
    <2>1. op.key # 0 /\ op.todo \subseteq Objs
      BY <1>5 DEF Reseal, Running, Working, WorksOn
    <2> QED
      BY <1>5, <2>1, ResealFx
  <1>6. CASE ResealIndex \/ WriteEnvelope \/ WriteHeader \/ Wipe \/ Wiped \/ EmptyIndex
    BY <1>6, ResealIndexFx, FixedStepsFx, WipeFx, EmptyIndexFx DEF SameWork
  <1>7. CASE List \/ Lock \/ Unlock \/ Crash \/ WriteFails \/ LoseIndex \/ GraceEnds
             \/ ResealFails \/ ShowCode
    <2>1. op' = Idle
      BY <1>7 DEF List, Lock, Unlock, Crash, WriteFails, LoseIndex, GraceEnds, Unlocked, Free,
                  ResealFails, ShowCode
    <2> QED
      BY <1>0, <2>1
  <1>8. CASE BeginUnlock \/ BeginRecover \/ \E reset \in BOOLEAN : BeginInit(reset)
    BY <1>8, KeyBeginsFx, BeginInitFx
  <1>9. CASE UNCHANGED vars
    BY <1>9 DEF vars
  <1>10. CASE AgainStep
    BY <1>10, AgainFx
  <1> QED
    BY <1>1, <1>2, <1>3, <1>4, <1>5, <1>6, <1>7, <1>8, <1>9, <1>10 DEF Next, KeyStep

(* The index on the disk. *)
LEMMA DiskEntries ==
  ASSUME Shape, Working, [Next]_vars
  PROVE  \/ disk'[Index].entries = disk[Index].entries
         \/ disk'[Index].entries = Empty
         \/ (SaveIndex \/ SaveImported \/ SaveHardDelete \/ List) /\ disk'[Index].entries = mem'.index
         \/ (PurgeDone \/ ResealIndex) /\ disk'[Index].entries = op.entries
         \/ Load \/ LoadOld
         \/ SaveAgain /\ mem.next.at # "idle" /\ disk'[Index].entries = mem.next.entries
  <1>0. SameIndex \/ disk' = disk => disk'[Index].entries = disk[Index].entries
    BY DEF SameIndex
  <1>1. NoIndex.entries = Empty
    BY DEF NoIndex
  <1>2. CASE WriteStep
    <2>1. CASE SaveIndex \/ SaveImported \/ SaveHardDelete
      BY <2>1, SaveIndexFx, SaveImportedFx, SaveHardDeleteFx
    <2>2. CASE \/ PutChunks \/ PutMeta \/ DropChunks \/ DropReplaced \/ WriteBody \/ WriteTomb
               \/ ClearTomb \/ ImportMeta \/ ImportChunks
      BY <1>0, <2>2, Subject, PutChunksFx, PutMetaFx, DropChunksFx, DropReplacedFx, WriteBodyFx,
         WriteTombFx, ClearTombFx, ImportMetaFx, ImportChunksFx
    <2> QED
      BY <1>2, <2>1, <2>2 DEF WriteStep
  <1>3. CASE PurgeBody \/ PurgeTomb \/ PurgeMeta \/ PurgeDone
    BY <1>0, <1>3, Subject, PurgeBodyFx, PurgeTombFx, PurgeMetaFx, PurgeDoneFx
  <1>4. CASE Reseal
    <2>1. op.key # 0 /\ op.todo \subseteq Objs
      BY <1>4 DEF Reseal, Running, Working, WorksOn
    <2> QED
      BY <1>0, <1>4, <2>1, ResealFx DEF SealedAgain
  <1>5. CASE ResealIndex \/ WriteEnvelope \/ WriteHeader \/ Wipe \/ Wiped \/ EmptyIndex
    BY <1>0, <1>1, <1>5, ResealIndexFx, FixedStepsFx, WipeFx, EmptyIndexFx DEF SameAll
  <1>6. CASE List \/ LoseIndex \/ GraceEnds
    BY <1>0, <1>1, <1>6, ListFx, LoseIndexFx, GraceEndsFx
  <1>7. CASE AgainStep
    BY <1>0, <1>7, AgainFx
  <1> QED
    BY <1>0, <1>2, <1>3, <1>4, <1>5, <1>6, <1>7, IdleFiles DEF Next, PurgeStep, KeyStep

(* The last revision a body may have: that of the command under way. *)
Latest == IF op.kind \in Issuing THEN op.rev ELSE clock

(* A command keeps its revision, which was the last one when it began. *)
LEMMA RevisionSteps ==
  ASSUME Shape, Working, [Next]_vars, op'.kind \in Issuing
  PROVE  (op'.kind = op.kind /\ op'.rev = op.rev) \/ op'.rev = clock'
  <1>0. Item \subseteq Object /\ Rule \subseteq Object /\ op' # Idle
    BY DEF Object, Issuing, Idle
  <1>1. CASE ItemCommand \/ RuleCommand \/ SyncCommand
    <2>1. ASSUME NEW o \in Item, BeginPut(o) \/ BeginDelete(o) PROVE op'.rev = clock'
      BY <2>1, BeginPutFx, BeginDeleteFx DEF Working, BegunOn
    <2>2. ASSUME NEW o \in Rule, BeginPutRule(o) \/ BeginDeleteRule(o) PROVE op'.rev = clock'
      BY <2>2, BeginPutRuleFx, BeginDeleteRuleFx DEF Working, BegunOn
    <2>3. ASSUME NEW o \in Object, BeginImport(o) PROVE op'.rev = clock'
      BY <2>3, BeginImportFx DEF Working, BegunOn
    <2>4. ASSUME NEW o \in Object, BeginHardDelete(o) PROVE FALSE
      BY <2>4, BeginHardDeleteFx DEF Issuing
    <2>5. ASSUME NEW o, DeleteAgain(o) PROVE FALSE
      BY <1>0, <2>5 DEF DeleteAgain, Unlocked, Free
    <2> QED
      BY <1>1, <2>1, <2>2, <2>3, <2>4, <2>5 DEF ItemCommand, RuleCommand, SyncCommand
  <1>2. CASE WriteStep
    <2>1. ~SaveIndex /\ ~SaveHardDelete /\ ~ImportChunks
      BY <1>0 DEF SaveIndex, SaveHardDelete, ImportChunks
    <2> QED
      BY <1>2, <2>1, Subject, PutChunksFx, PutMetaFx, DropChunksFx, DropReplacedFx, WriteBodyFx,
         WriteTombFx, ClearTombFx, ImportMetaFx, SaveImportedFx DEF WriteStep, SameWork
  <1>3. CASE PurgeStep
    BY <1>3, Subject, PurgeNextFx, PurgeBodyFx, PurgeTombFx, PurgeMetaFx, PurgeDoneFx
       DEF PurgeStep, SameWork, PurgedWork
  <1>4. CASE Load \/ LoadOld
    BY <1>4, LoadFx, LoadOldFx DEF Issuing
  <1>5. CASE Reseal
    <2>1. op.key # 0 /\ op.todo \subseteq Objs
      BY <1>5 DEF Reseal, Running, Working, WorksOn
    <2> QED
      BY <1>5, <2>1, ResealFx
  <1>6. CASE ResealIndex \/ WriteEnvelope \/ WriteHeader \/ Wipe \/ Wiped \/ EmptyIndex
    BY <1>6, ResealIndexFx, FixedStepsFx, WipeFx, EmptyIndexFx DEF SameWork
  <1>7. ~(List \/ Lock \/ Unlock \/ Crash \/ WriteFails \/ LoseIndex \/ GraceEnds
             \/ ResealFails \/ ShowCode)
    BY <1>0 DEF List, Lock, Unlock, Crash, WriteFails, LoseIndex, GraceEnds, Unlocked, Free,
                ResealFails, ShowCode
  <1>8. CASE BeginUnlock \/ BeginRecover \/ \E reset \in BOOLEAN : BeginInit(reset)
    BY <1>8, KeyBeginsFx, BeginInitFx DEF Issuing
  <1>9. CASE AgainStep \/ UNCHANGED vars
    BY <1>9, AgainFx DEF vars
  <1> QED
    BY <1>1, <1>2, <1>3, <1>4, <1>5, <1>6, <1>7, <1>8, <1>9 DEF Next, KeyStep

(* It does not go back. *)
LEMMA LatestGrows ==
  ASSUME Shape, Working, [Next]_vars
  PROVE  Latest \in Nat /\ Latest' \in Nat /\ Latest <= clock /\ Latest <= Latest'
  <1>1. clock \in Nat /\ clock' \in Nat /\ clock <= clock'
    BY NewsAndTime DEF Working, Onward
  <1>2. Latest \in Nat /\ Latest <= clock
    BY <1>1 DEF Working, WorksOn, Latest
  <1>3. CASE op'.kind \in Issuing
    BY <1>1, <1>2, <1>3, RevisionSteps DEF Latest
  <1>4. CASE op'.kind \notin Issuing
    BY <1>1, <1>2, <1>4 DEF Latest
  <1> QED
    BY <1>2, <1>3, <1>4

--------------------------------------------------------------------------------
(***************************************************************************)
(* No index is ahead of the files: neither the one on the disk, nor the    *)
(* one in memory, nor the one a command carries with it, nor that of a     *)
(* vault being opened again, each of which may become the others.          *)
(***************************************************************************)

(* Entries of items that a file on the disk bears out, if it is there. *)
NotAhead(E) ==
  /\ E = [o \in Object |-> E[o]]
  /\ \A o \in Item : /\ E[o].rev \in Nat /\ E[o].rev <= Latest
                     /\ Present(Body(o)) => E[o].rev <= disk[Body(o)].rev

(* The steps of a command at which its object is on the disk already. *)
Wrote ==
  \/ op.kind = "put" /\ op.at = "index"
  \/ op.kind = "putRule" /\ op.at \in {"noTomb", "index"}
  \/ op.kind = "delete" /\ op.at \in {"tomb", "index"}
  \/ op.kind = "import" /\ op.at \in {"index", "tomb", "meta", "chunk"}

(* Bodies have revisions that were issued. *)
BodiesIssued == \A o \in Object : disk[Body(o)].rev \in Nat /\ disk[Body(o)].rev <= Latest

AheadInv ==
  /\ NotAhead(disk[Index].entries) /\ NotAhead(mem.index) /\ NotAhead(op.entries)
  /\ mem.next.at # "idle" => NotAhead(mem.next.entries)
  /\ BodiesIssued
  /\ Wrote => Present(Body(op.id)) /\ disk[Body(op.id)].rev = op.rev

(* Entries that go. *)
LEMMA FewerEntries ==
  ASSUME Latest \in Nat, BodiesIssued, NEW E, NotAhead(E), NEW F, F = [o \in Object |-> F[o]],
         \A o \in Object : F[o] \in {NoEntry, E[o]}
  PROVE  NotAhead(F)
  <1>1. NoEntry.rev = 0
    BY DEF NoEntry
  <1>2. ASSUME NEW o \in Item
        PROVE  /\ F[o].rev \in Nat /\ F[o].rev <= Latest
               /\ Present(Body(o)) => F[o].rev <= disk[Body(o)].rev
    <2>1. o \in Object
      BY DEF Object
    <2>2. disk[Body(o)].rev \in Nat
      BY <2>1 DEF BodiesIssued
    <2>3. CASE F[o] = NoEntry
      BY <1>1, <2>2, <2>3
    <2>4. CASE F[o] = E[o]
      BY <2>4 DEF NotAhead
    <2> QED
      BY <2>1, <2>3, <2>4
  <1> QED
    BY <1>2 DEF NotAhead

(* What an index may begin with. *)
LEMMA CredibleIndexes ==
  ASSUME Working, AheadInv
  PROVE  /\ NotAhead(Empty)
         /\ \A k, now : NotAhead(Rebuilt(k, now))
         /\ op.id \in Object => NotAhead([mem.index EXCEPT ![op.id] = NoEntry])
         /\ op.id \in Object => NotAhead([op.entries EXCEPT ![op.id] = NoEntry])
  <1>0. Item \subseteq Object /\ NoEntry.rev = 0 /\ Latest \in Nat
    BY DEF Object, NoEntry, Working, WorksOn, Latest
  <1>1. NotAhead(Empty)
    <2>1. Empty = [o \in Object |-> Empty[o]] /\ \A o \in Object : Empty[o] = NoEntry
      BY DEF Empty
    <2> QED
      BY <1>0, <2>1 DEF NotAhead, AheadInv, BodiesIssued
  <1>2. ASSUME NEW k, NEW now PROVE NotAhead(Rebuilt(k, now))
    <2>1. Rebuilt(k, now) = [o \in Object |-> Rebuilt(k, now)[o]]
      BY DEF Rebuilt
    <2>2. ASSUME NEW o \in Item
          PROVE  Rebuilt(k, now)[o].rev \in {0, disk[Body(o)].rev}
      <3>1. CASE Opens(k, Body(o))
        <4>1. Rebuilt(k, now)[o] = [rev |-> disk[Body(o)].rev, deleted |-> disk[Body(o)].deleted]
          BY <1>0, <3>1 DEF Rebuilt
        <4> QED
          BY <4>1
      <3>2. CASE ~Opens(k, Body(o))
        <4>1. Rebuilt(k, now)[o] = NoEntry
          BY <1>0, <3>2 DEF Rebuilt
        <4> QED
          BY <1>0, <4>1
      <3> QED
        BY <3>1, <3>2
    <2> HIDE DEF Rebuilt
    <2>3. ASSUME NEW o \in Item
          PROVE  /\ Rebuilt(k, now)[o].rev \in Nat /\ Rebuilt(k, now)[o].rev <= Latest
                 /\ Present(Body(o)) => Rebuilt(k, now)[o].rev <= disk[Body(o)].rev
      BY <1>0, <2>2 DEF AheadInv, BodiesIssued
    <2> QED
      BY <2>1, <2>3 DEF NotAhead
  <1>3. ASSUME NEW E, NotAhead(E), NEW i \in Object PROVE NotAhead([E EXCEPT ![i] = NoEntry])
    <2> DEFINE F == [E EXCEPT ![i] = NoEntry]
    <2>1. F = [o \in Object |-> F[o]] /\ \A o \in Object : F[o] \in {NoEntry, E[o]}
      BY <1>3 DEF NotAhead
    <2> HIDE DEF F
    <2>2. NotAhead(F)
      BY <1>0, <1>3, <2>1, FewerEntries DEF AheadInv
    <2> QED
      BY <2>2 DEF F
  <1> QED
    BY <1>1, <1>2, <1>3 DEF AheadInv

(* What a command enters is what it has written. *)
LEMMA CredibleEntry ==
  ASSUME Working, AheadInv, op.kind \in Issuing, op.at = "index"
  PROVE  NotAhead(Entered)
  <1> DEFINE e == [rev |-> op.rev, deleted |-> op.deleted]
             F == [mem.index EXCEPT ![op.id] = e]
  <1>1. Entered \in {mem.index, F}
    BY DEF Entered
  <1>2. op.id \in Object /\ op.rev = Latest /\ Latest \in Nat /\ Item \subseteq Object
    BY DEF Working, WorksOn, Issuing, MemKinds, Object, Latest
  <1>3. op.id \in Item => Present(Body(op.id)) /\ disk[Body(op.id)].rev = op.rev
    BY ObjectAssumption DEF Working, WorksOn, AheadInv, Wrote, Issuing
  <1>4. e.rev = op.rev
    OBVIOUS
  <1> HIDE DEF e
  <1>5. F = [o \in Object |-> F[o]] /\ F[op.id] = e /\ \A o \in Object : o # op.id => F[o] = mem.index[o]
    BY <1>2 DEF AheadInv, NotAhead
  <1> HIDE DEF F
  <1>6. NotAhead(F)
    BY <1>2, <1>3, <1>4, <1>5 DEF AheadInv, NotAhead, BodiesIssued
  <1> QED
    BY <1>1, <1>6 DEF AheadInv

(* Every index of the next state is as good as one of this state. *)
LEMMA NewIndexes ==
  ASSUME Shape, Working, AheadInv, [Next]_vars
  PROVE  /\ NotAhead(mem'.index) /\ NotAhead(op'.entries) /\ NotAhead(disk'[Index].entries)
         /\ mem'.next.at # "idle" => NotAhead(mem'.next.entries)
  <1>0. Item \subseteq Object /\ Latest \in Nat /\ NoEntry.rev = 0
    BY LatestGrows DEF Object, NoEntry
  <1>1. NotAhead(mem'.index)
    <2>1. CASE List
      <3>1. /\ mem'.index = [o \in Object |-> mem'.index[o]]
            /\ \A o \in Object : mem'.index[o] \in {NoEntry, mem.index[o]}
        BY <2>1, ListFx
      <3> QED
        BY <1>0, <3>1, FewerEntries DEF AheadInv
    <2>2. ASSUME NEW o \in Rule, BeginDeleteRule(o) PROVE NotAhead(mem'.index)
      <3> DEFINE e == [rev |-> clock', deleted |-> TRUE]
                 F == [mem.index EXCEPT ![o] = e]
      <3>1. mem'.index \in {mem.index, F} /\ o \notin Item /\ o \in Object
        BY <2>2, BeginDeleteRuleFx, ObjectAssumption DEF Working, Object
      <3> HIDE DEF e
      <3>2. F = [x \in Object |-> F[x]] /\ \A x \in Object : x # o => F[x] = mem.index[x]
        BY <3>1 DEF AheadInv, NotAhead
      <3> HIDE DEF F
      <3>3. NotAhead(F)
        BY <1>0, <3>1, <3>2 DEF AheadInv, NotAhead
      <3> QED
        BY <3>1, <3>3 DEF AheadInv
    <2>3. CASE op.kind = "hardDelete" /\ op.at = "index"
                 /\ mem'.index = [mem.index EXCEPT ![op.id] = NoEntry]
      <3>1. op.id \in Object
        BY <2>3 DEF Working, WorksOn, MemKinds
      <3> QED
        BY <2>3, <3>1, CredibleIndexes
    <2> QED
      BY <2>1, <2>2, <2>3, MemEntries, CredibleIndexes, CredibleEntry DEF AheadInv
  <1>2. disk'[Index].entries = disk[Index].entries \/ (\E k, now : disk'[Index].entries = Rebuilt(k, now))
          => NotAhead(disk'[Index].entries)
    BY CredibleIndexes DEF AheadInv
  <1>3. NotAhead(disk'[Index].entries)
    <2>1. CASE Load \/ LoadOld
      BY <1>2, <2>1, LoadFx, LoadOldFx
    <2> QED
      BY <1>1, <2>1, DiskEntries, CredibleIndexes DEF AheadInv
  <1>4. NotAhead(op'.entries)
    <2>1. CASE op.kind = "unlock" /\ op.at \in {"noTomb", "dropMeta"} /\ PurgedWork
      <3>1. op.id \in Object
        BY <2>1 DEF Working, WorksOn, Purges
      <3> QED
        BY <2>1, <3>1, CredibleIndexes DEF PurgedWork
    <2> QED
      BY <1>3, <2>1, WorkEntries, CredibleIndexes DEF AheadInv
  <1>5. ASSUME mem'.next.at # "idle" PROVE NotAhead(mem'.next.entries)
    <2>1. CASE LoadAgain
      BY <2>1, AgainFx, CredibleIndexes DEF AgainStep, AheadInv
    <2>2. CASE SaveAgain
      BY <2>2, AgainFx DEF AgainStep, AheadInv
    <2>3. CASE mem'.next = mem.next
      BY <1>5, <2>3 DEF AheadInv
    <2> QED
      BY <1>5, <2>1, <2>2, <2>3, MemSteps DEF Shape, Moves, NextMoves
  <1> QED
    BY <1>1, <1>3, <1>4, <1>5

(* A body is written at the revision of its command, which no other exceeds. *)
LEMMA BodiesGrow ==
  ASSUME Shape, Working, AheadInv, [Next]_vars
  PROVE  /\ BodiesIssued'
         /\ \A o \in Object : Present(Body(o))' =>
              \/ Present(Body(o)) /\ disk'[Body(o)].rev = disk[Body(o)].rev
              \/ disk'[Body(o)].rev = Latest
  <1>0. Latest \in Nat /\ Latest' \in Nat /\ Latest <= Latest' /\ NoBody.rev = 0 /\ NoBody.key = 0
    BY LatestGrows DEF NoBody
  <1>1. ASSUME NEW o \in Object
        PROVE  \/ disk'[Body(o)].rev = disk[Body(o)].rev
                  /\ (disk'[Body(o)].key # 0 => disk[Body(o)].key # 0)
               \/ disk'[Body(o)] = NoBody
               \/ disk'[Body(o)].rev = Latest
    <2>1. CASE SameBodies
      BY <2>1 DEF SameBodies
    <2>2. CASE WriteBody
      <3>1. op.id \in Object /\ op.rev = Latest
        BY <2>2, Subject DEF WriteBody, Issuing, Latest
      <3> QED
        BY <2>2, <3>1, WriteBodyFx
    <2>3. CASE PurgeBody
      BY <2>3, Subject, PurgeBodyFx
    <2>4. CASE Reseal
      <3>1. op.key # 0 /\ op.todo \subseteq Objs
        BY <2>4 DEF Reseal, Running, Working, WorksOn
      <3> QED
        BY <2>4, <3>1, ResealFx DEF SealedAgain
    <2>5. CASE Wipe
      BY <2>5, WipeFx
    <2> QED
      BY <2>1, <2>2, <2>3, <2>4, <2>5, BodySteps
  <1>2. BodiesIssued'
    <2>1. ASSUME NEW o \in Object
          PROVE  disk'[Body(o)].rev \in Nat /\ disk'[Body(o)].rev <= Latest'
      <3>1. disk[Body(o)].rev \in Nat /\ disk[Body(o)].rev <= Latest
        BY DEF AheadInv, BodiesIssued
      <3> QED
        BY <1>0, <1>1, <3>1
    <2> QED
      BY <2>1 DEF BodiesIssued
  <1> QED
    BY <1>0, <1>1, <1>2 DEF Present

(* What was true of an index before a step is true of it after. *)
LEMMA StillNotAhead ==
  ASSUME Shape, Working, AheadInv, [Next]_vars, NEW E, NotAhead(E)
  PROVE  /\ E = [o \in Object |-> E[o]]
         /\ \A o \in Item : /\ E[o].rev \in Nat /\ E[o].rev <= Latest'
                            /\ Present(Body(o))' => E[o].rev <= disk'[Body(o)].rev
  <1>0. Latest \in Nat /\ Latest' \in Nat /\ Latest <= Latest' /\ Item \subseteq Object
    BY LatestGrows DEF Object
  <1>1. ASSUME NEW o \in Item
        PROVE  /\ E[o].rev \in Nat /\ E[o].rev <= Latest'
               /\ Present(Body(o))' => E[o].rev <= disk'[Body(o)].rev
    <2>1. /\ E[o].rev \in Nat /\ E[o].rev <= Latest
          /\ Present(Body(o)) => E[o].rev <= disk[Body(o)].rev
      BY DEF NotAhead
    <2> QED
      BY <1>0, <2>1, BodiesGrow
  <1> QED
    BY <1>1 DEF NotAhead

(* A command that has written its object has it on the disk. *)
LEMMA WroteStays ==
  ASSUME Shape, Working, AheadInv, [Next]_vars, Wrote'
  PROVE  (Present(Body(op.id)) /\ disk[Body(op.id)].rev = op.rev)'
  <1>0. op' # Idle /\ Item \subseteq Object /\ Rule \subseteq Object
    BY DEF Wrote, Idle, Object
  <1>1. CASE ItemCommand \/ RuleCommand \/ SyncCommand
    <2>1. ASSUME NEW o \in Item, BeginPut(o) \/ BeginDelete(o) PROVE FALSE
      BY <2>1, BeginPutFx, BeginDeleteFx DEF Working, Wrote
    <2>2. ASSUME NEW o \in Rule, BeginPutRule(o) \/ BeginDeleteRule(o) PROVE FALSE
      BY <2>2, BeginPutRuleFx, BeginDeleteRuleFx DEF Working, Wrote
    <2>3. ASSUME NEW o \in Object, BeginImport(o) \/ BeginHardDelete(o) PROVE FALSE
      BY <2>3, BeginImportFx, BeginHardDeleteFx DEF Working, Wrote
    <2>4. ASSUME NEW o, DeleteAgain(o) PROVE FALSE
      BY <1>0, <2>4 DEF DeleteAgain, Unlocked, Free
    <2> QED
      BY <1>1, <2>1, <2>2, <2>3, <2>4 DEF ItemCommand, RuleCommand, SyncCommand
  <1>2. CASE WriteBody
    <2>1. op.id \in Object /\ mem.key # 0
      BY <1>2, Subject DEF WriteBody, Working, WorksOn, MemKinds
    <2> QED
      BY <1>2, <2>1, WriteBodyFx DEF SameWork, Present
  <1>3. CASE WriteTomb \/ ClearTomb \/ SaveImported \/ ImportMeta
    <2>1. SameBodies /\ SameWork
      BY <1>3, Subject, WriteTombFx, ClearTombFx, SaveImportedFx, ImportMetaFx
    <2>2. Wrote
      BY <1>3, Subject, WriteTombFx, ClearTombFx, SaveImportedFx, ImportMetaFx
         DEF Wrote, SameWork, WriteTomb
    <2>3. op.id \in Object
      BY <2>2 DEF Wrote, Working, WorksOn, MemKinds
    <2> QED
      BY <2>1, <2>2, <2>3 DEF SameBodies, SameWork, Present, AheadInv
  <1>4. CASE PutChunks \/ PutMeta \/ DropChunks \/ DropReplaced
    <2>1. /\ SameWork /\ op'.at \in {"meta", "body", "dropChunk", "dropMeta"}
          /\ op.kind = "import" => op'.at # "meta"
      BY <1>4, PutChunksFx, PutMetaFx, DropChunksFx, DropReplacedFx
    <2> QED
      BY <2>1 DEF Wrote, SameWork
  <1>5. CASE SaveIndex \/ ImportChunks \/ SaveHardDelete \/ List \/ Lock \/ Unlock \/ Crash
             \/ WriteFails \/ LoseIndex \/ GraceEnds \/ ResealFails \/ ShowCode
    BY <1>0, <1>5 DEF SaveIndex, ImportChunks, SaveHardDelete, List, Lock, Unlock, Crash,
                      WriteFails, LoseIndex, GraceEnds, Unlocked, Free, ResealFails, ShowCode
  <1>6. CASE PurgeStep
    <2>1. op.kind \in {"unlock", "hardDelete"} /\ op'.kind = op.kind
      BY <1>6, Subject, PurgeNextFx, PurgeBodyFx, PurgeTombFx, PurgeMetaFx, PurgeDoneFx
         DEF PurgeStep, SameWork, PurgedWork
    <2> QED
      BY <2>1 DEF Wrote
  <1>7. CASE Load \/ LoadOld \/ Reseal \/ ResealIndex \/ WriteEnvelope \/ WriteHeader \/ Wipe
             \/ Wiped \/ EmptyIndex
    <2>1. CASE Reseal
      <3>1. op.key # 0 /\ op.todo \subseteq Objs
        BY <2>1 DEF Reseal, Running, Working, WorksOn
      <3> QED
        BY <2>1, <3>1, ResealFx DEF Wrote
    <2>2. CASE ~Reseal
      BY <1>7, <2>2, LoadFx, LoadOldFx, ResealIndexFx, FixedStepsFx, WipeFx, EmptyIndexFx
         DEF Wrote, SameWork
    <2> QED
      BY <2>1, <2>2
  <1>8. CASE BeginUnlock \/ BeginRecover \/ \E reset \in BOOLEAN : BeginInit(reset)
    BY <1>8, KeyBeginsFx, BeginInitFx DEF Wrote
  <1>9. CASE UNCHANGED vars
    BY <1>9 DEF vars, Wrote, AheadInv, Present
  <1>10. CASE AgainStep
    <2>1. op' = op /\ SameBodies
      BY <1>10, AgainFx
    <2>2. Wrote /\ op.id \in Object
      BY <2>1 DEF Wrote, Working, WorksOn, MemKinds
    <2> QED
      BY <2>1, <2>2 DEF SameBodies, Present, AheadInv
  <1> QED
    BY <1>1, <1>2, <1>3, <1>4, <1>5, <1>6, <1>7, <1>8, <1>9, <1>10 DEF Next, WriteStep, KeyStep

(* No step makes an index run ahead. *)
LEMMA AheadPreserved ==
  ASSUME Shape, Working, AheadInv, [Next]_vars
  PROVE  AheadInv'
  <1>1. /\ NotAhead(mem.index)' /\ NotAhead(op.entries)' /\ NotAhead(disk[Index].entries)'
        /\ mem'.next.at # "idle" => NotAhead(mem.next.entries)'
    BY NewIndexes, StillNotAhead DEF NotAhead
  <1> QED
    BY <1>1, BodiesGrow, WroteStays DEF AheadInv

--------------------------------------------------------------------------------
(***************************************************************************)
(* What is cut off, and which steps a command may take.                    *)
(***************************************************************************)

(* A command that is cut off leaves a tear. *)
LEMMA CutsShow ==
  ASSUME op.kind # "idle", Crash \/ WriteFails \/ ResealFails
  PROVE  \A S : op.at \in S => \E s \in S : <<op.kind, s>> \in interrupted'
  <1>1. op # Idle
    BY DEF Idle
  <1>2. <<op.kind, op.at>> \in interrupted'
    BY <1>1 DEF Crash, WriteFails, ResealFails, Cut
  <1> QED
    BY <1>2

(* Tears stay. *)
LEMMA TearsGrow ==
  ASSUME Shape, [Next]_vars
  PROVE  \A k, S : (\E s \in S : <<k, s>> \in interrupted) => \E s \in S : <<k, s>> \in interrupted'
  BY KeysSteps DEF Shape

(* Steps that only a device at rest takes. *)
LEMMA RestSteps ==
  ASSUME op.kind # "idle"
  PROVE  /\ ~ItemCommand /\ ~RuleCommand /\ ~SyncCommand /\ ~List /\ ~Lock /\ ~LoseIndex
         /\ ~GraceEnds /\ ~BeginUnlock /\ ~BeginRecover
         /\ ~(\E reset \in BOOLEAN : BeginInit(reset))
  <1>1. op # Idle
    BY DEF Idle
  <1> QED
    BY <1>1 DEF ItemCommand, RuleCommand, SyncCommand, BeginPut, BeginDelete, DeleteAgain,
         BeginPutRule, BeginDeleteRule, BeginImport, BeginHardDelete, BeginUnlock, List, Lock,
         LoseIndex, GraceEnds, Unlocked, Free, BeginRecover, BeginInit

(* An unlock of the unlocked vault is under way beside rounds alone. *)
LEMMA NotBeside ==
  ASSUME Shape, op.kind \in {"unlock", "recover", "init"}
  PROVE  ~AgainStep
  BY DEF AgainStep, LoadAgain, SaveAgain, UnlockAgain, AgainFails, Idle, Shape, Beside

(* The steps of an unlocking ... *)
LEMMA UnlockingSteps ==
  ASSUME Shape, Working, op.kind = "unlock", [Next]_vars
  PROVE  Load \/ PurgeStep \/ DropChunks \/ Unlock \/ Crash \/ UNCHANGED vars
  <1>1. ~(WriteStep /\ ~DropChunks) /\ ~KeyStep
    BY DEF WriteStep, PutChunks, PutMeta, DropReplaced, WriteBody, WriteTomb, ClearTomb,
         SaveIndex, SaveImported, ImportMeta, ImportChunks, SaveHardDelete, KeyStep, LoadOld,
         Reseal, ResealFails, ResealIndex, WriteEnvelope, WriteHeader, ShowCode, Wipe, Wiped,
         EmptyIndex, Running
  <1>2. ~WriteFails
    BY DEF WriteFails, Working, InStep
  <1> QED
    BY <1>1, <1>2, RestSteps, NotBeside DEF Next

(* ... of the removal of an object for good ... *)
LEMMA HardDeleteSteps ==
  ASSUME Working, op.kind = "hardDelete", [Next]_vars
  PROVE  \/ PurgeBody \/ PurgeTomb \/ DropChunks \/ PurgeMeta \/ SaveHardDelete
         \/ Crash \/ WriteFails \/ (AgainStep /\ ~UnlockAgain) \/ UNCHANGED vars
  <1>0. ~UnlockAgain
    BY DEF UnlockAgain, Idle
  <1>1. ~(WriteStep /\ ~DropChunks /\ ~SaveHardDelete) /\ ~KeyStep /\ ~Load /\ ~Unlock
        /\ ~PurgeNext /\ ~PurgeDone
    BY DEF WriteStep, PutChunks, PutMeta, DropReplaced, WriteBody, WriteTomb, ClearTomb,
         SaveIndex, SaveImported, ImportMeta, ImportChunks, KeyStep, LoadOld,
         Reseal, ResealFails, ResealIndex, WriteEnvelope, WriteHeader, ShowCode, Wipe, Wiped,
         EmptyIndex, Load, Unlock, PurgeNext, PurgeDone, Running
  <1> QED
    BY <1>0, <1>1, RestSteps DEF Next, PurgeStep

(* ... and of a creation. *)
LEMMA InitSteps ==
  ASSUME Shape, Working, op.kind = "init", [Next]_vars
  PROVE  \/ WriteEnvelope \/ WriteHeader \/ Wipe \/ Wiped \/ EmptyIndex \/ ShowCode
         \/ Crash \/ WriteFails \/ UNCHANGED vars
  <1>1. op.at # "dropChunk"
    BY DEF Working, InStep
  <1>2. ~LoadOld /\ ~Reseal /\ ~ResealFails /\ ~ResealIndex
    BY DEF LoadOld, Reseal, ResealFails, ResealIndex, Running
  <1> QED
    BY <1>1, <1>2, RekeyingSteps DEF KeyStep, Shape

(* The steps of a purge, of a loading and of a wiping are none of another command. *)
LEMMA OtherSteps ==
  /\ op.kind # "init" => ~Wipe /\ ~EmptyIndex /\ ~Wiped
  /\ op.kind \notin {"unlock", "hardDelete"} => ~PurgeBody /\ ~PurgeTomb /\ ~PurgeMeta
  /\ op.kind # "unlock" => ~Load /\ ~PurgeDone /\ ~PurgeNext /\ ~Unlock
  /\ op.kind # "hardDelete" => ~SaveHardDelete
  /\ op.kind # "recover" => ~LoadOld /\ ~Reseal /\ ~ResealIndex /\ ~ResealFails
  BY DEF Wipe, EmptyIndex, Wiped, PurgeBody, PurgeTomb, PurgeMeta, Load, PurgeDone, PurgeNext,
         Unlock, SaveHardDelete, LoadOld, Reseal, ResealIndex, ResealFails, Running

(* A command keeps its kind until it is over: others come only from a device at rest. *)
LEMMA OnlyBegins ==
  ASSUME Shape, Working, [Next]_vars
  PROVE  /\ op'.kind \in {op.kind, "idle"} \/ op = Idle
         /\ op'.kind = "init" => op.kind = "init" \/ \E reset \in BOOLEAN : BeginInit(reset)
         /\ op'.kind = "unlock" => op.kind = "unlock" \/ BeginUnlock
         /\ op'.kind = "recover" => op.kind = "recover" \/ BeginRecover
         /\ op'.kind = "hardDelete" => op.kind = "hardDelete" \/ \E o \in Object : BeginHardDelete(o)
  <1>0. Idle.kind = "idle" /\ Item \subseteq Object /\ Rule \subseteq Object
    BY DEF Idle, Object
  <1>1. CASE ItemCommand \/ RuleCommand \/ SyncCommand
    <2>1. ASSUME NEW o \in Item, BeginPut(o) \/ BeginDelete(o)
          PROVE  op = Idle /\ op'.kind \in {"put", "delete"}
      BY <2>1, BeginPutFx, BeginDeleteFx DEF Working, BegunOn
    <2>2. ASSUME NEW o \in Rule, BeginPutRule(o) \/ BeginDeleteRule(o)
          PROVE  op = Idle /\ op'.kind \in {"putRule", "deleteRule"}
      BY <2>2, BeginPutRuleFx, BeginDeleteRuleFx DEF Working, BegunOn
    <2>3. ASSUME NEW o \in Object, BeginImport(o) PROVE op = Idle /\ op'.kind = "import"
      BY <2>3, BeginImportFx DEF Working, BegunOn
    <2>4. ASSUME NEW o \in Object, BeginHardDelete(o) PROVE op = Idle /\ op'.kind = "hardDelete"
      BY <2>4, BeginHardDeleteFx
    <2>5. ASSUME NEW o, DeleteAgain(o) PROVE op' = op
      BY <2>5 DEF DeleteAgain
    <2> QED
      BY <1>1, <2>1, <2>2, <2>3, <2>4, <2>5 DEF ItemCommand, RuleCommand, SyncCommand
  <1>2. CASE WriteStep
    <2>1. CASE SaveIndex \/ SaveHardDelete \/ ImportChunks
      BY <1>0, <2>1 DEF SaveIndex, SaveHardDelete, ImportChunks
    <2>2. CASE \/ PutChunks \/ PutMeta \/ DropChunks \/ DropReplaced \/ WriteBody \/ WriteTomb
               \/ ClearTomb \/ ImportMeta \/ SaveImported
      BY <2>2, Subject, PutChunksFx, PutMetaFx, DropChunksFx, DropReplacedFx, WriteBodyFx,
         WriteTombFx, ClearTombFx, ImportMetaFx, SaveImportedFx DEF SameWork
    <2> QED
      BY <1>2, <2>1, <2>2 DEF WriteStep
  <1>3. CASE PurgeStep
    BY <1>3, Subject, PurgeNextFx, PurgeBodyFx, PurgeTombFx, PurgeMetaFx, PurgeDoneFx
       DEF PurgeStep, SameWork, PurgedWork
  <1>4. CASE Load \/ LoadOld
    BY <1>4, LoadFx, LoadOldFx
  <1>5. CASE Reseal
    <2>1. op.key # 0 /\ op.todo \subseteq Objs
      BY <1>5 DEF Reseal, Running, Working, WorksOn
    <2> QED
      BY <1>5, <2>1, ResealFx
  <1>6. CASE ResealIndex \/ WriteEnvelope \/ WriteHeader \/ Wipe \/ Wiped \/ EmptyIndex
    BY <1>6, ResealIndexFx, FixedStepsFx, WipeFx, EmptyIndexFx DEF SameWork
  <1>7. CASE List \/ Lock \/ Unlock \/ Crash \/ WriteFails \/ LoseIndex \/ GraceEnds
             \/ ResealFails \/ ShowCode
    BY <1>0, <1>7 DEF List, Lock, Unlock, Crash, WriteFails, LoseIndex, GraceEnds, Unlocked, Free,
                      ResealFails, ShowCode
  <1>8. CASE BeginUnlock
    BY <1>8 DEF BeginUnlock, Idle
  <1>9. CASE BeginRecover
    BY <1>9 DEF BeginRecover, Idle
  <1>10. CASE \E reset \in BOOLEAN : BeginInit(reset)
    BY <1>10, BeginInitFx
  <1>11. CASE AgainStep \/ UNCHANGED vars
    BY <1>11, AgainFx DEF vars
  <1> QED
    BY <1>1, <1>2, <1>3, <1>4, <1>5, <1>6, <1>7, <1>8, <1>9, <1>10, <1>11 DEF Next, KeyStep

--------------------------------------------------------------------------------
(***************************************************************************)
(* What an index lists as alive is there.                                  *)
(***************************************************************************)

(* The entry of o, if it says that o is alive, has its file. *)
Backed(E, o) == E[o] = NoEntry \/ E[o].deleted \/ Present(Body(o))
BackedBut(E, S) == \A o \in Object \ S : Backed(E, o)

(* The object that is being removed, whose file goes before its entry. *)
Being == IF /\ op.kind \in {"unlock", "hardDelete"}
            /\ op.at \in {"noTomb", "dropChunk", "dropMeta", "index"}
         THEN {op.id} ELSE {}

BackedInv ==
  ~KeysTorn /\ ~PurgeTorn /\ ~StaleIndex =>
    /\ BackedBut(op.entries, Being)
    /\ op.kind # "unlock" => BackedBut(mem.index, Being)
    /\ op.kind = "init" /\ op.at = "wipe" => mem.index = Empty /\ op.entries = Empty
    /\ \/ op.kind = "init" /\ op.at = "finish"
       \/ op.kind = "unlock" /\ op.at = "load"
       \/ op.kind \notin {"init", "unlock", "hardDelete"}
       => BackedBut(disk[Index].entries, {})
    /\ op.kind = "unlock" /\ op.at # "load" /\ (op.todo = {} \/ op.at = "finish")
       => disk[Index].entries = op.entries

(* A body goes in a purge and in a wiping, and nowhere else. *)
LEMMA BodiesStay ==
  ASSUME Shape, Working, [Next]_vars, ~Wipe
  PROVE  \A o \in Object : Present(Body(o)) => disk'[Body(o)].key # 0 \/ (PurgeBody /\ o = op.id)
  <1>1. CASE WriteBody
    <2>1. mem.key # 0
      BY <1>1 DEF WriteBody, Working, WorksOn, MemKinds
    <2> QED
      BY <1>1, <2>1, Subject, WriteBodyFx DEF Present
  <1>2. CASE PurgeBody
    BY <1>2, Subject, PurgeBodyFx DEF Present
  <1>3. CASE Reseal
    <2>1. op.key # 0 /\ op.todo \subseteq Objs
      BY <1>3 DEF Reseal, Running, Working, WorksOn
    <2> QED
      BY <1>3, <2>1, ResealFx DEF SealedAgain, Present
  <1> QED
    BY <1>1, <1>2, <1>3, BodySteps DEF SameBodies, Present

(* So an index stays backed, but for the object that is being removed. *)
LEMMA BackedStays ==
  ASSUME Shape, Working, [Next]_vars, ~Wipe, NEW E, NEW S, BackedBut(E, S), PurgeBody => op.id \in S
  PROVE  \A o \in Object \ S : E[o] = NoEntry \/ E[o].deleted \/ disk'[Body(o)].key # 0
  BY BodiesStay DEF BackedBut, Backed

(* Indexes that are backed from the start. *)
LEMMA BackedSources ==
  /\ BackedBut(Empty, {})
  /\ \A k, now : BackedBut(Rebuilt(k, now), {})
  <1>1. \A o \in Object : Empty[o] = NoEntry
    BY DEF Empty
  <1>2. ASSUME NEW k, NEW now, NEW o \in Object
        PROVE  Rebuilt(k, now)[o] = NoEntry \/ Present(Body(o))
    BY DEF Rebuilt, Opens, Present
  <1> QED
    BY <1>1, <1>2 DEF BackedBut, Backed

(* What a vault opened again puts back is backed, unless it has been overtaken. *)
LEMMA AgainBacked ==
  ASSUME Shape, SaveAgain \/ UnlockAgain, ~StaleIndex'
  PROVE  BackedBut(mem.next.entries, {})
  <1>1. mem.next.at \in At /\ Overtaken
    BY DEF SaveAgain, UnlockAgain, At
  <1>2. ~Stale
    BY <1>1 DEF Overtaken, StaleIndex, CutAt
  <1> QED
    BY <1>2 DEF Stale, BackedBut, Backed

(* An entry that is made is backed. *)
LEMMA BackedEntry ==
  ASSUME Working, AheadInv, op.kind \in Issuing, op.at = "index", BackedBut(mem.index, {})
  PROVE  BackedBut(Entered, {})
  <1> DEFINE e == [rev |-> op.rev, deleted |-> op.deleted]
             F == [mem.index EXCEPT ![op.id] = e]
  <1>1. Entered \in {mem.index, F}
    BY DEF Entered
  <1>2. op.id \in Object
    BY DEF Working, WorksOn, Issuing, MemKinds
  <1>3. e.deleted \/ Present(Body(op.id))
    BY DEF Working, WorksOn, AheadInv, Wrote, Issuing
  <1> HIDE DEF e
  <1>4. F[op.id] = e /\ \A o \in Object : o # op.id => F[o] = mem.index[o]
    BY <1>2 DEF AheadInv, NotAhead
  <1> HIDE DEF F
  <1>5. BackedBut(F, {})
    BY <1>3, <1>4 DEF BackedBut, Backed
  <1> QED
    BY <1>1, <1>5

(* Commands that remove nothing pass on what is backed. *)
LEMMA OrdinaryBacked ==
  ASSUME Shape, Working, AheadInv, [Next]_vars,
         op.kind \notin {"unlock", "init", "hardDelete"}, ~StaleIndex',
         BackedBut(op.entries, {}), BackedBut(mem.index, {}), BackedBut(disk[Index].entries, {})
  PROVE  /\ BackedBut(op'.entries, {}) /\ BackedBut(mem'.index, {})
         /\ BackedBut(disk'[Index].entries, {})
  <1>1. BackedBut(mem'.index, {})
    <2>1. CASE List
      BY <2>1, ListFx DEF BackedBut, Backed
    <2>2. ASSUME NEW o \in Rule, BeginDeleteRule(o) PROVE BackedBut(mem'.index, {})
      <3> DEFINE e == [rev |-> clock', deleted |-> TRUE]
                 F == [mem.index EXCEPT ![o] = e]
      <3>1. mem'.index \in {mem.index, F} /\ o \in Object
        BY <2>2, BeginDeleteRuleFx DEF Working, Object
      <3>2. e.deleted
        OBVIOUS
      <3> HIDE DEF e
      <3>3. F[o] = e /\ \A x \in Object : x # o => F[x] = mem.index[x]
        BY <3>1 DEF AheadInv, NotAhead
      <3> HIDE DEF F
      <3>4. BackedBut(F, {})
        BY <3>2, <3>3 DEF BackedBut, Backed
      <3> QED
        BY <3>1, <3>4
    <2> QED
      BY <2>1, <2>2, MemEntries, BackedSources, BackedEntry, AgainBacked, OtherSteps
  <1>2. BackedBut(disk'[Index].entries, {})
    <2>1. CASE LoadOld
      BY <2>1, LoadOldFx, BackedSources
    <2> QED
      BY <1>1, <2>1, DiskEntries, BackedSources, AgainBacked, OtherSteps
  <1>3. BackedBut(op'.entries, {})
    BY <1>2, WorkEntries, BackedSources
  <1> QED
    BY <1>1, <1>2, <1>3

(* An unlocking works on what it loaded, and saves that when it has purged anything. *)
LEMMA UnlockingBacked ==
  ASSUME Shape, Working, AheadInv, BackedInv, [Next]_vars, op.kind = "unlock",
         ~KeysTorn', ~PurgeTorn', ~StaleIndex'
  PROVE  BackedInv'
  <1>0. /\ ~KeysTorn /\ ~PurgeTorn /\ ~StaleIndex
    BY TearsGrow DEF KeysTorn, PurgeTorn, StaleIndex, CutAt
  <1>1. /\ BackedBut(op.entries, Being)
        /\ op.at = "load" => BackedBut(disk[Index].entries, {})
        /\ op.at # "load" /\ (op.todo = {} \/ op.at = "finish") => disk[Index].entries = op.entries
    BY <1>0 DEF BackedInv
  <1>2. ~Wipe /\ ~Crash
    <2>1. Crash => PurgeTorn'
      BY CutsShow DEF Working, InStep, PurgeTorn, CutAt, At
    <2> QED
      BY <2>1, OtherSteps
  <1>3. CASE Load
    <2>1. /\ op.at = "load" /\ op'.kind = "unlock" /\ op'.at \in {"finish", "purge"}
          /\ BackedBut(op'.entries, {}) /\ disk'[Index].entries = op'.entries
      BY <1>1, <1>3, LoadFx, BackedSources
    <2>2. ~PurgeBody
      BY <2>1 DEF PurgeBody
    <2>3. \A o \in Object : op'.entries[o] = NoEntry \/ op'.entries[o].deleted \/ disk'[Body(o)].key # 0
      BY <1>2, <2>1, <2>2, BackedStays
    <2> QED
      BY <2>1, <2>3 DEF BackedInv, BackedBut, Backed, Being, Present
  <1>4. CASE PurgeNext
    <2>1. /\ op.at = "purge" /\ op'.kind = "unlock" /\ op'.at = "noBody"
          /\ op'.entries = op.entries /\ op'.todo = op.todo /\ disk' = disk
      BY <1>4, PurgeNextFx
    <2>2. Being = {}
      BY <2>1 DEF Being
    <2> QED
      BY <1>1, <2>1, <2>2 DEF BackedInv, BackedBut, Backed, Being, Present
  <1>5. CASE PurgeBody
    <2>1. /\ op.at = "noBody" /\ SameWork /\ op'.at = "noTomb" /\ SameIndex /\ op.id \in Object
      BY <1>5, Subject, PurgeBodyFx
    <2>2. BackedBut(op.entries, {op.id})
      BY <1>1, <2>1 DEF Being, BackedBut
    <2>3. \A o \in Object \ {op.id} :
            op.entries[o] = NoEntry \/ op.entries[o].deleted \/ disk'[Body(o)].key # 0
      BY <1>2, <2>2, BackedStays
    <2>4. Being' = {op.id}
      BY <2>1 DEF Being, SameWork
    <2> QED
      BY <1>1, <2>1, <2>3, <2>4 DEF BackedInv, BackedBut, Backed, Present, SameWork, SameIndex
  <1>6. CASE DropChunks \/ ((PurgeTomb \/ PurgeMeta) /\ SameWork)
    <2>1. /\ op.at \in {"noTomb", "dropChunk", "dropMeta"} /\ SameWork /\ SameIndex /\ SameBodies
          /\ op'.at \in {"dropChunk", "dropMeta"}
      <3>1. CASE DropChunks
        BY <3>1, DropChunksFx
      <3>2. CASE (PurgeTomb \/ PurgeMeta) /\ SameWork
        <4>1. ~PurgedWork \/ op.id = NoObject
          BY <3>2 DEF PurgedWork, SameWork
        <4>2. op.id # NoObject
          BY <3>2, Subject, ObjectAssumption
        <4> QED
          BY <3>2, <4>1, <4>2, Subject, PurgeTombFx, PurgeMetaFx
      <3> QED
        BY <1>6, <3>1, <3>2
    <2>2. Being = {op.id} /\ Being' = {op.id}
      BY <2>1 DEF Being, SameWork
    <2> QED
      BY <1>1, <2>1, <2>2 DEF BackedInv, BackedBut, Backed, Present, SameWork, SameIndex, SameBodies
  <1>7. CASE (PurgeTomb \/ PurgeMeta) /\ ~SameWork
    <2>1. /\ op.at \in {"noTomb", "dropMeta"} /\ PurgedWork /\ SameBodies /\ op.id \in Object
      BY <1>7, Subject, PurgeTombFx, PurgeMetaFx
    <2>2. Being = {op.id} /\ Being' = {}
      BY <2>1 DEF Being, PurgedWork
    <2>3. ASSUME NEW o \in Object
          PROVE  op'.entries[o] = NoEntry \/ op'.entries[o].deleted \/ Present(Body(o))
      <3>1. CASE o # op.id
        <4>1. op'.entries[o] \in {op.entries[o], NoEntry}
          BY <2>1, <3>1 DEF PurgedWork
        <4> QED
          BY <1>1, <2>2, <3>1, <4>1 DEF BackedBut, Backed
      <3>2. CASE o = op.id
        <4>1. op'.entries[o] = NoEntry
          BY <2>1, <3>2 DEF PurgedWork, AheadInv, NotAhead
        <4> QED
          BY <4>1
      <3> QED
        BY <3>1, <3>2
    <2>4. BackedBut(op.entries, Being)'
      BY <2>1, <2>3 DEF BackedBut, Backed, SameBodies, Present
    <2> QED
      BY <2>1, <2>4 DEF BackedInv, PurgedWork
  <1>8. CASE PurgeDone
    <2>1. /\ op.at = "purge" /\ SameWork /\ op'.at = "finish" /\ SameBodies
          /\ op.todo = {} => SameIndex
          /\ op.todo # {} => disk'[Index].entries = op.entries
      BY <1>8, PurgeDoneFx
    <2>2. Being = {} /\ Being' = {}
      BY <2>1 DEF Being
    <2>3. disk'[Index].entries = op'.entries
      BY <1>1, <2>1 DEF SameWork, SameIndex
    <2> QED
      BY <1>1, <2>1, <2>2, <2>3 DEF BackedInv, BackedBut, Backed, Present, SameWork, SameBodies
  <1>9. CASE Unlock
    <2>1. /\ op.at = "finish" /\ op' = Idle /\ disk' = disk /\ mem'.index = op.entries
      BY <1>9, UnlockFx
    <2>2. Being = {} /\ Being' = {} /\ op'.kind = "idle" /\ op'.entries = Empty
      BY <2>1 DEF Being, Idle
    <2>3. BackedBut(op.entries, {}) /\ disk[Index].entries = op.entries /\ BackedBut(Empty, {})
      BY <1>1, <2>1, <2>2, BackedSources
    <2> QED
      BY <2>1, <2>2, <2>3 DEF BackedInv, BackedBut, Backed, Present
  <1>10. CASE UNCHANGED vars
    BY <1>10 DEF vars, BackedInv, KeysTorn, PurgeTorn, StaleIndex, CutAt, BackedBut, Backed, Being, Present
  <1> QED
    BY <1>2, <1>3, <1>4, <1>5, <1>6, <1>7, <1>8, <1>9, <1>10, UnlockingSteps DEF PurgeStep

(* So does the removal of an object for good, which saves the index last. *)
LEMMA HardDeleteBacked ==
  ASSUME Shape, Working, AheadInv, BackedInv, [Next]_vars, op.kind = "hardDelete",
         ~KeysTorn', ~PurgeTorn', ~StaleIndex'
  PROVE  BackedInv'
  <1>0. /\ ~KeysTorn /\ ~PurgeTorn /\ ~StaleIndex
    BY TearsGrow DEF KeysTorn, PurgeTorn, StaleIndex, CutAt
  <1>1. BackedBut(op.entries, Being) /\ BackedBut(mem.index, Being)
    BY <1>0 DEF BackedInv
  <1>2. ~Wipe /\ ~Crash /\ ~WriteFails
    <2>1. Crash \/ WriteFails => PurgeTorn'
      BY CutsShow DEF Working, InStep, PurgeTorn, CutAt, At
    <2> QED
      BY <2>1, OtherSteps
  <1>3. CASE PurgeBody
    <2>1. /\ op.at = "noBody" /\ SameWork /\ op'.at = "noTomb" /\ mem' = mem
      BY <1>3, Subject, PurgeBodyFx DEF Quiet
    <2>2. BackedBut(op.entries, {op.id}) /\ BackedBut(mem.index, {op.id})
      BY <1>1, <2>1 DEF Being, BackedBut
    <2>3. \A o \in Object \ {op.id} :
            op.entries[o] = NoEntry \/ op.entries[o].deleted \/ disk'[Body(o)].key # 0
      BY <1>2, <2>2, BackedStays
    <2>4. \A o \in Object \ {op.id} :
            mem.index[o] = NoEntry \/ mem.index[o].deleted \/ disk'[Body(o)].key # 0
      BY <1>2, <2>2, BackedStays
    <2>5. Being' = {op.id} /\ op'.kind = "hardDelete"
      BY <2>1 DEF Being, SameWork
    <2> QED
      BY <2>1, <2>3, <2>4, <2>5 DEF BackedInv, BackedBut, Backed, Present, SameWork
  <1>4. CASE DropChunks \/ PurgeTomb \/ PurgeMeta
    <2>1. /\ op.at \in {"noTomb", "dropChunk", "dropMeta"} /\ SameWork /\ SameBodies /\ mem' = mem
          /\ op'.at \in {"dropChunk", "dropMeta", "index"}
      BY <1>4, Subject, DropChunksFx, PurgeTombFx, PurgeMetaFx DEF Quiet
    <2>2. Being = {op.id} /\ Being' = {op.id}
      BY <2>1 DEF Being, SameWork
    <2> QED
      BY <1>1, <2>1, <2>2 DEF BackedInv, BackedBut, Backed, Present, SameWork, SameBodies
  <1>5. CASE SaveHardDelete
    <2>1. /\ op.at = "index" /\ op' = Idle /\ mem'.index = [mem.index EXCEPT ![op.id] = NoEntry]
          /\ disk'[Index].entries = mem'.index /\ SameBodies
      BY <1>5, SaveHardDeleteFx
    <2>2. Being = {op.id} /\ op.id \in Object
      BY <2>1 DEF Being, Working, WorksOn, MemKinds
    <2>3. Being' = {} /\ op'.kind = "idle" /\ op'.entries = Empty
      BY <2>1 DEF Being, Idle
    <2>4. ASSUME NEW o \in Object
          PROVE  mem'.index[o] = NoEntry \/ mem'.index[o].deleted \/ Present(Body(o))
      <3>1. CASE o # op.id
        <4>1. mem'.index[o] = mem.index[o]
          BY <2>1, <2>2, <3>1 DEF AheadInv, NotAhead
        <4> QED
          BY <1>1, <2>2, <3>1, <4>1 DEF BackedBut, Backed
      <3>2. CASE o = op.id
        <4>1. mem'.index[o] = NoEntry
          BY <2>1, <2>2, <3>2 DEF AheadInv, NotAhead
        <4> QED
          BY <4>1
      <3> QED
        BY <3>1, <3>2
    <2>5. BackedBut(mem.index, {})'
      BY <2>1, <2>4 DEF BackedBut, Backed, SameBodies, Present
    <2>6. BackedBut(Empty, {})'
      BY BackedSources DEF BackedBut, Backed, Empty
    <2> QED
      BY <2>1, <2>3, <2>5, <2>6 DEF BackedInv
  <1>6. CASE UNCHANGED vars
    BY <1>6 DEF vars, BackedInv, KeysTorn, PurgeTorn, StaleIndex, CutAt, BackedBut, Backed, Being, Present
  <1>7. CASE AgainStep /\ ~UnlockAgain
    <2>1. op' = op /\ mem'.index = mem.index /\ SameBodies
      BY <1>7, AgainFx
    <2> QED
      BY <1>1, <2>1 DEF BackedInv, BackedBut, Backed, Being, Present, SameBodies
  <1> QED
    BY <1>2, <1>3, <1>4, <1>5, <1>6, <1>7, HardDeleteSteps

(* A creation lists nothing. *)
LEMMA InitBacked ==
  ASSUME Shape, Working, AheadInv, BackedInv, [Next]_vars, op.kind = "init",
         ~KeysTorn', ~PurgeTorn', ~StaleIndex'
  PROVE  BackedInv'
  <1>0. /\ ~KeysTorn /\ ~PurgeTorn /\ ~StaleIndex
    BY TearsGrow DEF KeysTorn, PurgeTorn, StaleIndex, CutAt
  <1>1. /\ BackedBut(op.entries, {}) /\ BackedBut(mem.index, {})
        /\ op.at = "wipe" => mem.index = Empty /\ op.entries = Empty
        /\ op.at = "finish" => BackedBut(disk[Index].entries, {})
    BY <1>0 DEF BackedInv, Being
  <1>2. ~Crash /\ ~WriteFails
    BY CutsShow DEF Working, InStep, KeysTorn, CutAt, At
  <1>3. CASE WriteEnvelope \/ WriteHeader \/ Wiped
    <2>1. SameWork /\ mem' = mem /\ SameAll /\ op'.at \in {"header", "index", "envelope"}
      BY <1>3, FixedStepsFx DEF Quiet
    <2>2. Being' = {}
      BY <2>1 DEF Being, SameWork
    <2> QED
      BY <1>1, <2>1, <2>2 DEF BackedInv, BackedBut, Backed, Present, SameWork, SameAll, SameBodies
  <1>4. CASE Wipe
    <2>1. op.at = "wipe" /\ op'.kind = "init" /\ op'.at = "wipe" /\ mem' = mem
          /\ op'.entries = op.entries
      BY <1>4, WipeFx DEF Quiet
    <2>2. mem'.index = Empty /\ op'.entries = Empty
      BY <1>1, <2>1
    <2>3. BackedBut(Empty, {})'
      BY BackedSources DEF BackedBut, Backed, Empty
    <2>4. Being' = {}
      BY <2>1 DEF Being
    <2> QED
      BY <2>1, <2>2, <2>3, <2>4 DEF BackedInv
  <1>5. CASE EmptyIndex
    <2>1. SameWork /\ mem' = mem /\ SameBodies /\ op'.at = "finish" /\ disk'[Index].entries = Empty
      BY <1>5, EmptyIndexFx DEF Quiet
    <2>2. Being' = {}
      BY <2>1 DEF Being
    <2>3. BackedBut(Empty, {})'
      BY BackedSources DEF BackedBut, Backed, Empty
    <2> QED
      BY <1>1, <2>1, <2>2, <2>3 DEF BackedInv, BackedBut, Backed, Present, SameWork, SameBodies
  <1>6. CASE ShowCode
    <2>1. op.at = "finish" /\ op' = Idle /\ mem' = mem /\ disk' = disk
      BY <1>6 DEF ShowCode, SameFiles, SameMemory
    <2>2. Being' = {} /\ op'.entries = Empty /\ op'.kind = "idle"
      BY <2>1 DEF Being, Idle
    <2>3. BackedBut(Empty, {})'
      BY BackedSources DEF BackedBut, Backed, Empty
    <2> QED
      BY <1>1, <2>1, <2>2, <2>3 DEF BackedInv, BackedBut, Backed, Present
  <1>7. CASE UNCHANGED vars
    BY <1>7 DEF vars, BackedInv, KeysTorn, PurgeTorn, StaleIndex, CutAt, BackedBut, Backed, Being, Present
  <1> QED
    BY <1>2, <1>3, <1>4, <1>5, <1>6, <1>7, InitSteps

(* Every step keeps what is listed there. *)
LEMMA BackedPreserved ==
  ASSUME Shape, Working, AheadInv, BackedInv, [Next]_vars
  PROVE  BackedInv'
  <1> SUFFICES ASSUME ~KeysTorn', ~PurgeTorn', ~StaleIndex' PROVE BackedInv'
    BY DEF BackedInv
  <1>0. /\ ~KeysTorn /\ ~PurgeTorn /\ ~StaleIndex
    BY TearsGrow DEF KeysTorn, PurgeTorn, StaleIndex, CutAt
  <1>1. CASE op.kind \notin {"unlock", "init", "hardDelete"}
    <2>1. BackedBut(op.entries, {}) /\ BackedBut(mem.index, {}) /\ BackedBut(disk[Index].entries, {})
      BY <1>0, <1>1 DEF BackedInv, Being
    <2>2. BackedBut(op'.entries, {}) /\ BackedBut(mem'.index, {}) /\ BackedBut(disk'[Index].entries, {})
      BY <1>1, <2>1, OrdinaryBacked
    <2>3. ~Wipe /\ ~PurgeBody
      BY <1>1, OtherSteps
    <2>4. BackedBut(op.entries, {})' /\ BackedBut(mem.index, {})' /\ BackedBut(disk[Index].entries, {})'
      BY <2>2, <2>3, BodiesStay DEF BackedBut, Backed, Present
    <2>5. Being' \subseteq {op'.id} /\ BackedBut(op.entries, Being)' /\ BackedBut(mem.index, Being)'
      BY <2>4 DEF BackedBut, Being
    <2>6. op'.kind = "init" => op'.at # "wipe" \/ (mem'.index = Empty /\ op'.entries = Empty)
      <3>1. CASE \E reset \in BOOLEAN : BeginInit(reset)
        BY <3>1, BeginInitFx DEF Locked
      <3>2. CASE ~(\E reset \in BOOLEAN : BeginInit(reset))
        BY <1>1, <3>2, OnlyBegins
      <3> QED
        BY <3>1, <3>2
    <2>7. op'.kind = "unlock" => op'.at = "load"
      <3>1. CASE BeginUnlock
        BY <3>1, KeyBeginsFx
      <3>2. CASE ~BeginUnlock
        BY <1>1, <3>2, OnlyBegins
      <3> QED
        BY <3>1, <3>2
    <2> QED
      BY <2>4, <2>5, <2>6, <2>7 DEF BackedInv
  <1> QED
    BY <1>1, UnlockingBacked, HardDeleteBacked, InitBacked

(* Before anything is stored, nothing is listed. *)
LEMMA FilesStart == Init => Working /\ AheadInv /\ BackedInv
  <1> SUFFICES ASSUME Init PROVE Working /\ AheadInv /\ BackedInv
    OBVIOUS
  <1>1. /\ op = Idle /\ mem.index = Empty /\ mem.next.at = "idle" /\ clock = 0
        /\ \A n \in Name : disk[n] = Missing(n)
    BY DEF Init, Locked, NotAgain
  <1>2. /\ op.kind = "idle" /\ op.at = "idle" /\ op.entries = Empty /\ op.kind \notin MemKinds
        /\ op.kind \notin Issuing
    BY <1>1 DEF Idle, MemKinds, Issuing
  <1>3. disk[Index].entries = Empty /\ \A o \in Object : disk[Body(o)].rev = 0
    BY <1>1, MissingBlobs, IndexName, OwnNames DEF NoIndex, NoBody
  <1>4. Working
    BY <1>1, <1>2 DEF Init, Working, InStep, WorksOn, AckShape, Kind, Purges
  <1>5. Empty = [o \in Object |-> Empty[o]] /\ \A o \in Object : Empty[o].rev = 0
    BY DEF Empty, NoEntry
  <1>6. AheadInv
    <2>0. Latest = 0
      BY <1>1, <1>2 DEF Latest
    <2>1. NotAhead(Empty)
      <3>1. \A o \in Item : Empty[o].rev = 0 /\ disk[Body(o)].rev = 0
        BY <1>3, <1>5 DEF Object
      <3> QED
        BY <1>5, <2>0, <3>1 DEF NotAhead
    <2>2. BodiesIssued
      BY <1>3, <2>0 DEF BodiesIssued
    <2> QED
      BY <1>1, <1>2, <1>3, <2>1, <2>2 DEF AheadInv, Wrote
  <1>7. BackedBut(Empty, {}) /\ Being = {}
    BY <1>2, BackedSources DEF Being
  <1>8. BackedInv
    BY <1>1, <1>2, <1>3, <1>7 DEF BackedInv
  <1> QED
    BY <1>4, <1>6, <1>8

(* What the index on disk announces to the sync engine is there to be read, on every vault and *)
(* through every sequence of commands, crashes, failed writes, losses of the index, recoveries *)
(* and creations: no entry of an item names a revision newer than its file, and no rule is     *)
(* listed as alive without its file, unless a purge is under way or was cut off, or an unlock  *)
(* of the unlocked vault has put an index back that had been overtaken.                        *)
THEOREM IndexIsNeverAhead == Spec => []IndexNeverAhead
  <1> DEFINE Inv == Shape /\ Working /\ AheadInv /\ BackedInv
  <1>1. Init => Inv
    BY KeysStart, FilesStart
  <1>2. Inv /\ [Next]_vars => Inv'
    BY ShapePreserved, WorkingPreserved, AheadPreserved, BackedPreserved
  <1>3. Inv => IndexNeverAhead
    <2> SUFFICES ASSUME Inv, ~Rekeying, ~KeysTorn, Present(Index), NEW o \in Object,
                        disk[Index].entries[o] # NoEntry
                 PROVE  /\ Present(Body(o)) /\ o \in Item
                             => disk[Index].entries[o].rev <= disk[Body(o)].rev
                        /\ \/ Present(Body(o)) \/ disk[Index].entries[o].deleted
                           \/ Purging \/ PurgeTorn \/ StaleIndex
      BY DEF IndexNeverAhead
    <2>1. Present(Body(o)) /\ o \in Item => disk[Index].entries[o].rev <= disk[Body(o)].rev
      BY DEF AheadInv, NotAhead
    <2>2. ~Purging /\ ~PurgeTorn /\ ~StaleIndex => BackedBut(disk[Index].entries, {})
      BY DEF BackedInv, Purging, Rekeying
    <2> QED
      BY <2>1, <2>2 DEF BackedBut, Backed
  <1> QED
    BY <1>1, <1>2, <1>3, PTL DEF Spec

--------------------------------------------------------------------------------
(***************************************************************************)
(* An attachment belongs to one item, and is complete as long as its item  *)
(* refers to it.                                                           *)
(***************************************************************************)

(* The attachment of an object, if it has one. *)
AttOf(o) == disk[Body(o)].attach

(* Metadata and chunks are there. *)
Whole(a) == a # NoAttach => Present(Chunk(a)) /\ Present(Meta(a))

(* A replacement was cut off between the old attachment and the new one. *)
UpdateTorn == CutAt("put", {"dropMeta", "body"}) \/ CutAt("import", At)

MayAttach == Attach \cup {NoAttach}

AttTypes ==
  /\ \A o \in Object : AttOf(o) \in MayAttach
  /\ op.attach \in MayAttach /\ op.drop \in MayAttach

MetaShape == \A a \in Attach : disk[Meta(a)] = [key |-> disk[Meta(a)].key, inner |-> disk[Meta(a)].inner]

(* Only items have one, each its own. *)
OwnAttach ==
  /\ \A o \in Object : AttOf(o) # NoAttach => Present(Body(o)) /\ o \in Item
  /\ \A o, p \in Object : o # p /\ AttOf(o) = AttOf(p) => AttOf(o) = NoAttach

(* No other object has the attachments of the command under way. *)
OwnWork ==
  /\ op.kind \in {"put", "delete", "import"} /\ op.attach # NoAttach =>
       \A p \in Object : AttOf(p) = op.attach => p = op.id
  /\ op.drop # NoAttach => \A p \in Object : AttOf(p) = op.drop => p = op.id
  /\ op.kind \in {"put", "import"} /\ op.drop # NoAttach => op.drop # op.attach
  /\ op.kind \in {"unlock", "hardDelete"} /\ op.at \in {"noTomb", "dropChunk", "dropMeta"} =>
       AttOf(op.id) = NoAttach

(* The attachments of all objects are complete, but for that of an update under way. *)
OthersWhole ==
  op.kind # "init" =>
    \A o \in Object : ~(op.kind \in {"put", "import"} /\ op.id = o) => Whole(AttOf(o))

(* The update completes the new one before it gives up the old. *)
PutWhole ==
  op.kind = "put" =>
    /\ op.at \in {"chunk", "meta", "dropChunk"} => Whole(AttOf(op.id))
    /\ op.at \in {"chunk", "meta"} => op.attach \in Attach
    /\ op.at = "meta" => Present(Chunk(op.attach))
    /\ op.at \in {"dropChunk", "dropMeta", "body", "index"} => Whole(op.attach)
    /\ op.at = "index" => AttOf(op.id) = op.attach

(* An import gives up the old one first, and ends with the new. *)
ImportWhole ==
  op.kind = "import" =>
    /\ op.todo = {} => /\ op.attach = AttOf(op.id) /\ Whole(op.attach) /\ op.drop = NoAttach
                       /\ op.at \notin {"dropChunk", "dropMeta"}
    /\ op.todo # {} => op.attach \in Attach /\ op.id \in Item
    /\ op.todo # {} /\ op.at = "chunk" => Present(Meta(op.attach))
    /\ op.at \in {"index", "tomb", "meta", "chunk"} => AttOf(op.id) = op.attach

(* Other commands keep what they find; a wiping has the bodies still to remove on its list. *)
KeepsAttach ==
  /\ op.kind = "delete" => op.attach = AttOf(op.id)
  /\ op.kind = "putRule" => op.attach = NoAttach
  /\ op.kind = "init" =>
       \A o \in Object : AttOf(o) # NoAttach => op.at = "wipe" /\ Body(o) \in op.todo

Attached == OwnAttach /\ OwnWork /\ OthersWhole /\ PutWhole /\ ImportWhole /\ KeepsAttach

AttachInv ==
  /\ AttTypes /\ MetaShape
  /\ ~KeysTorn /\ ~UpdateTorn => Attached

(* An attachment is one of the model's, whatever happens. *)
LEMMA AttTypesPreserved ==
  ASSUME Shape, Working, AttTypes, [Next]_vars
  PROVE  AttTypes'
  <1>0. NoBody.attach = NoAttach /\ NoAttach \in MayAttach /\ FreshAttach \subseteq MayAttach
        /\ Idle.attach = NoAttach /\ Idle.drop = NoAttach
        /\ Item \subseteq Object /\ Rule \subseteq Object
    BY DEF NoBody, MayAttach, FreshAttach, Idle, Object
  <1>1. ASSUME NEW o \in Object PROVE disk'[Body(o)].attach \in MayAttach
    <2>1. CASE SameBodies
      BY <2>1 DEF SameBodies, AttTypes, AttOf
    <2>2. CASE WriteBody
      BY <2>2, Subject, WriteBodyFx DEF AttTypes, AttOf
    <2>3. CASE PurgeBody
      BY <1>0, <2>3, Subject, PurgeBodyFx DEF AttTypes, AttOf
    <2>4. CASE Reseal
      <3>1. op.key # 0 /\ op.todo \subseteq Objs
        BY <2>4 DEF Reseal, Running, Working, WorksOn
      <3> QED
        BY <2>4, <3>1, ResealFx DEF SealedAgain, AttTypes, AttOf
    <2>5. CASE Wipe
      BY <1>0, <2>5, WipeFx DEF AttTypes, AttOf
    <2> QED
      BY <2>1, <2>2, <2>3, <2>4, <2>5, BodySteps
  <1>2. op'.attach \in MayAttach /\ op'.drop \in MayAttach
    <2>0. (op'.attach = op.attach /\ op'.drop \in {op.drop, NoAttach}) \/ op' = Idle
            => op'.attach \in MayAttach /\ op'.drop \in MayAttach
      BY <1>0 DEF AttTypes
    <2>1. CASE ItemCommand \/ RuleCommand \/ SyncCommand
      <3>1. ASSUME NEW o \in Item, BeginPut(o) \/ BeginDelete(o)
            PROVE  op'.attach \in MayAttach /\ op'.drop \in MayAttach
        BY <1>0, <3>1, BeginPutFx, BeginDeleteFx DEF Working, AttTypes, AttOf
      <3>2. ASSUME NEW o \in Rule, BeginPutRule(o) \/ BeginDeleteRule(o)
            PROVE  op'.attach \in MayAttach /\ op'.drop \in MayAttach
        BY <1>0, <3>2, BeginPutRuleFx, BeginDeleteRuleFx DEF Working
      <3>3. ASSUME NEW o \in Object, BeginImport(o)
            PROVE  op'.attach \in MayAttach /\ op'.drop \in MayAttach
        BY <1>0, <3>3, BeginImportFx DEF Working, AttTypes, AttOf
      <3>4. ASSUME NEW o \in Object, BeginHardDelete(o)
            PROVE  op'.attach \in MayAttach /\ op'.drop \in MayAttach
        <4>1. op'.attach = NoAttach
          BY <3>4 DEF BeginHardDelete, Idle
        <4> QED
          BY <1>0, <3>4, <4>1, BeginHardDeleteFx DEF AttTypes, AttOf
      <3>5. ASSUME NEW o, DeleteAgain(o) PROVE op' = op
        BY <3>5 DEF DeleteAgain
      <3> QED
        BY <2>0, <2>1, <3>1, <3>2, <3>3, <3>4, <3>5 DEF ItemCommand, RuleCommand, SyncCommand
    <2>2. CASE WriteStep
      <3>1. CASE SaveIndex \/ SaveHardDelete \/ ImportChunks
        BY <2>0, <3>1 DEF SaveIndex, SaveHardDelete, ImportChunks
      <3>2. CASE \/ PutChunks \/ PutMeta \/ DropChunks \/ DropReplaced \/ WriteBody \/ WriteTomb
                 \/ ClearTomb \/ ImportMeta \/ SaveImported
        BY <2>0, <3>2, Subject, PutChunksFx, PutMetaFx, DropChunksFx, DropReplacedFx, WriteBodyFx,
           WriteTombFx, ClearTombFx, ImportMetaFx, SaveImportedFx DEF SameWork
      <3> QED
        BY <2>2, <3>1, <3>2 DEF WriteStep
    <2>3. CASE PurgeNext
      BY <1>0, <2>3, PurgeNextFx DEF AttTypes, AttOf
    <2>4. CASE PurgeBody \/ PurgeTomb \/ PurgeMeta \/ PurgeDone
      BY <2>0, <2>4, Subject, PurgeBodyFx, PurgeTombFx, PurgeMetaFx, PurgeDoneFx
         DEF SameWork, PurgedWork
    <2>5. CASE Load \/ LoadOld
      BY <2>0, <2>5, LoadFx, LoadOldFx
    <2>6. CASE Reseal
      <3>1. op.key # 0 /\ op.todo \subseteq Objs
        BY <2>6 DEF Reseal, Running, Working, WorksOn
      <3> QED
        BY <2>0, <2>6, <3>1, ResealFx
    <2>7. CASE ResealIndex \/ WriteEnvelope \/ WriteHeader \/ Wipe \/ Wiped \/ EmptyIndex
      BY <2>0, <2>7, ResealIndexFx, FixedStepsFx, WipeFx, EmptyIndexFx DEF SameWork
    <2>8. CASE List \/ Lock \/ Unlock \/ Crash \/ WriteFails \/ LoseIndex \/ GraceEnds
               \/ ResealFails \/ ShowCode
      BY <2>0, <2>8 DEF List, Lock, Unlock, Crash, WriteFails, LoseIndex, GraceEnds, Unlocked, Free,
                        ResealFails, ShowCode
    <2>9. CASE BeginUnlock \/ BeginRecover \/ \E reset \in BOOLEAN : BeginInit(reset)
      <3>1. op'.attach = NoAttach /\ op'.drop = NoAttach
        BY <2>9 DEF BeginUnlock, BeginRecover, BeginInit, Idle
      <3> QED
        BY <1>0, <3>1
    <2>10. CASE AgainStep \/ UNCHANGED vars
      BY <2>0, <2>10, AgainFx DEF vars
    <2> QED
      BY <2>1, <2>2, <2>3, <2>4, <2>5, <2>6, <2>7, <2>8, <2>9, <2>10 DEF Next, KeyStep, PurgeStep
  <1> QED
    BY <1>1, <1>2 DEF AttTypes, AttOf

(* The metadata of an attachment is a record of two keys. *)
LEMMA MetaShapePreserved ==
  ASSUME Shape, Working, MetaShape, [Next]_vars
  PROVE  MetaShape'
  <1> DEFINE Keyed(b) == b = [key |-> b.key, inner |-> b.inner]
  <1>1. ASSUME NEW n, NEW b, Write(n, b), \A a \in Attach : n = Meta(a) => Keyed(b)
        PROVE  MetaShape'
    <2>1. ASSUME NEW a \in Attach PROVE Keyed(disk'[Meta(a)])
      <3>1. Meta(a) \in Name /\ Keyed(disk[Meta(a)])
        BY AttachNames DEF MetaShape
      <3>2. disk'[Meta(a)] = disk[Meta(a)] \/ (n = Meta(a) /\ disk'[Meta(a)] = b)
        BY <1>1, <3>1, OneFile DEF Shape
      <3> HIDE DEF Keyed
      <3> QED
        BY <1>1, <3>1, <3>2
    <2> QED
      BY <2>1 DEF MetaShape
  <1>2. ASSUME NEW a \in Attach PROVE Keyed(Missing(Meta(a)))
    BY MissingBlobs DEF NoMeta
  <1>3. ASSUME NEW k, NEW i PROVE Keyed([key |-> k, inner |-> i])
    OBVIOUS
  <1> HIDE DEF Keyed
  <1>4. ASSUME NEW n, Write(n, Missing(n)) PROVE MetaShape'
    BY <1>1, <1>2, <1>4
  <1>5. CASE SameMetas
    BY <1>5 DEF SameMetas, MetaShape
  <1>6. CASE PutMeta \/ ImportMeta
    <2>1. disk' = disk \/ \E a, k : Write(Meta(a), [key |-> k, inner |-> k])
      BY <1>6 DEF PutMeta, ImportMeta, SameFiles
    <2> QED
      BY <1>1, <1>3, <1>5, <2>1 DEF SameMetas
  <1>7. CASE PutChunks \/ DropChunks \/ ImportChunks
    BY <1>5, <1>7, PutChunksFx, DropChunksFx, ImportChunksFx
  <1>8. CASE DropReplaced \/ PurgeMeta \/ Wipe
    <2>1. \E n : Write(n, Missing(n))
      BY <1>8, RemovalWrites DEF DropReplaced, PurgeMeta, Wipe
    <2> QED
      BY <1>4, <2>1
  <1>9. CASE Reseal
    <2>1. PICK n \in op.todo : Write(n, Resealed(n))
      BY <1>9 DEF Reseal
    <2>2. ASSUME NEW a \in Attach, n = Meta(a) PROVE Keyed(Resealed(n))
      <3>1. Resealed(n) = [key |-> op.key, inner |-> op.key]
        BY <2>2 DEF Resealed, Metas
      <3> QED
        BY <1>3, <3>1
    <2> QED
      BY <1>1, <2>1, <2>2
  <1> QED
    BY <1>5, <1>6, <1>7, <1>8, <1>9, AttachmentSteps DEF SameAttachments

(* Every object's attachment is its own and complete: what holds between commands. *)
SettledAttach == OwnAttach /\ \A o \in Object : Whole(AttOf(o))

(* Attachments whose files stay. *)
LEMMA WholeStays ==
  ASSUME NEW a \in MayAttach, SameAttachments \/ SealedAgain, Whole(a)
  PROVE  Whole(a)'
  BY DEF Whole, MayAttach, SameAttachments, SealedAgain, SameMetas, SameChunks, Present

(* Objects whose files stay keep their attachments. *)
LEMMA OwnStays ==
  ASSUME SameBodies \/ SealedAgain
  PROVE  /\ \A o \in Object : AttOf(o)' = AttOf(o) /\ (Present(Body(o)) => Present(Body(o))')
         /\ OwnAttach => OwnAttach'
  <1>1. ASSUME NEW o \in Object
        PROVE  AttOf(o)' = AttOf(o) /\ (Present(Body(o)) => Present(Body(o))')
    BY DEF SameBodies, SealedAgain, AttOf, Present
  <1> QED
    BY <1>1 DEF OwnAttach

(* What holds between commands holds on. *)
LEMMA SettledStays ==
  ASSUME AttTypes, SettledAttach, (SameBodies /\ SameAttachments) \/ SealedAgain
  PROVE  SettledAttach'
  <1>1. ASSUME NEW o \in Object PROVE Whole(AttOf(o))'
    <2>1. AttOf(o)' = AttOf(o) /\ AttOf(o) \in MayAttach /\ Whole(AttOf(o))
      BY OwnStays DEF AttTypes, SettledAttach
    <2>2. \A a \in MayAttach : Whole(a) => Whole(a)'
      BY WholeStays
    <2> QED
      BY <2>1, <2>2 DEF Whole, Present
  <1> QED
    BY <1>1, OwnStays DEF SettledAttach

(* It holds of every command but an update and a creation, and of these at their ends. *)
LEMMA Settles ==
  ASSUME Working, Attached
  PROVE  /\ op.kind \notin {"put", "import", "init"} => SettledAttach
         /\ op.kind = "put" /\ op.at \in {"chunk", "meta", "dropChunk", "index"} => SettledAttach
         /\ op.kind = "import" /\ op.at = "chunk" /\ op.todo = {} => SettledAttach
         /\ op.kind = "init" /\ op.at = "finish" => SettledAttach
  <1>1. ASSUME op.kind = "put", op.at \in {"chunk", "meta", "dropChunk", "index"}
        PROVE  Whole(AttOf(op.id))
    BY <1>1 DEF Attached, PutWhole
  <1>2. ASSUME op.kind = "import", op.at = "chunk", op.todo = {} PROVE Whole(AttOf(op.id))
    BY <1>2 DEF Attached, ImportWhole
  <1>3. op.kind = "init" /\ op.at = "finish" => \A o \in Object : Whole(AttOf(o))
    BY DEF Attached, KeepsAttach, Whole
  <1> QED
    BY <1>1, <1>2, <1>3 DEF SettledAttach, Attached, OthersWhole

(* A device at rest needs no more. *)
LEMMA RestAttached ==
  ASSUME op' = Idle, SettledAttach'
  PROVE  Attached'
  <1>1. op'.kind = "idle" /\ op'.drop = NoAttach
    BY NoWork
  <1> QED
    BY <1>1 DEF Attached, SettledAttach, OwnWork, OthersWhole, PutWhole, ImportWhole, KeepsAttach

(* Nor does a command that removes or loads. *)
LEMMA RemovingAttached ==
  ASSUME op'.kind \in {"unlock", "recover", "hardDelete", "putRule", "deleteRule"}, SettledAttach',
         op'.kind = "putRule" => op'.attach = NoAttach,
         op'.drop # NoAttach => \A p \in Object : AttOf(p)' = op'.drop => p = op'.id,
         op'.kind \in {"unlock", "hardDelete"} /\ op'.at \in {"noTomb", "dropChunk", "dropMeta"} =>
           disk'[Body(op'.id)].attach = NoAttach
  PROVE  Attached'
  BY DEF Attached, SettledAttach, OwnWork, OthersWhole, PutWhole, ImportWhole, KeepsAttach, AttOf

(* The end of a command, its last files written. *)
LEMMA EndsAttached ==
  ASSUME Shape, Working, AttTypes, Attached, [Next]_vars, ~KeysTorn', ~UpdateTorn',
         \/ SaveIndex \/ SaveHardDelete \/ List \/ Lock \/ Unlock \/ Crash \/ WriteFails
         \/ LoseIndex \/ GraceEnds \/ ResealFails \/ ShowCode
  PROVE  Attached'
  <1>1. op' = Idle /\ SameBodies /\ SameAttachments
    <2>1. CASE Lock \/ Unlock \/ Crash \/ WriteFails \/ ResealFails \/ ShowCode
      <3>1. op' = Idle
        BY <2>1 DEF Lock, Unlock, Crash, WriteFails, ResealFails, ShowCode
      <3> QED
        BY <2>1, <3>1, IdleFiles, NoFileChanges DEF SameAll
    <2>2. CASE SaveIndex \/ SaveHardDelete \/ List \/ LoseIndex \/ GraceEnds
      BY <2>2, SaveIndexFx, SaveHardDeleteFx, ListFx, LoseIndexFx, GraceEndsFx
    <2> QED
      BY <2>1, <2>2
  <1>2. SettledAttach
    <2>1. CASE Crash \/ WriteFails
      <3>1. op.kind # "init"
        BY <2>1, CutsShow DEF Working, InStep, KeysTorn, CutAt, At
      <3>2. op.kind # "import"
        BY <2>1, CutsShow DEF Working, InStep, UpdateTorn, CutAt, At
      <3>3. op.kind = "put" => op.at \notin {"dropMeta", "body"}
        BY <2>1, CutsShow DEF UpdateTorn, CutAt
      <3>4. op.kind = "put" => op.at \in {"chunk", "meta", "dropChunk", "index"}
        BY <3>3 DEF Working, InStep
      <3> QED
        BY <3>1, <3>2, <3>4, Settles
    <2>2. CASE SaveIndex
      BY <2>2, SaveIndexFx, Settles
    <2>3. CASE List \/ Lock \/ LoseIndex \/ GraceEnds
      <3>1. op.kind = "idle"
        BY <2>3, NoWork DEF List, Lock, LoseIndex, GraceEnds, Unlocked, Free
      <3> QED
        BY <3>1, Settles
    <2>4. CASE SaveHardDelete \/ Unlock \/ ResealFails
      BY <2>4, Settles DEF SaveHardDelete, Unlock, ResealFails, Running
    <2>5. CASE ShowCode
      BY <2>5, Settles DEF ShowCode
    <2> QED
      BY <2>1, <2>2, <2>3, <2>4, <2>5
  <1>3. SettledAttach'
    BY <1>1, <1>2, SettledStays
  <1> QED
    BY <1>1, <1>3, RestAttached

(* The beginning of one, on a device whose attachments are in order. *)
LEMMA BeginsAttached ==
  ASSUME Shape, Working, AttTypes, Attached,
         ItemCommand \/ RuleCommand \/ SyncCommand \/ BeginUnlock \/ BeginRecover
  PROVE  Attached'
  <1>0. /\ Item \subseteq Object /\ Rule \subseteq Object /\ Item \cap Rule = {}
        /\ Idle.kind = "idle" /\ disk' = disk
    BY IdleFiles, ObjectAssumption DEF Object, Idle
  <1>1. op.kind = "idle" /\ SettledAttach
    <2>1. op = Idle
      BY DEF ItemCommand, RuleCommand, SyncCommand, BeginPut, BeginDelete, DeleteAgain,
         BeginPutRule, BeginDeleteRule, BeginImport, BeginHardDelete, BeginUnlock, BeginRecover,
         Unlocked, Free
    <2> QED
      BY <1>0, <2>1, Settles
  <1>2. SettledAttach' /\ \A o \in Object : AttOf(o)' = AttOf(o)
    BY <1>0, <1>1, SettledStays, NoFileChanges DEF SameAll, AttOf
  <1>3. OwnAttach
    BY <1>1 DEF SettledAttach
  <1>4. \A a \in FreshAttach : a \in Attach /\ a # NoAttach /\ \A p \in Object : AttOf(p) # a
    BY <1>3, ObjectAssumption DEF FreshAttach, OwnAttach, AttOf
  <1>5. ASSUME NEW o \in Item, BeginPut(o) PROVE Attached'
    <2>1. /\ op'.id = o /\ op'.kind = "put"
          /\ \/ op'.at = "body" /\ op'.attach = AttOf(o) /\ op'.drop = NoAttach
             \/ op'.at = "chunk" /\ op'.attach \in FreshAttach /\ op'.drop = AttOf(o)
      BY <1>5, BeginPutFx DEF Working, BegunOn, AttOf
    <2>2. /\ \A p \in Object : AttOf(p)' = op'.attach /\ op'.attach # NoAttach => p = o
          /\ \A p \in Object : AttOf(p)' = op'.drop /\ op'.drop # NoAttach => p = o
          /\ op'.drop # NoAttach => op'.drop # op'.attach
      BY <1>0, <1>2, <1>3, <1>4, <2>1 DEF OwnAttach
    <2>3. OwnWork'
      BY <2>1, <2>2 DEF OwnWork
    <2>4. Whole(AttOf(o))'
      BY <1>0, <1>2 DEF SettledAttach
    <2>5. op'.at = "body" => Whole(op.attach)'
      BY <1>0, <1>2, <2>1, <2>4 DEF Whole, Present
    <2>6. PutWhole'
      BY <1>4, <2>1, <2>4, <2>5 DEF PutWhole, AttOf
    <2> QED
      BY <1>2, <2>1, <2>3, <2>6 DEF Attached, SettledAttach, OthersWhole, ImportWhole, KeepsAttach
  <1>6. ASSUME NEW o \in Item, BeginDelete(o) PROVE Attached'
    <2>1. op'.id = o /\ op'.kind = "delete" /\ op'.attach = AttOf(o) /\ op'.drop = NoAttach
      BY <1>6, BeginDeleteFx DEF Working, BegunOn, AttOf
    <2>2. OwnWork'
      BY <1>0, <1>2, <1>3, <2>1 DEF OwnWork, OwnAttach
    <2>3. KeepsAttach'
      BY <1>0, <2>1 DEF KeepsAttach, AttOf
    <2> QED
      BY <1>2, <2>1, <2>2, <2>3 DEF Attached, SettledAttach, OthersWhole, ImportWhole, PutWhole
  <1>7. ASSUME NEW o, DeleteAgain(o) PROVE Attached'
    <2>1. op' = Idle
      BY <1>7 DEF DeleteAgain, Unlocked, Free
    <2> QED
      BY <1>2, <2>1, RestAttached
  <1>8. ASSUME NEW o \in Rule, BeginPutRule(o) \/ BeginDeleteRule(o) PROVE Attached'
    <2>1. op'.kind \in {"putRule", "deleteRule"} /\ op'.attach = NoAttach /\ op'.drop = NoAttach
      BY <1>8, BeginPutRuleFx, BeginDeleteRuleFx DEF Working
    <2> QED
      BY <1>2, <2>1, RemovingAttached
  <1>9. ASSUME NEW o \in Object, BeginImport(o) PROVE Attached'
    <2>1. /\ op'.id = o /\ op'.kind = "import"
          /\ \/ /\ op'.attach = AttOf(o) /\ op'.todo = {} /\ op'.drop = NoAttach /\ op'.at = "body"
             \/ /\ op'.attach \in FreshAttach /\ o \in Item /\ op'.todo # {} /\ op'.drop = AttOf(o)
                /\ op'.at \in {"body", "dropChunk"}
      BY <1>9, BeginImportFx DEF Working, BegunOn, AttOf
    <2>2. /\ \A p \in Object : AttOf(p)' = op'.attach /\ op'.attach # NoAttach => p = o
          /\ \A p \in Object : AttOf(p)' = op'.drop /\ op'.drop # NoAttach => p = o
          /\ op'.drop # NoAttach => op'.drop # op'.attach
      BY <1>2, <1>3, <1>4, <2>1 DEF OwnAttach
    <2>3. OwnWork'
      BY <2>1, <2>2 DEF OwnWork
    <2>4. Whole(AttOf(o))'
      BY <1>2 DEF SettledAttach
    <2>5. op'.todo = {} => Whole(op.attach)'
      BY <1>2, <1>4, <2>1, <2>4 DEF Whole, Present
    <2>6. ImportWhole'
      BY <1>0, <1>4, <2>1, <2>5 DEF ImportWhole, AttOf
    <2> QED
      BY <1>2, <2>1, <2>3, <2>6 DEF Attached, SettledAttach, OthersWhole, PutWhole, KeepsAttach
  <1>10. ASSUME NEW o \in Object, BeginHardDelete(o) PROVE Attached'
    <2>1. /\ op'.kind = "hardDelete" /\ op'.at = "noBody" /\ op'.id = o
          /\ op'.drop # NoAttach => op'.drop = AttOf(o)
      BY <1>10, BeginHardDeleteFx DEF AttOf
    <2>2. op'.drop # NoAttach => \A p \in Object : AttOf(p)' = op'.drop => p = op'.id
      BY <1>2, <1>3, <2>1 DEF OwnAttach
    <2> QED
      BY <1>2, <2>1, <2>2, RemovingAttached
  <1>11. CASE BeginUnlock \/ BeginRecover
    BY <1>2, <1>11, KeyBeginsFx, RemovingAttached
  <1> QED
    BY <1>5, <1>6, <1>7, <1>8, <1>9, <1>10, <1>11 DEF ItemCommand, RuleCommand, SyncCommand

(* No file of an attachment goes, unless it is that of d. *)
KeepsBut(d) ==
  \A b \in Attach : b # d => /\ Present(Chunk(b)) => Present(Chunk(b))'
                             /\ Present(Meta(b)) => Present(Meta(b))'

(* Then all others stay complete. *)
LEMMA WholeKept ==
  ASSUME NEW d, KeepsBut(d)
  PROVE  \A a \in MayAttach : (a # d \/ a = NoAttach) /\ Whole(a) => Whole(a)'
  BY DEF KeepsBut, Whole, MayAttach

(* Which steps keep what. *)
LEMMA FilesKept ==
  ASSUME Shape, Working
  PROVE  /\ SameAttachments \/ SealedAgain => KeepsBut(NoAttach)
         /\ PutChunks \/ PutMeta \/ ImportMeta \/ ImportChunks => KeepsBut(NoAttach)
         /\ DropChunks \/ DropReplaced \/ PurgeMeta => KeepsBut(op.drop)
  <1>1. SameAttachments \/ SealedAgain => KeepsBut(NoAttach)
    BY DEF SameAttachments, SealedAgain, SameMetas, SameChunks, KeepsBut, Present
  <1>2. CASE PutChunks \/ ImportChunks
    <2>1. /\ SameMetas
          /\ \A x \in Attach : disk'[Chunk(x)] = OwnKey \/ disk'[Chunk(x)] = disk[Chunk(x)]
      BY <1>2, PutChunksFx, ImportChunksFx DEF SameChunks
    <2>2. OwnKey.key # 0
      BY DEF OwnKey
    <2> QED
      BY <1>1, <2>1, <2>2, <1>2 DEF SameMetas, KeepsBut, Present, PutChunks, ImportChunks,
         DropChunks, DropReplaced, PurgeMeta, Running
  <1>3. CASE PutMeta \/ ImportMeta
    <2>1. mem.key # 0
      BY <1>3 DEF PutMeta, ImportMeta, Running, Working, WorksOn, MemKinds
    <2>2. /\ SameChunks
          /\ \A x \in Attach : disk'[Meta(x)].key = mem.key \/ disk'[Meta(x)] = disk[Meta(x)]
      BY <1>3, PutMetaFx, ImportMetaFx DEF SameMetas
    <2>3. ~DropChunks /\ ~DropReplaced /\ ~PurgeMeta
      BY <1>3 DEF PutMeta, ImportMeta, Running, DropChunks, DropReplaced, PurgeMeta
    <2> QED
      BY <1>1, <2>1, <2>2, <2>3 DEF SameChunks, KeepsBut, Present
  <1>4. CASE DropChunks \/ DropReplaced \/ PurgeMeta
    <2>1. KeepsBut(op.drop)
      BY <1>4, DropChunksFx, DropReplacedFx, PurgeMetaFx DEF SameMetas, SameChunks, KeepsBut, Present
    <2>2. ~PutChunks /\ ~ImportChunks /\ ~PutMeta /\ ~ImportMeta
      BY <1>4 DEF PutMeta, ImportMeta, Running, DropChunks, DropReplaced, PurgeMeta, PutChunks,
                  ImportChunks
    <2> QED
      BY <1>1, <2>1, <2>2
  <1> QED
    BY <1>1, <1>2, <1>3, <1>4

(* The part of Attached that speaks of other objects stays while a command goes on. *)
LEMMA OthersStay ==
  ASSUME Working, AttTypes, Attached, SameBodies, SameWork, NEW d, KeepsBut(d),
         d \in {NoAttach, op.drop},
         op.kind \in {"put", "import"} \/ d = NoAttach \/ AttOf(op.id) = NoAttach,
         op.kind \in {"unlock", "hardDelete"} => op.id \in Object /\ AttOf(op.id) = NoAttach
  PROVE  OwnAttach' /\ OwnWork' /\ OthersWhole'
  <1>0. \A o \in Object : AttOf(o)' = AttOf(o) /\ AttOf(o) \in MayAttach
    BY OwnStays DEF AttTypes
  <1>1. OwnAttach'
    BY OwnStays DEF Attached
  <1>2. OwnWork'
    <2>1. op'.kind \in {"unlock", "hardDelete"} /\ op'.at \in {"noTomb", "dropChunk", "dropMeta"}
            => disk'[Body(op'.id)].attach = NoAttach
      <3> SUFFICES ASSUME op'.kind \in {"unlock", "hardDelete"},
                          op'.at \in {"noTomb", "dropChunk", "dropMeta"}
                   PROVE  disk'[Body(op'.id)].attach = NoAttach
        OBVIOUS
      <3>1. op'.id = op.id /\ op.kind \in {"unlock", "hardDelete"}
        BY DEF SameWork
      <3> QED
        BY <1>0, <3>1 DEF AttOf
    <2> QED
      BY <1>0, <2>1 DEF OwnWork, Attached, SameWork, AttOf
  <1>3. ASSUME op'.kind # "init", NEW o \in Object, ~(op'.kind \in {"put", "import"} /\ op'.id = o)
        PROVE  Whole(AttOf(o))'
    <2>1. AttOf(o)' = AttOf(o) /\ AttOf(o) \in MayAttach /\ Whole(AttOf(o))
      BY <1>0, <1>3 DEF Attached, OthersWhole, SameWork
    <2>2. AttOf(o) # d \/ AttOf(o) = NoAttach
      BY <1>3 DEF Attached, OwnWork, SameWork
    <2>3. \A a \in MayAttach : (a # d \/ a = NoAttach) /\ Whole(a) => Whole(a)'
      BY WholeKept
    <2> QED
      BY <2>1, <2>2, <2>3 DEF Whole, Present
  <1> QED
    BY <1>1, <1>2, <1>3 DEF OthersWhole

(* An item with a new attachment: it is complete before the old one goes. *)
LEMMA PutAttached ==
  ASSUME Shape, Working, AttTypes, Attached, op.kind = "put",
         PutChunks \/ PutMeta \/ DropChunks \/ DropReplaced
  PROVE  Attached'
  <1>0. op.id \in Object /\ op.id \in Item /\ mem.key # 0 /\ NoAttach \notin Attach
    BY ObjectAssumption DEF Working, WorksOn, MemKinds
  <1>1. /\ SameBodies /\ SameWork
        /\ op.attach \in Attach => KeepsBut(NoAttach) \/ op.at \notin {"chunk", "meta"}
        /\ \E d \in {NoAttach, op.drop} : KeepsBut(d)
    BY <1>0, FilesKept, PutChunksFx, PutMetaFx, DropChunksFx, DropReplacedFx
  <1>2. OwnAttach' /\ OwnWork' /\ OthersWhole'
    BY <1>1, OthersStay
  <1>3. /\ \A o \in Object : AttOf(o)' = AttOf(o)
        /\ AttOf(op.id) \in MayAttach /\ op.attach \in MayAttach
    BY <1>0, <1>1, OwnStays DEF AttTypes
  <1>4. op'.kind = "put" /\ op'.id = op.id /\ op'.attach = op.attach /\ op'.drop = op.drop
    BY <1>1 DEF SameWork
  <1>5. AttOf(op.id)' = AttOf(op.id)
    BY <1>0, <1>3, <1>4 DEF AttOf
  <1>6. PutWhole'
    <2>1. CASE PutChunks
      <3>1. op.at = "chunk" /\ op'.at = "meta" /\ KeepsBut(NoAttach) /\ op.attach \in Attach
            /\ disk'[Chunk(op.attach)] = OwnKey
        BY <2>1, FilesKept, PutChunksFx DEF Attached, PutWhole
      <3>2. Present(Chunk(op.attach))'
        BY <1>4, <3>1 DEF OwnKey, Present
      <3>3. Whole(AttOf(op.id))
        BY <3>1 DEF Attached, PutWhole
      <3>4. Whole(AttOf(op.id))'
        BY <1>3, <1>5, <3>1, <3>3, WholeKept DEF Whole, Present
      <3> QED
        BY <1>4, <3>1, <3>2, <3>4 DEF PutWhole
    <2>2. CASE PutMeta
      <3>1. op.at = "meta" /\ op'.at \in {"body", "dropChunk"} /\ KeepsBut(NoAttach)
            /\ op.attach \in Attach /\ disk'[Meta(op.attach)].key = mem.key
            /\ SameChunks /\ Present(Chunk(op.attach)) /\ Whole(AttOf(op.id))
        BY <2>2, FilesKept, PutMetaFx DEF Attached, PutWhole
      <3>2. Whole(op.attach)'
        BY <1>0, <1>4, <3>1 DEF Whole, Present, SameChunks
      <3>3. Whole(AttOf(op.id))'
        BY <1>3, <1>5, <3>1, WholeKept DEF Whole, Present
      <3> QED
        BY <1>4, <3>1, <3>2, <3>3 DEF PutWhole
    <2>3. CASE DropChunks \/ DropReplaced
      <3>1. op.at \in {"dropChunk", "dropMeta"} /\ op'.at \in {"dropMeta", "body"}
            /\ KeepsBut(op.drop) /\ Whole(op.attach)
        BY <2>3, FilesKept, DropChunksFx, DropReplacedFx DEF Attached, PutWhole
      <3>2. op.attach # op.drop \/ op.attach = NoAttach
        BY DEF Attached, OwnWork
      <3>3. Whole(op.attach)'
        BY <1>3, <1>4, <3>1, <3>2, WholeKept DEF Whole, Present
      <3> QED
        BY <1>4, <3>1, <3>3 DEF PutWhole
    <2> QED
      BY <2>1, <2>2, <2>3
  <1>7. ImportWhole' /\ KeepsAttach'
    BY <1>4 DEF ImportWhole, KeepsAttach
  <1> QED
    BY <1>2, <1>6, <1>7 DEF Attached

(* An import, which takes the files in the other order. *)
LEMMA ImportAttached ==
  ASSUME Shape, Working, AttTypes, Attached, op.kind = "import",
         DropChunks \/ DropReplaced \/ SaveImported \/ WriteTomb \/ ImportMeta
  PROVE  Attached'
  <1>0. op.id \in Object /\ mem.key # 0 /\ NoAttach \notin Attach
    BY ObjectAssumption DEF Working, WorksOn, MemKinds
  <1>1. /\ SameBodies /\ SameWork
        /\ \/ KeepsBut(NoAttach) /\ op.at \notin {"dropChunk", "dropMeta"}
           \/ KeepsBut(op.drop) /\ op.at \in {"dropChunk", "dropMeta"}
    BY <1>0, FilesKept, DropChunksFx, DropReplacedFx, SaveImportedFx, WriteTombFx, ImportMetaFx
  <1>2. OwnAttach' /\ OwnWork' /\ OthersWhole'
    BY <1>1, OthersStay
  <1>3. /\ \A o \in Object : AttOf(o)' = AttOf(o)
        /\ AttOf(op.id) \in MayAttach /\ op.attach \in MayAttach
    BY <1>0, <1>1, OwnStays DEF AttTypes
  <1>4. /\ op'.kind = "import" /\ op'.id = op.id /\ op'.attach = op.attach /\ op'.drop = op.drop
        /\ op'.todo = op.todo
    BY <1>1 DEF SameWork
  <1>5. AttOf(op.id)' = AttOf(op.id)
    BY <1>0, <1>3, <1>4 DEF AttOf
  <1>6. ImportWhole
    BY DEF Attached
  <1>7. op.todo = {} => Whole(op.attach)'
    <2> SUFFICES ASSUME op.todo = {} PROVE Whole(op.attach)'
      OBVIOUS
    <2>1. KeepsBut(NoAttach) /\ Whole(op.attach)
      BY <1>1, <1>6 DEF ImportWhole
    <2> QED
      BY <1>3, <1>4, <2>1, WholeKept DEF Whole, Present
  <1>8. op.todo # {} /\ op'.at = "chunk" => Present(Meta(op.attach))'
    <2> SUFFICES ASSUME op.todo # {}, op'.at = "chunk" PROVE Present(Meta(op.attach))'
      OBVIOUS
    <2>1. op.attach \in Attach
      BY <1>6 DEF ImportWhole
    <2>2. ImportMeta
      BY <1>0, DropChunksFx, DropReplacedFx, SaveImportedFx, WriteTombFx
    <2>3. disk'[Meta(op.attach)].key = mem.key
      BY <2>1, <2>2, ImportMetaFx
    <2> QED
      BY <1>0, <1>4, <2>3 DEF Present
  <1>9. /\ op'.at \in {"index", "tomb", "meta", "chunk"} => AttOf(op.id) = op.attach
        /\ op.todo = {} => op'.at \notin {"dropChunk", "dropMeta"}
    <2>1. \/ op.at = "dropChunk" /\ op'.at = "dropMeta"
          \/ op.at = "dropMeta" /\ op'.at = "body"
          \/ op.at \in {"index", "tomb", "meta"} /\ op'.at \in {"tomb", "meta", "chunk"}
      BY <1>0, DropChunksFx, DropReplacedFx, SaveImportedFx, WriteTombFx, ImportMetaFx
    <2> QED
      BY <1>6, <2>1 DEF ImportWhole
  <1>10. ImportWhole'
    BY <1>4, <1>5, <1>6, <1>7, <1>8, <1>9 DEF ImportWhole
  <1>11. PutWhole' /\ KeepsAttach'
    BY <1>4 DEF PutWhole, KeepsAttach
  <1> QED
    BY <1>2, <1>10, <1>11 DEF Attached

(* At its end the new attachment is complete. *)
LEMMA ImportEndsAttached ==
  ASSUME Shape, Working, AttTypes, Attached, ImportChunks
  PROVE  Attached'
  <1>1. op.kind = "import" /\ op.at = "chunk" /\ op' = Idle /\ SameBodies /\ op.id \in Object
        /\ KeepsBut(NoAttach) /\ NoAttach \notin Attach
    BY ImportChunksFx, FilesKept, ObjectAssumption DEF Working, WorksOn, MemKinds
  <1>2. OwnAttach' /\ \A o \in Object : AttOf(o)' = AttOf(o) /\ AttOf(o) \in MayAttach
    BY <1>1, OwnStays DEF Attached, AttTypes
  <1>3. AttOf(op.id) = op.attach
    BY <1>1 DEF Attached, ImportWhole
  <1>4. ASSUME NEW o \in Object PROVE Whole(AttOf(o))'
    <2>1. CASE o # op.id \/ op.todo = {}
      <3>1. Whole(AttOf(o))
        BY <1>1, <1>3, <2>1 DEF Attached, OthersWhole, ImportWhole
      <3> QED
        BY <1>1, <1>2, <3>1, WholeKept DEF Whole, Present
    <2>2. CASE o = op.id /\ op.todo # {}
      <3>1. op.attach \in Attach /\ Present(Meta(op.attach))
        BY <1>1, <2>2 DEF Attached, ImportWhole
      <3>2. disk'[Chunk(op.attach)] = OwnKey /\ SameMetas
        BY <2>2, <3>1, ImportChunksFx
      <3> QED
        BY <1>2, <1>3, <2>2, <3>1, <3>2 DEF Whole, Present, OwnKey, SameMetas
    <2> QED
      BY <2>1, <2>2
  <1> QED
    BY <1>1, <1>2, <1>4, RestAttached DEF SettledAttach

(* A body brings its attachment with it. *)
LEMMA BodyAttached ==
  ASSUME Shape, Working, AttTypes, Attached, WriteBody
  PROVE  Attached'
  <1>0. /\ op.kind \in {"put", "delete", "putRule", "import"} /\ op.at = "body" /\ op.id \in Object
        /\ mem.key # 0
        /\ op.kind \in {"put", "delete"} => op.id \in Item
        /\ op.kind = "putRule" => op.id \in Rule
    BY Subject DEF WriteBody, Working, WorksOn, MemKinds
  <1>1. /\ SameWork /\ op'.at = AfterBody /\ SameAttachments
        /\ disk'[Body(op.id)].key = mem.key /\ disk'[Body(op.id)].attach = op.attach
        /\ \A x \in Object : x # op.id => disk'[Body(x)] = disk[Body(x)]
    BY <1>0, WriteBodyFx
  <1>2. /\ op'.kind = op.kind /\ op'.id = op.id /\ op'.attach = op.attach /\ op'.drop = op.drop
        /\ op'.todo = op.todo
    BY <1>1 DEF SameWork
  <1>3. /\ AttOf(op.id)' = op.attach
        /\ \A x \in Object : x # op.id => AttOf(x)' = AttOf(x)
    BY <1>1, <1>2 DEF AttOf
  <1>4. op.attach # NoAttach => op.id \in Item /\ \A p \in Object : AttOf(p) = op.attach => p = op.id
    <2> SUFFICES ASSUME op.attach # NoAttach
                 PROVE  op.id \in Item /\ \A p \in Object : AttOf(p) = op.attach => p = op.id
      OBVIOUS
    <2>1. op.kind # "putRule"
      BY DEF Attached, KeepsAttach
    <2>2. \A p \in Object : AttOf(p) = op.attach => p = op.id
      BY <1>0, <2>1 DEF Attached, OwnWork
    <2>3. ASSUME op.kind = "import" PROVE op.id \in Item
      <3>1. CASE op.todo = {}
        <4>1. op.attach = AttOf(op.id)
          BY <2>3, <3>1 DEF Attached, ImportWhole
        <4> QED
          BY <1>0, <4>1 DEF Attached, OwnAttach
      <3>2. CASE op.todo # {}
        BY <2>3, <3>2 DEF Attached, ImportWhole
      <3> QED
        BY <3>1, <3>2
    <2> QED
      BY <1>0, <2>1, <2>2, <2>3
  <1>5. OwnAttach'
    <2>1. ASSUME NEW o \in Object, AttOf(o)' # NoAttach PROVE Present(Body(o))' /\ o \in Item
      <3>1. CASE o = op.id
        <4>1. AttOf(o)' = op.attach /\ disk'[Body(o)].key = mem.key
          BY <1>1, <3>1 DEF AttOf
        <4> QED
          BY <1>0, <1>4, <2>1, <3>1, <4>1 DEF Present
      <3>2. CASE o # op.id
        <4>1. disk'[Body(o)] = disk[Body(o)] /\ AttOf(o) # NoAttach
          BY <1>1, <2>1, <3>2 DEF AttOf
        <4>2. Present(Body(o)) /\ o \in Item
          BY <4>1 DEF Attached, OwnAttach
        <4> QED
          BY <4>1, <4>2 DEF Present
      <3> QED
        BY <3>1, <3>2
    <2>2. \A o, p \in Object : o # p /\ AttOf(o)' = AttOf(p)' => AttOf(o)' = NoAttach
      <3> SUFFICES ASSUME NEW o \in Object, NEW p \in Object, o # p, AttOf(o)' = AttOf(p)'
                   PROVE  AttOf(o)' = NoAttach
        OBVIOUS
      <3>1. CASE o # op.id /\ p # op.id
        BY <1>3, <3>1 DEF Attached, OwnAttach
      <3>2. ASSUME o = op.id PROVE AttOf(o)' = NoAttach
        <4>1. AttOf(o)' = op.attach /\ AttOf(p)' = AttOf(p)
          BY <1>1, <1>3, <3>2 DEF AttOf
        <4> QED
          BY <1>4, <3>2, <4>1
      <3>3. ASSUME p = op.id PROVE AttOf(o)' = NoAttach
        <4>1. AttOf(p)' = op.attach /\ AttOf(o)' = AttOf(o)
          BY <1>1, <1>3, <3>3 DEF AttOf
        <4> QED
          BY <1>4, <3>3, <4>1
      <3> QED
        BY <3>1, <3>2, <3>3
    <2> QED
      BY <2>1, <2>2 DEF OwnAttach
  <1>6. OwnWork'
    <2>1. \A p \in Object : AttOf(p)' = op.attach /\ op.attach # NoAttach => p = op.id
      BY <1>3, <1>4
    <2>2. op.drop # NoAttach => \A p \in Object : AttOf(p)' = op.drop => p = op.id
      BY <1>3 DEF Attached, OwnWork
    <2>3. op.kind \in {"put", "import"} /\ op.drop # NoAttach => op.drop # op.attach
      BY DEF Attached, OwnWork
    <2> QED
      BY <1>0, <1>2, <2>1, <2>2, <2>3 DEF OwnWork
  <1>7. \A a \in MayAttach : Whole(a) => Whole(a)'
    BY <1>1, WholeStays
  <1>8. OthersWhole'
    <2> SUFFICES ASSUME NEW o \in Object, ~(op'.kind \in {"put", "import"} /\ op'.id = o)
                 PROVE  Whole(AttOf(o))'
      BY DEF OthersWhole
    <2>1. AttOf(o) \in MayAttach /\ Whole(AttOf(o))
      BY <1>0, <1>2 DEF Attached, OthersWhole, AttTypes
    <2>2. AttOf(o)' = AttOf(o) \/ AttOf(o)' = NoAttach
      <3>1. CASE o # op.id
        BY <1>3, <3>1
      <3>2. CASE o = op.id
        <4>1. op.kind \in {"delete", "putRule"}
          BY <1>0, <1>2, <3>2
        <4>2. op.attach = AttOf(op.id) \/ op.attach = NoAttach
          BY <4>1 DEF Attached, KeepsAttach
        <4>3. AttOf(o)' = op.attach
          BY <1>1, <3>2 DEF AttOf
        <4> QED
          BY <3>2, <4>2, <4>3
      <3> QED
        BY <3>1, <3>2
    <2> QED
      BY <1>7, <2>1, <2>2 DEF Whole, Present
  <1>9. op.attach \in MayAttach
    BY DEF AttTypes
  <1>10. PutWhole'
    <2> SUFFICES ASSUME op'.kind = "put" PROVE PutWhole'
      BY DEF PutWhole
    <2>1. op'.at = "index" /\ Whole(op.attach)
      BY <1>0, <1>1, <1>2 DEF AfterBody, Attached, PutWhole
    <2>2. Whole(op.attach)'
      BY <1>2, <1>7, <1>9, <2>1 DEF Whole, Present
    <2> QED
      BY <1>2, <1>3, <2>1, <2>2 DEF PutWhole
  <1>11. ImportWhole'
    <2> SUFFICES ASSUME op'.kind = "import" PROVE ImportWhole'
      BY DEF ImportWhole
    <2>1. op'.at = "index" /\ ImportWhole
      BY <1>0, <1>1, <1>2 DEF AfterBody, Attached
    <2>2. op.todo = {} => Whole(op.attach)'
      BY <1>2, <1>7, <1>9, <2>1 DEF Whole, Present, ImportWhole
    <2> QED
      BY <1>2, <1>3, <2>1, <2>2 DEF ImportWhole
  <1>12. KeepsAttach'
    BY <1>0, <1>2, <1>3 DEF Attached, KeepsAttach
  <1> QED
    BY <1>5, <1>6, <1>8, <1>10, <1>11, <1>12 DEF Attached

(* The steps of other commands that leave bodies and attachments alone. *)
LEMMA QuietAttached ==
  ASSUME Shape, Working, AttTypes, Attached,
         WriteTomb \/ ClearTomb \/ Load \/ LoadOld \/ Reseal \/ ResealIndex \/ PurgeDone
           \/ (WriteEnvelope /\ op.kind = "recover") \/ (WriteHeader /\ op.kind = "recover"),
         op.kind # "import"
  PROVE  Attached'
  <1>1. CASE WriteTomb \/ ClearTomb
    <2>1. SameBodies /\ SameAttachments /\ SameWork /\ op.kind \in {"delete", "deleteRule", "putRule"}
      BY <1>1, Subject, WriteTombFx, ClearTombFx
    <2>2. KeepsBut(NoAttach)
      BY <2>1, FilesKept
    <2>3. OwnAttach' /\ OwnWork' /\ OthersWhole'
      BY <2>1, <2>2, OthersStay
    <2>4. /\ op'.kind = op.kind /\ op'.id = op.id /\ op'.attach = op.attach
          /\ op.kind = "delete" => AttOf(op.id)' = AttOf(op.id)
      <3>1. op.kind = "delete" => op.id \in Object
        BY DEF Working, WorksOn, MemKinds
      <3> QED
        BY <2>1, <3>1, OwnStays DEF SameWork, AttOf
    <2>5. PutWhole' /\ ImportWhole'
      BY <2>1, <2>4 DEF PutWhole, ImportWhole
    <2>6. KeepsAttach'
      BY <2>1, <2>4 DEF Attached, KeepsAttach
    <2> QED
      BY <2>3, <2>5, <2>6 DEF Attached
  <1>2. CASE ~WriteTomb /\ ~ClearTomb
    <2>1. /\ op.kind \in {"unlock", "recover"} /\ op'.kind = op.kind
          /\ op'.drop = op.drop /\ op'.id = op.id
          /\ op'.at \notin {"noTomb", "dropChunk", "dropMeta"}
          /\ (SameBodies /\ SameAttachments) \/ SealedAgain
      <3>1. CASE Load \/ LoadOld
        BY <3>1, LoadFx, LoadOldFx
      <3>2. CASE PurgeDone \/ ResealIndex
        BY <3>2, PurgeDoneFx, ResealIndexFx DEF SameWork
      <3>3. CASE op.kind = "recover" /\ (WriteEnvelope \/ WriteHeader)
        BY <3>3, FixedStepsFx DEF SameWork, SameAll
      <3>4. CASE Reseal
        <4>1. op.key # 0 /\ op.todo \subseteq Objs
          BY <3>4 DEF Reseal, Running, Working, WorksOn
        <4> QED
          BY <3>4, <4>1, ResealFx
      <3> QED
        BY <1>2, <3>1, <3>2, <3>3, <3>4
    <2>2. SettledAttach'
      BY <2>1, Settles, SettledStays
    <2>3. op'.drop # NoAttach => \A p \in Object : AttOf(p)' = op'.drop => p = op'.id
      BY <2>1, OwnStays DEF Attached, OwnWork
    <2> QED
      BY <2>1, <2>2, <2>3, RemovingAttached
  <1> QED
    BY <1>1, <1>2

(* What is removed for good takes its attachment with it: the body goes first. *)
LEMMA PurgeAttached ==
  ASSUME Shape, Working, AttTypes, Attached, op.kind \in {"unlock", "hardDelete"},
         PurgeNext \/ PurgeBody \/ PurgeTomb \/ DropChunks \/ PurgeMeta
  PROVE  Attached'
  <1>0. SettledAttach
    BY Settles
  <1>1. CASE PurgeNext
    <2>1. /\ op'.kind = "unlock" /\ op'.at = "noBody" /\ SameBodies /\ SameAttachments
          /\ op'.drop # NoAttach => op'.drop = AttOf(op'.id)
          /\ op'.id \in Object
      BY <1>1, PurgeNextFx, NoFileChanges DEF SameAll, AttOf
    <2>2. SettledAttach' /\ \A o \in Object : AttOf(o)' = AttOf(o)
      BY <1>0, <2>1, SettledStays, OwnStays
    <2>3. op'.drop # NoAttach => \A p \in Object : AttOf(p)' = op'.drop => p = op'.id
      BY <1>0, <2>1, <2>2 DEF SettledAttach, OwnAttach
    <2> QED
      BY <2>1, <2>2, <2>3, RemovingAttached
  <1>2. CASE PurgeBody
    <2>0. op.id \in Object
      BY <1>2, Subject
    <2>1. /\ SameWork /\ op'.at = "noTomb" /\ SameAttachments
          /\ disk'[Body(op.id)] = NoBody
          /\ \A x \in Object : x # op.id => disk'[Body(x)] = disk[Body(x)]
      BY <1>2, <2>0, PurgeBodyFx
    <2>2. op'.kind = op.kind /\ op'.id = op.id /\ op'.drop = op.drop
      BY <2>1 DEF SameWork
    <2>3. ASSUME NEW o \in Object
          PROVE  \/ disk'[Body(o)].attach = NoAttach
                 \/ disk'[Body(o)] = disk[Body(o)] /\ o # op.id
      BY <2>1 DEF NoBody
    <2>4. OwnAttach'
      <3>1. ASSUME NEW o \in Object, AttOf(o)' # NoAttach PROVE Present(Body(o))' /\ o \in Item
        BY <2>3, <3>1 DEF Attached, OwnAttach, AttOf, Present
      <3>2. ASSUME NEW o \in Object, NEW p \in Object, o # p, AttOf(o)' = AttOf(p)'
            PROVE  AttOf(o)' = NoAttach
        BY <2>3, <3>2 DEF Attached, OwnAttach, AttOf
      <3> QED
        BY <3>1, <3>2 DEF OwnAttach
    <2>5. \A a \in MayAttach : Whole(a) => Whole(a)'
      BY <2>1, WholeStays
    <2>6. ASSUME NEW o \in Object PROVE Whole(AttOf(o))'
      <3>1. AttOf(o) \in MayAttach /\ Whole(AttOf(o))
        BY <1>0 DEF AttTypes, SettledAttach
      <3>2. AttOf(o)' = NoAttach \/ AttOf(o)' = AttOf(o)
        BY <2>3 DEF AttOf
      <3> QED
        BY <2>5, <3>1, <3>2 DEF Whole, Present
    <2>7. op'.drop # NoAttach => \A p \in Object : AttOf(p)' = op'.drop => p = op'.id
      BY <2>2, <2>3 DEF Attached, OwnWork, AttOf
    <2>8. disk'[Body(op'.id)].attach = NoAttach
      BY <2>1, <2>2 DEF NoBody
    <2>9. SettledAttach'
      BY <2>4, <2>6 DEF SettledAttach
    <2> QED
      BY <2>2, <2>7, <2>8, <2>9, RemovingAttached
  <1>3. CASE PurgeTomb \/ DropChunks \/ PurgeMeta
    <2>0. op.id \in Object /\ op.at \in {"noTomb", "dropChunk", "dropMeta"} /\ AttOf(op.id) = NoAttach
      <3>1. op.at \in {"noTomb", "dropChunk", "dropMeta"}
        BY <1>3 DEF PurgeTomb, DropChunks, PurgeMeta
      <3> QED
        BY <3>1 DEF Attached, OwnWork, Working, WorksOn, Purges
    <2>1. /\ SameBodies /\ op'.kind = op.kind
          /\ \/ op'.drop = op.drop /\ op'.id = op.id
             \/ op'.drop = NoAttach /\ op'.at = "purge"
          /\ KeepsBut(op.drop)
      <3>1. CASE PurgeTomb
        <4>1. SameBodies /\ SameAttachments /\ (SameWork \/ PurgedWork)
          BY <2>0, <3>1, PurgeTombFx
        <4>2. KeepsBut(op.drop)
          BY <4>1 DEF KeepsBut, SameAttachments, SameMetas, SameChunks, Present
        <4> QED
          BY <4>1, <4>2 DEF SameWork, PurgedWork
      <3>2. CASE DropChunks \/ PurgeMeta
        BY <3>2, FilesKept, DropChunksFx, PurgeMetaFx DEF SameWork, PurgedWork
      <3> QED
        BY <1>3, <3>1, <3>2
    <2>2. /\ \A o \in Object : AttOf(o)' = AttOf(o) /\ AttOf(o) \in MayAttach
          /\ OwnAttach'
      BY <2>1, OwnStays DEF AttTypes, Attached
    <2>3. ASSUME NEW o \in Object PROVE Whole(AttOf(o))'
      <3>1. Whole(AttOf(o)) /\ AttOf(o)' = AttOf(o) /\ AttOf(o) \in MayAttach
        BY <1>0, <2>2 DEF SettledAttach
      <3>2. AttOf(o) # op.drop \/ AttOf(o) = NoAttach
        BY <2>0 DEF Attached, OwnWork
      <3>3. \A a \in MayAttach : (a # op.drop \/ a = NoAttach) /\ Whole(a) => Whole(a)'
        BY <2>1, WholeKept
      <3> QED
        BY <3>1, <3>2, <3>3 DEF Whole, Present
    <2>4. SettledAttach'
      BY <2>2, <2>3 DEF SettledAttach
    <2>5. op'.drop # NoAttach => \A p \in Object : AttOf(p)' = op'.drop => p = op'.id
      BY <2>1, <2>2 DEF Attached, OwnWork
    <2>6. op'.at \in {"noTomb", "dropChunk", "dropMeta"} => disk'[Body(op'.id)].attach = NoAttach
      BY <2>0, <2>1, <2>2 DEF AttOf
    <2>7. op'.kind \in {"unlock", "hardDelete"} /\ op'.kind # "putRule"
      BY <2>1
    <2> QED
      BY <2>4, <2>5, <2>6, <2>7, RemovingAttached
  <1> QED
    BY <1>1, <1>2, <1>3

(* A creation has what is left of the old vault on its list. *)
LEMMA InitAttached ==
  ASSUME Shape, Working, AttTypes, Attached, op.kind = "init",
         WriteEnvelope \/ WriteHeader \/ Wipe \/ Wiped \/ EmptyIndex
  PROVE  Attached'
  <1>1. /\ op'.kind = "init" /\ op'.drop = op.drop
        /\ \/ /\ op.at # "wipe" \/ op.todo = {}
              /\ SameBodies
           \/ /\ op.at = "wipe" /\ op'.at = "wipe"
              /\ \A o \in Object : \/ disk'[Body(o)] = NoBody
                                   \/ disk'[Body(o)] = disk[Body(o)]
                                      /\ (Body(o) \in op.todo => Body(o) \in op'.todo)
    BY FixedStepsFx, WipeFx, EmptyIndexFx DEF SameWork, SameAll, WriteEnvelope, WriteHeader
  <1>2. ASSUME NEW o \in Object
        PROVE  \/ disk'[Body(o)].attach = NoAttach
               \/ /\ disk'[Body(o)] = disk[Body(o)] /\ op'.at = "wipe"
                  /\ Body(o) \in op'.todo
    <2>1. AttOf(o) # NoAttach => op.at = "wipe" /\ Body(o) \in op.todo
      BY DEF Attached, KeepsAttach
    <2> QED
      BY <1>1, <2>1 DEF AttOf, NoBody, SameBodies
  <1>3. OwnAttach'
    <2>1. ASSUME NEW o \in Object, AttOf(o)' # NoAttach PROVE Present(Body(o))' /\ o \in Item
      BY <1>2, <2>1 DEF Attached, OwnAttach, AttOf, Present
    <2>2. ASSUME NEW o \in Object, NEW p \in Object, o # p, AttOf(o)' = AttOf(p)'
          PROVE  AttOf(o)' = NoAttach
      BY <1>2, <2>2 DEF Attached, OwnAttach, AttOf
    <2> QED
      BY <2>1, <2>2 DEF OwnAttach
  <1>4. OwnWork'
    <2>1. op.drop # NoAttach => \A p \in Object : AttOf(p)' = op.drop => p = op.id
      BY <1>2 DEF Attached, OwnWork, AttOf
    <2>2. op'.id = op.id
      BY FixedStepsFx, WipeFx, EmptyIndexFx DEF SameWork
    <2> QED
      BY <1>1, <2>1, <2>2 DEF OwnWork
  <1>5. KeepsAttach'
    BY <1>1, <1>2 DEF KeepsAttach, AttOf
  <1> QED
    BY <1>1, <1>3, <1>4, <1>5 DEF Attached, OthersWhole, PutWhole, ImportWhole

(* Where there is no vault there is no attachment; where there is one, a creation lists it all. *)
LEMMA CreationAttached ==
  ASSUME Shape, Working, KeyInv, AttTypes, Attached, ~KeysTorn, NEW reset, BeginInit(reset)
  PROVE  Attached'
  <1>1. /\ op.kind = "idle" /\ disk' = disk /\ op'.kind = "init" /\ op'.drop = NoAttach
        /\ \/ ~Present(Header) /\ op'.at = "envelope"
           \/ op'.at = "wipe" /\ op'.todo = {n \in Name : Present(n)}
    BY BeginInitFx, NoWork
  <1>2. OwnAttach
    BY DEF Attached
  <1>3. OwnAttach' /\ \A o \in Object : AttOf(o)' = AttOf(o)
    BY <1>1, <1>2, OwnStays, NoFileChanges DEF SameAll
  <1>4. ASSUME NEW o \in Object, AttOf(o)' # NoAttach PROVE op'.at = "wipe" /\ Body(o) \in op'.todo
    <2>1. Present(Body(o)) /\ Body(o) \in Name /\ Body(o) \in Kept
      BY <1>2, <1>3, <1>4, OwnNames, Names, NamesOf DEF OwnAttach, Kept, Chunks
    <2>2. Agree
      BY <1>1 DEF KeyInv, Ordinary
    <2>3. Present(Header)
      BY <2>1, <2>2 DEF Agree
    <2> QED
      BY <1>1, <2>1, <2>3
  <1>5. KeepsAttach'
    BY <1>1, <1>4 DEF KeepsAttach
  <1> QED
    BY <1>1, <1>3, <1>5 DEF Attached, OwnWork, OthersWhole, PutWhole, ImportWhole

(* Every step keeps them whole. *)
LEMMA AttachPreserved ==
  ASSUME Shape, Working, KeyInv, AttachInv, [Next]_vars
  PROVE  AttachInv'
  <1>1. AttTypes /\ AttTypes' /\ MetaShape'
    BY AttTypesPreserved, MetaShapePreserved DEF AttachInv
  <1> SUFFICES ASSUME ~KeysTorn', ~UpdateTorn' PROVE Attached'
    BY <1>1 DEF AttachInv
  <1>2. ~KeysTorn /\ ~UpdateTorn
    BY TearsGrow DEF KeysTorn, UpdateTorn, CutAt
  <1>3. Attached
    BY <1>2 DEF AttachInv
  <1>4. CASE ItemCommand \/ RuleCommand \/ SyncCommand \/ BeginUnlock \/ BeginRecover
    BY <1>1, <1>3, <1>4, BeginsAttached
  <1>5. CASE \/ SaveIndex \/ SaveHardDelete \/ List \/ Lock \/ Unlock \/ Crash \/ WriteFails
             \/ LoseIndex \/ GraceEnds \/ ResealFails \/ ShowCode
    BY <1>1, <1>3, <1>5, EndsAttached
  <1>6. CASE PutChunks \/ PutMeta \/ DropReplaced \/ DropChunks
    <2>1. PutChunks \/ PutMeta => op.kind = "put"
      BY DEF PutChunks, PutMeta, Running
    <2>2. DropReplaced => op.kind \in {"put", "import"}
      BY DEF DropReplaced
    <2>3. DropChunks => op.kind \in {"put", "import", "unlock", "hardDelete"}
      BY DEF DropChunks, Working, InStep, Kind
    <2> QED
      BY <1>1, <1>3, <1>6, <2>1, <2>2, <2>3, PutAttached, ImportAttached, PurgeAttached
  <1>7. CASE WriteBody
    BY <1>1, <1>3, <1>7, BodyAttached
  <1>8. CASE WriteTomb \/ ClearTomb \/ Load \/ LoadOld \/ Reseal \/ ResealIndex \/ PurgeDone
    <2>1. op.kind = "import" => WriteTomb
      BY <1>8 DEF ClearTomb, Load, LoadOld, Reseal, ResealIndex, PurgeDone, Running
    <2> QED
      BY <1>1, <1>3, <1>8, <2>1, QuietAttached, ImportAttached
  <1>9. CASE SaveImported \/ ImportMeta
    <2>1. op.kind = "import"
      BY <1>9 DEF SaveImported, ImportMeta, Running
    <2> QED
      BY <1>1, <1>3, <1>9, <2>1, ImportAttached
  <1>10. CASE ImportChunks
    BY <1>1, <1>3, <1>10, ImportEndsAttached
  <1>11. CASE PurgeNext \/ PurgeBody \/ PurgeTomb \/ PurgeMeta
    <2>1. op.kind \in {"unlock", "hardDelete"}
      BY <1>11 DEF PurgeNext, PurgeBody, PurgeTomb, PurgeMeta, Running
    <2> QED
      BY <1>1, <1>3, <1>11, <2>1, PurgeAttached
  <1>12. CASE WriteEnvelope \/ WriteHeader \/ Wipe \/ Wiped \/ EmptyIndex
    <2>1. op.kind = "init" \/ (op.kind = "recover" /\ (WriteEnvelope \/ WriteHeader))
      BY <1>12 DEF WriteEnvelope, WriteHeader, Wipe, Wiped, EmptyIndex, Running
    <2> QED
      BY <1>1, <1>3, <1>12, <2>1, InitAttached, QuietAttached
  <1>13. CASE \E reset \in BOOLEAN : BeginInit(reset)
    BY <1>1, <1>2, <1>3, <1>13, CreationAttached
  <1>14. CASE UNCHANGED vars
    BY <1>3, <1>14 DEF vars, Attached, OwnAttach, OwnWork, OthersWhole, PutWhole, ImportWhole,
                       KeepsAttach, AttOf, Whole, Present
  <1>15. CASE AgainStep
    <2>1. op' = op /\ SameBodies /\ SameAttachments
      BY <1>15, AgainFx
    <2>2. op.kind \in {"idle", "import", "hardDelete"}
      BY <1>15, NotBeside DEF Working, InStep, Kind, Shape, Beside, AgainStep, LoadAgain, SaveAgain,
                              UnlockAgain, AgainFails
    <2>3. OwnAttach' /\ \A o \in Object : AttOf(o)' = AttOf(o)
      BY <1>3, <2>1, OwnStays DEF Attached
    <2>4. ASSUME NEW a \in MayAttach, Whole(a) PROVE Whole(a)'
      BY <2>1, <2>4, WholeStays
    <2>5. OwnWork'
      <3>1. op.kind \in {"import", "hardDelete"} /\ op.at \in {"noTomb", "dropChunk", "dropMeta"}
              => op.id \in Object
        BY DEF Working, WorksOn, MemKinds
      <3> QED
        BY <1>3, <2>1, <2>2, <2>3, <3>1 DEF Attached, OwnWork
    <2>6. OthersWhole'
      BY <1>1, <1>3, <2>1, <2>3, <2>4 DEF Attached, OthersWhole, AttTypes, Whole, Present
    <2>7. PutWhole' /\ KeepsAttach'
      BY <2>1, <2>2 DEF PutWhole, KeepsAttach
    <2>8. ImportWhole'
      <3>1. op.kind = "import" => op.id \in Object
        BY DEF Working, WorksOn, MemKinds
      <3>2. \A a \in Attach : Present(Meta(a))' = Present(Meta(a))
        BY <2>1 DEF SameAttachments, SameMetas, Present
      <3>3. op.attach \in MayAttach
        BY <1>1 DEF AttTypes
      <3>4. PICK a \in MayAttach : a = op.attach
        BY <3>3
      <3>5. Whole(a) => Whole(a)'
        BY <2>4
      <3> QED
        BY <1>3, <2>1, <2>3, <3>1, <3>2, <3>4, <3>5 DEF Attached, ImportWhole, Whole, Present
    <2> QED
      BY <2>3, <2>5, <2>6, <2>7, <2>8 DEF Attached
  <1> QED
    BY <1>4, <1>5, <1>6, <1>7, <1>8, <1>9, <1>10, <1>11, <1>12, <1>13, <1>14, <1>15
       DEF Next, WriteStep, PurgeStep, KeyStep

(* Before anything is stored there is no attachment. *)
LEMMA AttachStart == Init => AttachInv
  <1> SUFFICES ASSUME Init PROVE AttachInv
    OBVIOUS
  <1>1. op = Idle /\ \A n \in Name : disk[n] = Missing(n)
    BY DEF Init
  <1>2. op.kind = "idle" /\ op.attach = NoAttach /\ op.drop = NoAttach
    BY <1>1, NoWork
  <1>3. \A o \in Object : AttOf(o) = NoAttach
    BY <1>1, OwnNames, MissingBlobs DEF AttOf, NoBody
  <1>4. MetaShape
    BY <1>1, AttachNames, MissingBlobs DEF MetaShape, NoMeta
  <1>5. AttTypes
    BY <1>2, <1>3 DEF AttTypes, MayAttach
  <1>6. Attached
    BY <1>2, <1>3 DEF Attached, OwnAttach, OwnWork, OthersWhole, PutWhole, ImportWhole,
                      KeepsAttach, Whole
  <1> QED
    BY <1>4, <1>5, <1>6 DEF AttachInv

(* An item's attachment can be exported: its metadata and its chunks are there, and both the    *)
(* metadata and the key inside it open with the key of the item, on every vault and through     *)
(* every sequence of commands, crashes, failed writes and recoveries, unless an update was cut  *)
(* off between the attachment it removes and the item that names the new one, or an import was  *)
(* cut off at all.                                                                              *)
THEOREM AttachmentsAlwaysWhole == Spec => []AttachmentsWhole
  <1> DEFINE Inv == Shape /\ KeyInv /\ Working /\ AttachInv
  <1>1. Init => Inv
    BY KeysStart, FilesStart, AttachStart
  <1>2. Inv /\ [Next]_vars => Inv'
    BY ShapePreserved, KeyInvPreserved, WorkingPreserved, AttachPreserved
  <1>3. Inv => AttachmentsWhole
    <2> SUFFICES ASSUME Inv, ~Rekeying, ~KeysTorn, ~UpdateTorn, NEW o \in Item,
                        AttOf(o) # NoAttach, ~(op.kind \in {"put", "import"} /\ op.id = o)
                 PROVE  /\ Present(Chunk(AttOf(o)))
                        /\ disk[Meta(AttOf(o))] = [key   |-> disk[Body(o)].key,
                                                   inner |-> disk[Body(o)].key]
      BY DEF AttachmentsWhole, UpdateTorn, AttOf
    <2>0. o \in Object /\ AttOf(o) \in Attach
      BY DEF Object, AttachInv, AttTypes, MayAttach
    <2>1. Present(Body(o)) /\ Whole(AttOf(o))
      BY <2>0 DEF AttachInv, Attached, OwnAttach, OthersWhole, Rekeying
    <2>2. Present(Chunk(AttOf(o))) /\ Present(Meta(AttOf(o)))
      BY <2>1 DEF Whole
    <2>3. Agree
      BY DEF KeyInv, Ordinary, Rekeying
    <2>4. Body(o) \in Kept /\ Meta(AttOf(o)) \in Kept /\ Meta(AttOf(o)) \in Metas
      BY <2>0, OwnNames, AttachNames DEF Kept, Chunks, Metas
    <2>5. Under(Body(o), disk[Header].key) /\ Under(Meta(AttOf(o)), disk[Header].key)
      BY <2>1, <2>3, <2>4 DEF Agree
    <2>6. /\ disk[Meta(AttOf(o))].key = disk[Body(o)].key
          /\ disk[Meta(AttOf(o))].inner = disk[Body(o)].key
      BY <2>1, <2>2, <2>4, <2>5 DEF Under
    <2>7. disk[Meta(AttOf(o))] = [key   |-> disk[Meta(AttOf(o))].key,
                                  inner |-> disk[Meta(AttOf(o))].inner]
      BY <2>0 DEF AttachInv, MetaShape
    <2> QED
      BY <2>2, <2>6, <2>7
  <1> QED
    BY <1>1, <1>2, <1>3, PTL DEF Spec

--------------------------------------------------------------------------------
(***************************************************************************)
(* A deletion the user was told of has its tombstone, and no index of the  *)
(* device lists the object as alive.                                       *)
(***************************************************************************)

(* An object that is deleted and whose body is still there.  An item's body *)
(* says so itself; of a rule it is what the user was told.                  *)
Gone(o) == Present(Body(o)) /\ IF o \in Item THEN disk[Body(o)].deleted
                               ELSE acked[o].state = "deleted"

(* The entry of o does not say that o is alive. *)
Marked(E, o) == E[o] = NoEntry \/ E[o].deleted

(* The object whose deletion, or new version, is still being written. *)
UnderWay(o) == op.kind \in {"delete", "import"} /\ op.id = o

Recorded(o) ==
  /\ Present(Tomb(o))
  /\ Marked(disk[Index].entries, o) /\ Marked(mem.index, o) /\ Marked(op.entries, o)

(* What is gone is recorded, as soon as the command that deletes it is over. *)
GoneRecorded ==
  op.kind # "init" => \A o \in Object : Gone(o) /\ ~UnderWay(o) => Recorded(o)

(* The user is told of no deletion that the body of the item does not know of. *)
ToldTrue == \A o \in Item : acked[o].state = "deleted" /\ Present(Body(o)) => disk[Body(o)].deleted

(* How far the command under way has come with its object. *)
DeletionWork ==
  /\ op.kind \in Issuing => acked[op.id].state # "deleted"
  /\ Wrote => disk[Body(op.id)].deleted = op.deleted
  /\ op.kind \in {"delete", "deleteRule"} /\ op.at = "index" => Present(Tomb(op.id))
  /\ op.kind = "import" /\ op.deleted /\ op.at \in {"tomb", "meta", "chunk"} =>
       Marked(disk[Index].entries, op.id) /\ mem.index[op.id].deleted
  /\ op.kind = "import" /\ op.deleted /\ op.at \in {"meta", "chunk"} => Present(Tomb(op.id))
  /\ op.kind \in {"unlock", "hardDelete"} /\ op.at \in {"noTomb", "dropChunk", "dropMeta", "index"}
       => ~Present(Body(op.id))

(* The index of a vault that is opened again marks what is gone too, or the one in memory *)
(* says that it has been overtaken.                                                        *)
AgainMarks ==
  mem.next.at # "idle" =>
    \A o \in Object : Gone(o) /\ ~UnderWay(o) =>
      Marked(mem.next.entries, o) \/ mem.index[o].deleted

Deletions == GoneRecorded /\ ToldTrue /\ DeletionWork /\ AgainMarks

DeletionInv == ~KeysTorn /\ ~DeletionTorn /\ ~StaleIndex => Deletions

(* What is put back by an unlocking that is not overtaken marks an object that is gone. *)
LEMMA AgainFresh ==
  ASSUME Shape, SaveAgain \/ UnlockAgain, ~StaleIndex', NEW o \in Object,
         Marked(mem.next.entries, o) \/ mem.index[o].deleted
  PROVE  Marked(mem.next.entries, o)
  <1>1. mem.next.at \in At /\ Overtaken
    BY DEF SaveAgain, UnlockAgain, At
  <1>2. ~Stale
    BY <1>1 DEF Overtaken, StaleIndex, CutAt
  <1> QED
    BY <1>2 DEF Stale, Marked

(* The user is told of a deletion at the end of a command that deletes, and of one that *)
(* the body of the item knows of.                                                       *)
LEMMA DeletionNews ==
  ASSUME Shape, Working, [Next]_vars, NEW o \in Object, acked'[o].state = "deleted"
  PROVE  \/ acked[o].state = "deleted"
         \/ op.id = o /\ op.deleted /\ (SaveIndex \/ ImportChunks)
         \/ o \in Item /\ disk[Body(o)].deleted /\ disk' = disk
  <1>0. Item \subseteq Object /\ Rule \subseteq Object /\ AckShape
    BY DEF Object, Working
  <1>1. ASSUME NEW p \in Object, NotDeleted(p) PROVE acked[o].state = "deleted"
    BY <1>1 DEF NotDeleted
  <1>2. CASE ItemCommand \/ RuleCommand \/ SyncCommand
    <2>1. ASSUME NEW p \in Item, BeginPut(p) \/ BeginDelete(p) PROVE NotDeleted(p)
      BY <1>0, <2>1, BeginPutFx, BeginDeleteFx DEF BegunOn
    <2>2. ASSUME NEW p \in Rule, BeginPutRule(p) \/ BeginDeleteRule(p) PROVE NotDeleted(p)
      BY <1>0, <2>2, BeginPutRuleFx, BeginDeleteRuleFx DEF BegunOn
    <2>3. ASSUME NEW p \in Object, BeginImport(p) PROVE NotDeleted(p)
      BY <1>0, <2>3, BeginImportFx DEF BegunOn
    <2>4. ASSUME NEW p \in Object, BeginHardDelete(p) PROVE acked' = acked
      BY <2>4, BeginHardDeleteFx DEF Quiet
    <2>5. ASSUME NEW p \in Item, DeleteAgain(p)
          PROVE  acked[o].state = "deleted" \/ (o \in Item /\ disk[Body(o)].deleted /\ disk' = disk)
      <3>1. acked' = [acked EXCEPT ![p] = [state |-> "deleted", rev |-> disk[Body(p)].rev]]
            /\ disk[Body(p)].deleted /\ disk' = disk
        BY <2>5 DEF DeleteAgain, Told, SameFiles
      <3>2. o # p => acked'[o] = acked[o]
        BY <1>0, <3>1 DEF AckShape
      <3> QED
        BY <3>1, <3>2
    <2> QED
      BY <1>0, <1>1, <1>2, <2>1, <2>2, <2>3, <2>4, <2>5 DEF ItemCommand, RuleCommand, SyncCommand
  <1>3. CASE SaveIndex \/ ImportChunks
    <2> DEFINE s == News
    <2>1. acked' = [acked EXCEPT ![op.id] = [state |-> s, rev |-> op.rev]]
      BY <1>3, SaveIndexFx, ImportChunksFx
    <2>2. s = "deleted" => op.deleted
      BY DEF News
    <2> HIDE DEF s
    <2>3. o # op.id => acked'[o] = acked[o]
      BY <1>0, <2>1 DEF AckShape
    <2>4. o = op.id => acked'[o].state = s
      BY <1>0, <2>1 DEF AckShape
    <2> QED
      BY <1>3, <2>2, <2>3, <2>4
  <1>4. CASE WriteStep /\ ~SaveIndex /\ ~ImportChunks
    BY <1>4 DEF WriteStep, PutChunks, PutMeta, DropChunks, DropReplaced, WriteBody, WriteTomb,
                ClearTomb, SaveImported, ImportMeta, SaveHardDelete, SameAck
  <1>5. CASE KeyStep
    BY <1>5 DEF KeyStep, LoadOld, Reseal, ResealFails, ResealIndex, WriteEnvelope, WriteHeader,
                ShowCode, Wipe, Wiped, EmptyIndex, SameAck
  <1>6. CASE PurgeStep \/ Load \/ Unlock \/ List \/ Lock
    BY <1>6 DEF PurgeStep, PurgeNext, PurgeBody, PurgeTomb, PurgeMeta, PurgeDone, Load, Unlock,
                List, Lock, SameAck
  <1>7. CASE BeginUnlock \/ BeginRecover \/ Crash \/ WriteFails \/ LoseIndex \/ GraceEnds
             \/ UNCHANGED vars
    BY <1>7 DEF BeginUnlock, BeginRecover, Crash, WriteFails, LoseIndex, GraceEnds, SameAck, vars
  <1>8. ASSUME NEW reset, BeginInit(reset) PROVE FALSE
    BY <1>8, BeginInitFx
  <1>9. CASE AgainStep
    BY <1>9, AgainFx
  <1> QED
    BY <1>2, <1>3, <1>4, <1>5, <1>6, <1>7, <1>8, <1>9 DEF Next

(* A body that is there is the one that was there, or the one that is written. *)
LEMMA BodyNews ==
  ASSUME Shape, Working, [Next]_vars, NEW o \in Object, Present(Body(o))'
  PROVE  \/ Present(Body(o)) /\ disk'[Body(o)].deleted = disk[Body(o)].deleted
         \/ WriteBody /\ op.id = o
  <1>0. NoBody.key = 0
    BY DEF NoBody
  <1>1. CASE SameBodies
    BY <1>1 DEF SameBodies, Present
  <1>2. CASE WriteBody
    BY <1>2, Subject, WriteBodyFx DEF Present
  <1>3. CASE PurgeBody
    BY <1>0, <1>3, Subject, PurgeBodyFx DEF Present
  <1>4. CASE Reseal
    <2>1. op.key # 0 /\ op.todo \subseteq Objs
      BY <1>4 DEF Reseal, Running, Working, WorksOn
    <2> QED
      BY <1>4, <2>1, ResealFx DEF SealedAgain, Present
  <1>5. CASE Wipe
    BY <1>0, <1>5, WipeFx DEF Present
  <1> QED
    BY <1>1, <1>2, <1>3, <1>4, <1>5, BodySteps

(* So an object becomes one that is gone at three steps only. *)
LEMMA NewlyGone ==
  ASSUME Shape, Working, [Next]_vars, NEW o \in Object, Gone(o)'
  PROVE  \/ Gone(o)
         \/ WriteBody /\ op.id = o
         \/ op.id = o /\ op.deleted /\ (SaveIndex \/ ImportChunks)
  <1>1. CASE o \in Item
    BY <1>1, BodyNews DEF Gone
  <1>2. CASE o \notin Item
    BY <1>2, BodyNews, DeletionNews DEF Gone
  <1> QED
    BY <1>1, <1>2

(* The user is told what the body knows. *)
LEMMA ToldTruePreserved ==
  ASSUME Shape, Working, Deletions, [Next]_vars
  PROVE  ToldTrue'
  <1> SUFFICES ASSUME NEW o \in Item, acked'[o].state = "deleted", Present(Body(o))'
               PROVE  disk'[Body(o)].deleted
    BY DEF ToldTrue
  <1>0. o \in Object /\ o \notin Rule
    BY ObjectAssumption DEF Object
  <1>1. CASE acked[o].state = "deleted"
    <2>1. op.kind \in Issuing => op.id # o
      BY <1>1 DEF Deletions, DeletionWork
    <2>2. ~(WriteBody /\ op.id = o)
      BY <2>1 DEF WriteBody, Issuing
    <2>3. Present(Body(o)) /\ disk'[Body(o)].deleted = disk[Body(o)].deleted
      BY <1>0, <2>2, BodyNews
    <2> QED
      BY <1>1, <2>3 DEF Deletions, ToldTrue
  <1>2. CASE op.id = o /\ op.deleted /\ (SaveIndex \/ ImportChunks)
    <2>1. op.kind \in {"put", "delete", "putRule", "deleteRule", "import"}
      BY <1>2, SaveIndexFx, ImportChunksFx
    <2>2. op.kind \notin {"putRule", "deleteRule"}
      BY <1>0, <1>2 DEF Working, WorksOn
    <2>3. Wrote
      <3>1. CASE SaveIndex
        <4>1. op.kind \in {"put", "delete"} /\ op.at = "index"
          BY <2>2, <3>1 DEF SaveIndex
        <4> QED
          BY <4>1 DEF Wrote
      <3>2. CASE ImportChunks
        BY <3>2 DEF ImportChunks, Running, Wrote
      <3> QED
        BY <1>2, <3>1, <3>2
    <2>4. disk[Body(o)].deleted
      BY <1>2, <2>3 DEF Deletions, DeletionWork
    <2>5. SameBodies
      BY <1>2, SaveIndexFx, ImportChunksFx
    <2> QED
      BY <1>0, <2>4, <2>5 DEF SameBodies
  <1>3. CASE disk[Body(o)].deleted /\ disk' = disk
    BY <1>3
  <1> QED
    BY <1>0, <1>1, <1>2, <1>3, DeletionNews

(* An index that is built anew marks what is gone: the tombstone opens where the body does. *)
LEMMA RebuiltMarks ==
  ASSUME Agree, NEW o \in Object, Gone(o), Present(Tomb(o)), NEW k, NEW now
  PROVE  Marked(Rebuilt(k, now), o)
  <1>1. CASE ~Opens(k, Body(o))
    <2>1. Rebuilt(k, now)[o] = NoEntry
      BY <1>1 DEF Rebuilt
    <2> QED
      BY <2>1 DEF Marked
  <1>2. CASE Opens(k, Body(o)) /\ o \in Item
    <2>1. Rebuilt(k, now)[o] = [rev |-> disk[Body(o)].rev, deleted |-> disk[Body(o)].deleted]
      BY <1>2 DEF Rebuilt
    <2> QED
      BY <1>2, <2>1 DEF Marked, Gone
  <1>3. CASE Opens(k, Body(o)) /\ o \notin Item
    <2>1. Body(o) \in Kept /\ Tomb(o) \in Kept
      BY OwnNames DEF Kept, Chunks
    <2>2. disk[Tomb(o)].key = disk[Body(o)].key
      BY <2>1 DEF Agree, Under, Gone
    <2>3. Opens(k, Tomb(o))
      BY <1>3, <2>2 DEF Opens
    <2>4. Rebuilt(k, now)[o] = [rev |-> disk[Tomb(o)].rev, deleted |-> TRUE]
      BY <1>3, <2>3 DEF Rebuilt
    <2> QED
      BY <2>4 DEF Marked
  <1> QED
    BY <1>1, <1>2, <1>3

(* An entry that is replaced marks its object, or leaves the mark of another. *)
LEMMA MarkedExcept ==
  ASSUME NEW E, E = [x \in Object |-> E[x]], NEW i \in Object, NEW o \in Object, Marked(E, o)
  PROVE  /\ Marked([E EXCEPT ![i] = NoEntry], o)
         /\ \A e : e.deleted \/ i # o => Marked([E EXCEPT ![i] = e], o)
  <1>1. ASSUME NEW e, e = NoEntry \/ e.deleted \/ i # o PROVE Marked([E EXCEPT ![i] = e], o)
    <2>1. CASE i = o
      <3>1. [E EXCEPT ![i] = e][o] = e
        BY <2>1
      <3> QED
        BY <1>1, <2>1, <3>1 DEF Marked
    <2>2. CASE i # o
      <3>1. [E EXCEPT ![i] = e][o] = E[o]
        BY <2>2
      <3> QED
        BY <3>1 DEF Marked
    <2> QED
      BY <2>1, <2>2
  <1> QED
    BY <1>1

(* The command that issues at its end does not list anew an object that is gone. *)
SparesGone(o) ==
  /\ op.kind \in Issuing /\ op.at = "index" => op.id # o
  /\ ClearTomb \/ PurgeTomb => op.id # o

(* A deletion that is recorded stays so: on the disk, in memory and in the hands of a command. *)
LEMMA RecordedStays ==
  ASSUME Shape, Working, AheadInv, KeyInv, AgainMarks, ~KeysTorn, ~StaleIndex', [Next]_vars,
         op.kind # "init", NEW o \in Object, Gone(o), ~UnderWay(o), Recorded(o), SparesGone(o)
  PROVE  Recorded(o)'
  <1>0. /\ Marked(disk[Index].entries, o) /\ Marked(mem.index, o) /\ Marked(op.entries, o)
        /\ Marked(Empty, o)
        /\ mem.index = [x \in Object |-> mem.index[x]]
        /\ op.entries = [x \in Object |-> op.entries[x]]
    BY DEF Recorded, AheadInv, NotAhead, Marked, Empty
  <1>1. Present(Tomb(o))'
    <2>1. Present(Tomb(o)) /\ ~Wipe
      BY OtherSteps DEF Recorded
    <2>2. CASE SameTombs
      BY <2>1, <2>2 DEF SameTombs, Present
    <2>3. CASE WriteTomb
      <3>1. mem.key # 0 /\ op.id \in Object
        BY <2>3, Subject DEF WriteTomb, Working, WorksOn, MemKinds
      <3> QED
        BY <2>1, <2>3, <3>1, WriteTombFx DEF Present
    <2>4. CASE ClearTomb \/ PurgeTomb
      BY <2>1, <2>4, Subject, ClearTombFx, PurgeTombFx DEF SparesGone, Present
    <2>5. CASE Reseal
      <3>1. op.key # 0 /\ op.todo \subseteq Objs
        BY <2>5 DEF Reseal, Running, Working, WorksOn
      <3> QED
        BY <2>1, <2>5, <3>1, ResealFx DEF SealedAgain, Present
    <2>6. CASE GraceEnds
      BY <2>1, <2>6, GraceEndsFx DEF Present
    <2> QED
      BY <2>1, <2>2, <2>3, <2>4, <2>5, <2>6, TombSteps
  <1>2. ASSUME Load \/ LoadOld PROVE Marked(disk'[Index].entries, o)
    <2>1. Agree
      <3>1. op.kind = "unlock" \/ (op.kind = "recover" /\ op.at = "load")
        BY <1>2 DEF Load, LoadOld, Running
      <3> QED
        BY <3>1 DEF KeyInv, Ordinary, Recovering
    <2>2. disk'[Index].entries = op'.entries
          /\ (op'.entries = disk[Index].entries \/ \E k, now : op'.entries = Rebuilt(k, now))
      BY <1>2, LoadFx, LoadOldFx
    <2>3. \A k, now : Marked(Rebuilt(k, now), o)
      BY <2>1, RebuiltMarks DEF Recorded
    <2> QED
      BY <1>0, <2>2, <2>3
  <1>3. ASSUME SaveAgain \/ UnlockAgain, mem.next.at # "idle" PROVE Marked(mem.next.entries, o)
    BY <1>3, AgainFresh DEF AgainMarks
  <1>4. Marked(mem'.index, o)
    <2>1. CASE op.kind \in Issuing /\ op.at = "index" /\ mem'.index = Entered
      <3> DEFINE e == [rev |-> op.rev, deleted |-> op.deleted]
      <3>1. op.id \in Object /\ op.id # o
        BY <2>1 DEF Working, WorksOn, MemKinds, Issuing, SparesGone
      <3>2. Marked([mem.index EXCEPT ![op.id] = e], o)
        BY <1>0, <3>1, MarkedExcept
      <3>3. Entered \in {mem.index, [mem.index EXCEPT ![op.id] = e]}
        BY DEF Entered
      <3> QED
        BY <1>0, <2>1, <3>2, <3>3
    <2>2. CASE op.kind = "hardDelete" /\ mem'.index = [mem.index EXCEPT ![op.id] = NoEntry]
      <3>1. op.id \in Object
        BY <2>2 DEF Working, WorksOn, MemKinds
      <3> QED
        BY <1>0, <2>2, <3>1, MarkedExcept
    <2>3. CASE List
      <3>1. mem'.index[o] \in {NoEntry, mem.index[o]}
        BY <2>3, ListFx
      <3> QED
        BY <1>0, <3>1 DEF Marked
    <2>4. ASSUME NEW p \in Rule, BeginDeleteRule(p) PROVE Marked(mem'.index, o)
      <3> DEFINE e == [rev |-> clock', deleted |-> TRUE]
      <3>1. p \in Object /\ mem'.index \in {mem.index, [mem.index EXCEPT ![p] = e]}
        BY <2>4, BeginDeleteRuleFx DEF Working, Object
      <3>2. e.deleted
        OBVIOUS
      <3> HIDE DEF e
      <3>3. Marked([mem.index EXCEPT ![p] = e], o)
        BY <1>0, <3>1, <3>2, MarkedExcept
      <3> QED
        BY <1>0, <3>1, <3>3
    <2>5. CASE UnlockAgain /\ mem.next.at # "idle" /\ mem'.index = mem.next.entries
      BY <1>3, <2>5
    <2> QED
      BY <1>0, <2>1, <2>2, <2>3, <2>4, <2>5, MemEntries
  <1>5. Marked(disk'[Index].entries, o)
    BY <1>0, <1>2, <1>3, <1>4, DiskEntries
  <1>6. Marked(op'.entries, o)
    <2>1. CASE op.kind = "unlock" /\ op.at \in {"noTomb", "dropMeta"} /\ PurgedWork
      <3>1. op.id \in Object
        BY <2>1 DEF Working, WorksOn, Purges
      <3> QED
        BY <1>0, <2>1, <3>1, MarkedExcept DEF PurgedWork
    <2> QED
      BY <1>0, <1>5, <2>1, WorkEntries
  <1> QED
    BY <1>1, <1>4, <1>5, <1>6 DEF Recorded, Marked

(* A command that deletes ends with its object recorded. *)
LEMMA EndsRecorded ==
  ASSUME Shape, Working, AheadInv, Deletions, op.deleted, NEW o \in Object, o = op.id,
         (SaveIndex /\ op.kind \in {"delete", "deleteRule"}) \/ ImportChunks
  PROVE  Recorded(o)'
  <1>0. op' = Idle /\ SameTombs /\ Idle.entries = Empty
    BY SaveIndexFx, ImportChunksFx, NoWork
  <1>1. Marked(op'.entries, o)
    BY <1>0, NoWork DEF Marked, Empty
  <1>2. CASE SaveIndex
    <2>0. op.kind \in {"delete", "deleteRule"} /\ op.at = "index"
      BY <1>2, SaveIndexFx, ImportChunksFx
    <2>1. Present(Tomb(o))
      BY <2>0 DEF Deletions, DeletionWork
    <2>2. mem'.index = Entered /\ disk'[Index].entries = Entered
      BY <1>2, SaveIndexFx
    <2>3. Marked(Entered, o)
      <3>1. CASE mem.index[o] = NoEntry
        <4>1. Entered = mem.index
          BY <2>0, <3>1 DEF Entered
        <4> QED
          BY <3>1, <4>1 DEF Marked
      <3>2. CASE mem.index[o] # NoEntry
        <4> DEFINE e == [rev |-> op.rev, deleted |-> op.deleted]
        <4>1. Entered = [mem.index EXCEPT ![o] = e]
          BY <3>2 DEF Entered
        <4>2. e.deleted
          OBVIOUS
        <4> HIDE DEF e
        <4>3. Entered[o] = e
          BY <1>0, <4>1 DEF AheadInv, NotAhead
        <4> QED
          BY <4>2, <4>3 DEF Marked
      <3> QED
        BY <3>1, <3>2
    <2> QED
      BY <1>0, <1>1, <2>1, <2>2, <2>3 DEF Recorded, Marked, SameTombs, Present
  <1>3. CASE ImportChunks
    <2>1. op.kind = "import" /\ op.at = "chunk" /\ SameIndex /\ mem' = mem
      BY <1>3, ImportChunksFx
    <2>2. Present(Tomb(o)) /\ Marked(disk[Index].entries, o) /\ Marked(mem.index, o)
      BY <2>1 DEF Deletions, DeletionWork, Marked
    <2> QED
      BY <1>0, <1>1, <2>1, <2>2 DEF Recorded, Marked, SameTombs, SameIndex, Present
  <1> QED
    BY <1>2, <1>3

(* A command that deletes goes on with its object until it ends. *)
LEMMA DeletingSteps ==
  ASSUME Shape, Working, [Next]_vars, op.kind \in {"delete", "deleteRule", "import"}, ~DeletionTorn'
  PROVE  (op'.kind = op.kind /\ op'.id = op.id) \/ SaveIndex \/ ImportChunks
  <1>1. ~Crash /\ ~WriteFails
    BY CutsShow DEF Working, InStep, DeletionTorn, CutAt, At
  <1>2. /\ ~KeyStep /\ ~Load /\ ~PurgeStep /\ ~Unlock /\ ~SaveHardDelete
    BY OtherSteps DEF KeyStep, PurgeStep, WriteEnvelope, WriteHeader, ShowCode
  <1>3. CASE WriteStep /\ ~SaveIndex /\ ~ImportChunks
    <2>1. SameWork
      BY <1>2, <1>3, Subject, PutChunksFx, PutMetaFx, DropChunksFx, DropReplacedFx, WriteBodyFx,
         WriteTombFx, ClearTombFx, ImportMetaFx, SaveImportedFx DEF WriteStep
    <2> QED
      BY <2>1 DEF SameWork
  <1>4. CASE AgainStep \/ UNCHANGED vars
    BY <1>4, AgainFx DEF vars
  <1> QED
    BY <1>1, <1>2, <1>3, <1>4, RestSteps DEF Next

(* An import of a version that is alive does not end with an object that is gone. *)
LEMMA ImportEnds ==
  ASSUME Shape, Working, DeletionWork, [Next]_vars, ImportChunks, NEW o \in Object, op.id = o,
         Gone(o)'
  PROVE  op.deleted
  <1>1. /\ op.kind = "import" /\ op.at = "chunk" /\ SameBodies
        /\ acked' = [acked EXCEPT ![op.id] = [state |-> News, rev |-> op.rev]]
    BY ImportChunksFx
  <1>2. disk'[Body(o)].deleted = op.deleted
    BY <1>1 DEF DeletionWork, Wrote, SameBodies
  <1>3. CASE o \in Item
    BY <1>2, <1>3 DEF Gone
  <1>4. CASE o \notin Item
    <2>1. acked'[o].state = "deleted"
      BY <1>4 DEF Gone
    <2>2. acked[op.id].state # "deleted"
      BY <1>1 DEF DeletionWork, Issuing
    <2>3. ~(o \in Item /\ disk[Body(o)].deleted /\ disk' = disk)
      BY <1>4
    <2> QED
      BY <2>1, <2>2, <2>3, DeletionNews
  <1> QED
    BY <1>3, <1>4

(* What is gone is recorded after every step. *)
LEMMA GoneRecordedPreserved ==
  ASSUME Shape, Working, AheadInv, KeyInv, Deletions, ~KeysTorn, ~KeysTorn', ~DeletionTorn',
         ~StaleIndex', [Next]_vars
  PROVE  GoneRecorded'
  <1> SUFFICES ASSUME op'.kind # "init", NEW o \in Object, Gone(o)', ~UnderWay(o)'
               PROVE  Recorded(o)'
    BY DEF GoneRecorded
  <1>0. /\ GoneRecorded /\ DeletionWork /\ AgainMarks
        /\ o \in Rule <=> o \notin Item
    BY ObjectAssumption DEF Deletions, Object
  <1>1. op.kind # "init"
    <2> SUFFICES ASSUME op.kind = "init" PROVE FALSE
      OBVIOUS
    <2>1. ~Crash /\ ~WriteFails
      BY CutsShow DEF Working, InStep, KeysTorn, CutAt, At
    <2>2. ShowCode
      <3>1. ~(WriteEnvelope \/ WriteHeader \/ Wipe \/ Wiped \/ EmptyIndex)
        BY FixedStepsFx, WipeFx, EmptyIndexFx DEF SameWork
      <3>2. ~(UNCHANGED vars)
        BY DEF vars
      <3> QED
        BY <2>1, <3>1, <3>2, InitSteps
    <2>3. ~Present(Body(o))
      <3>1. Creating /\ op.at = "finish"
        BY <2>2 DEF KeyInv, ShowCode
      <3>2. Body(o) \in Objs
        BY DEF Objs, Bodies
      <3> QED
        BY <3>1, <3>2 DEF Creating
    <2>4. disk' = disk
      BY <2>2 DEF ShowCode, SameFiles
    <2> QED
      BY <2>3, <2>4 DEF Gone, Present
  <1>2. CASE UnderWay(o) /\ SaveIndex
    <2>1. op.kind = "delete" /\ op.id = o
      BY <1>2 DEF UnderWay, SaveIndex
    <2>2. op.deleted
      BY <2>1 DEF Working, WorksOn
    <2> QED
      BY <1>2, <2>1, <2>2, EndsRecorded
  <1>3. CASE ImportChunks /\ op.id = o
    <2>1. op.deleted
      BY <1>0, <1>3, ImportEnds
    <2> QED
      BY <1>3, <2>1, EndsRecorded
  <1>4. CASE UnderWay(o) /\ ~SaveIndex /\ ~ImportChunks
    <2>1. op'.kind = op.kind /\ op'.id = op.id
      BY <1>4, DeletingSteps DEF UnderWay
    <2> QED
      BY <1>4, <2>1 DEF UnderWay
  <1>5. CASE Gone(o) /\ ~UnderWay(o)
    <2>1. Recorded(o)
      BY <1>0, <1>1, <1>5 DEF GoneRecorded
    <2>2. SparesGone(o)
      <3> SUFFICES ASSUME op.id = o, \/ op.kind \in Issuing /\ op.at = "index"
                                     \/ ClearTomb \/ PurgeTomb
                   PROVE  FALSE
        BY DEF SparesGone
      <3>1. CASE op.kind = "put"
        <4>1. op.at = "index" /\ o \in Item /\ ~op.deleted
          BY <3>1 DEF ClearTomb, PurgeTomb, Running, Working, WorksOn
        <4>2. disk[Body(o)].deleted = op.deleted
          BY <1>0, <3>1, <4>1 DEF DeletionWork, Wrote
        <4> QED
          BY <1>5, <4>1, <4>2 DEF Gone
      <3>2. CASE op.kind \in {"putRule", "deleteRule"}
        <4>1. o \in Rule /\ acked[o].state # "deleted"
          BY <1>0, <3>2 DEF DeletionWork, Issuing, Working, WorksOn
        <4> QED
          BY <1>0, <1>5, <4>1 DEF Gone
      <3>3. CASE PurgeTomb
        <4>1. op.kind \in {"unlock", "hardDelete"} /\ op.at = "noTomb"
          BY <3>3 DEF PurgeTomb
        <4> QED
          BY <1>0, <1>5, <4>1 DEF Gone, DeletionWork
      <3>4. op.kind \in Issuing => op.kind \in {"put", "putRule", "deleteRule"}
        BY <1>5 DEF Issuing, UnderWay
      <3>5. ClearTomb => op.kind = "putRule"
        BY DEF ClearTomb, Running
      <3> QED
        BY <3>1, <3>2, <3>3, <3>4, <3>5
    <2> QED
      BY <1>0, <1>1, <1>5, <2>1, <2>2, RecordedStays
  <1>6. CASE ~Gone(o) /\ ~UnderWay(o) /\ ~ImportChunks
    <2>1. CASE WriteBody /\ op.id = o
      <3>1. op.kind \in {"put", "putRule"} /\ acked' = acked
        BY <1>6, <2>1, Subject, WriteBodyFx DEF UnderWay, Quiet
      <3>2. acked[o].state # "deleted" /\ ~op.deleted /\ (op.kind = "put" => o \in Item)
            /\ (op.kind = "putRule" => o \in Rule)
        BY <1>0, <2>1, <3>1 DEF DeletionWork, Issuing, Working, WorksOn
      <3>3. disk'[Body(o)].deleted = op.deleted
        BY <2>1, Subject, WriteBodyFx
      <3> QED
        BY <1>0, <3>1, <3>2, <3>3 DEF Gone
    <2>2. CASE op.id = o /\ op.deleted /\ SaveIndex
      <3>1. op.kind = "deleteRule"
        BY <1>6, <2>2 DEF SaveIndex, UnderWay, Working, WorksOn
      <3> QED
        BY <2>2, <3>1, EndsRecorded
    <2> QED
      BY <1>6, <2>1, <2>2, NewlyGone
  <1>7. CASE ~Gone(o) /\ ~UnderWay(o) /\ ImportChunks /\ op.id # o
    <2>1. ~WriteBody
      BY <1>7 DEF WriteBody, ImportChunks, Running
    <2> QED
      BY <1>7, <2>1, NewlyGone
  <1>8. ImportChunks => op.kind = "import"
    BY DEF ImportChunks, Running
  <1>9. UnderWay(o) => op.id = o
    BY DEF UnderWay
  <1> QED
    BY <1>2, <1>3, <1>4, <1>5, <1>6, <1>7, <1>9

(* A command that begins to write an object is not about a deletion the user was told of. *)
LEMMA DeletionBegins ==
  ASSUME Shape, Working, DeletionWork, ItemCommand \/ RuleCommand \/ SyncCommand
  PROVE  DeletionWork'
  <1>0. Item \subseteq Object /\ Rule \subseteq Object
    BY DEF Object
  <1>1. ASSUME NEW o \in Object, BegunOn(o), op'.kind \in Issuing,
               op'.at \in {"chunk", "dropChunk", "body", "tomb"},
               op'.kind = "import" => op'.at \in {"dropChunk", "body"},
               op'.kind = "delete" => op'.at = "body"
        PROVE  DeletionWork'
    <2>1. op'.id = o /\ acked'[o].state # "deleted"
      BY <1>1 DEF BegunOn, NotDeleted
    <2>2. ~Wrote'
      BY <1>1 DEF Wrote
    <2>3. op'.kind \notin {"unlock", "hardDelete"} /\ op'.at # "index"
      BY <1>1 DEF Issuing
    <2> QED
      BY <1>1, <2>1, <2>2, <2>3 DEF DeletionWork
  <1>2. ASSUME NEW o \in Item, BeginPut(o) \/ BeginDelete(o) PROVE DeletionWork'
    <2>1. /\ BegunOn(o) /\ op'.kind \in {"put", "delete"} /\ op'.at \in {"chunk", "body"}
          /\ op'.kind = "delete" => op'.at = "body"
      BY <1>2, BeginPutFx, BeginDeleteFx DEF Working
    <2> QED
      BY <1>0, <1>1, <2>1 DEF Issuing
  <1>3. ASSUME NEW o \in Rule, BeginPutRule(o) \/ BeginDeleteRule(o) PROVE DeletionWork'
    <2>1. BegunOn(o) /\ op'.kind \in {"putRule", "deleteRule"} /\ op'.at \in {"tomb", "body"}
      BY <1>3, BeginPutRuleFx, BeginDeleteRuleFx DEF Working
    <2> QED
      BY <1>0, <1>1, <2>1 DEF Issuing
  <1>4. ASSUME NEW o \in Object, BeginImport(o) PROVE DeletionWork'
    <2>1. BegunOn(o) /\ op'.kind = "import" /\ op'.at \in {"dropChunk", "body"}
      BY <1>4, BeginImportFx DEF Working
    <2> QED
      BY <1>1, <2>1 DEF Issuing
  <1>5. ASSUME NEW o \in Object, BeginHardDelete(o) PROVE DeletionWork'
    <2>1. op'.kind = "hardDelete" /\ op'.at = "noBody"
      BY <1>5, BeginHardDeleteFx
    <2> QED
      BY <2>1 DEF DeletionWork, Issuing, Wrote
  <1>6. ASSUME NEW o, DeleteAgain(o) PROVE DeletionWork'
    <2>1. op' = Idle
      BY <1>6 DEF DeleteAgain, Unlocked, Free
    <2> QED
      BY <2>1, NoWork DEF DeletionWork, Issuing, Wrote
  <1> QED
    BY <1>2, <1>3, <1>4, <1>5, <1>6 DEF ItemCommand, RuleCommand, SyncCommand

(* Nor is it while it goes on, and its object is where its steps have put it. *)
LEMMA DeletionWorkPreserved ==
  ASSUME Shape, Working, AheadInv, DeletionWork, ~StaleIndex', [Next]_vars
  PROVE  DeletionWork'
  <1>1. op'.kind \in {"idle", "recover", "init"} => DeletionWork'
    BY DEF DeletionWork, Issuing, Wrote
  <1>2. CASE ItemCommand \/ RuleCommand \/ SyncCommand
    BY <1>2, DeletionBegins
  <1>3. CASE \/ SaveIndex \/ SaveHardDelete \/ ImportChunks \/ List \/ Lock \/ Unlock \/ Crash
             \/ WriteFails \/ LoseIndex \/ GraceEnds \/ ResealFails \/ ShowCode
    <2>1. op' = Idle
      BY <1>3 DEF SaveIndex, SaveHardDelete, ImportChunks, List, Lock, Unlock, Crash, WriteFails,
                  LoseIndex, GraceEnds, Unlocked, Free, ResealFails, ShowCode
    <2> QED
      BY <1>1, <2>1, NoWork
  <1>4. CASE WriteBody
    <2>0. op.id \in Object
      BY <1>4, Subject
    <2>1. /\ op.kind \in {"put", "delete", "putRule", "import"} /\ SameWork /\ op'.at = AfterBody
          /\ acked' = acked /\ disk'[Body(op.id)].deleted = op.deleted
      BY <1>4, <2>0, WriteBodyFx DEF Quiet
    <2>2. op'.kind = op.kind /\ op'.id = op.id /\ op'.deleted = op.deleted
      BY <2>1 DEF SameWork
    <2>3. op'.at \in {"tomb", "noTomb", "index"} /\ (op.kind = "delete" => op'.at = "tomb")
          /\ (op.kind = "import" => op'.at = "index")
      BY <2>1 DEF AfterBody
    <2> QED
      BY <2>1, <2>2, <2>3 DEF DeletionWork, Issuing
  <1>5. CASE WriteTomb
    <2>0. op.id \in Object
      BY <1>5, Subject
    <2>1. /\ op.kind \in {"delete", "deleteRule", "import"} /\ op.at = "tomb" /\ SameWork
          /\ mem' = mem /\ acked' = acked /\ SameBodies /\ SameIndex
          /\ op'.at = IF op.kind = "import" THEN "meta" ELSE "index"
          /\ disk'[Tomb(op.id)].key = mem.key /\ mem.key # 0
      BY <1>5, <2>0, WriteTombFx DEF Quiet, Working, WorksOn, MemKinds
    <2>2. op'.kind = op.kind /\ op'.id = op.id /\ op'.deleted = op.deleted
      BY <2>1 DEF SameWork
    <2>3. op.kind \in {"delete", "import"} => disk'[Body(op.id)].deleted = op.deleted
      BY <2>0, <2>1 DEF DeletionWork, Wrote, SameBodies
    <2>4. op.kind = "import" /\ op.deleted =>
            Marked(disk'[Index].entries, op.id) /\ mem'.index[op.id].deleted
      BY <2>1 DEF DeletionWork, SameIndex
    <2>5. disk'[Tomb(op.id)].key # 0
      BY <2>1
    <2>6. acked'[op.id].state # "deleted"
      BY <2>1 DEF DeletionWork, Issuing
    <2> QED
      BY <2>1, <2>2, <2>3, <2>4, <2>5, <2>6 DEF DeletionWork, Wrote, Present, Marked
  <1>6. CASE ClearTomb
    <2>0. op.id \in Object
      BY <1>6, Subject
    <2>1. /\ op.kind = "putRule" /\ op.at = "noTomb" /\ SameWork /\ acked' = acked /\ SameBodies
      BY <1>6, <2>0, ClearTombFx DEF Quiet
    <2>2. disk'[Body(op.id)].deleted = op.deleted
      BY <2>0, <2>1 DEF DeletionWork, Wrote, SameBodies
    <2>3. op'.kind = op.kind /\ op'.id = op.id /\ op'.deleted = op.deleted
      BY <2>1 DEF SameWork
    <2> QED
      BY <2>1, <2>2, <2>3 DEF DeletionWork, Issuing
  <1>7. CASE SaveImported
    <2>0. op.id \in Object
      BY <1>7 DEF SaveImported, Running, Working, WorksOn, MemKinds
    <2>1. /\ op.kind = "import" /\ op.at = "index" /\ SameWork /\ acked' = acked /\ SameBodies
          /\ op'.at = IF op.deleted THEN "tomb" ELSE "meta"
          /\ mem'.index = Entered /\ disk'[Index].entries = Entered
      BY <1>7, SaveImportedFx
    <2>2. disk'[Body(op.id)].deleted = op.deleted
      BY <2>0, <2>1 DEF DeletionWork, Wrote, SameBodies
    <2>3. op'.kind = op.kind /\ op'.id = op.id /\ op'.deleted = op.deleted
      BY <2>1 DEF SameWork
    <2>4. op.deleted => Marked(Entered, op.id) /\ Entered[op.id].deleted
      <3> DEFINE e == [rev |-> op.rev, deleted |-> op.deleted]
      <3>1. Entered = [mem.index EXCEPT ![op.id] = e]
        BY <2>1 DEF Entered
      <3>2. op.deleted => e.deleted
        OBVIOUS
      <3> HIDE DEF e
      <3>3. Entered[op.id] = e
        BY <2>0, <3>1 DEF AheadInv, NotAhead
      <3> QED
        BY <3>2, <3>3 DEF Marked
    <2>5. op.deleted => Marked(disk'[Index].entries, op.id) /\ mem'.index[op.id].deleted
      BY <2>1, <2>4
    <2> HIDE DEF Entered
    <2>6. acked'[op.id].state # "deleted"
      BY <2>1 DEF DeletionWork, Issuing
    <2> QED
      BY <2>1, <2>2, <2>3, <2>5, <2>6 DEF DeletionWork, Marked
  <1>8. CASE ImportMeta
    <2>0. op.id \in Object
      BY <1>8 DEF ImportMeta, Running, Working, WorksOn, MemKinds
    <2>1. /\ op.kind = "import" /\ op.at = "meta" /\ SameWork /\ op'.at = "chunk"
          /\ acked' = acked /\ mem' = mem /\ SameBodies /\ SameTombs /\ SameIndex
      BY <1>8, ImportMetaFx DEF Quiet
    <2>2. disk'[Body(op.id)].deleted = op.deleted
      BY <2>0, <2>1 DEF DeletionWork, Wrote, SameBodies
    <2>3. op'.kind = op.kind /\ op'.id = op.id /\ op'.deleted = op.deleted
      BY <2>1 DEF SameWork
    <2>4. op.deleted => /\ Marked(disk'[Index].entries, op.id) /\ mem'.index[op.id].deleted
                        /\ disk'[Tomb(op.id)].key # 0
      BY <2>0, <2>1 DEF DeletionWork, SameIndex, SameTombs, Present
    <2> QED
      BY <2>1, <2>2, <2>3, <2>4 DEF DeletionWork, Issuing, Marked, Present
  <1>9. CASE PutChunks \/ PutMeta \/ DropReplaced \/ (DropChunks /\ op.kind \in {"put", "import"})
    <2>1. /\ op.kind \in {"put", "import"} /\ SameWork /\ acked' = acked
          /\ op'.at \in {"meta", "body", "dropChunk", "dropMeta"}
          /\ op.kind = "import" => op'.at # "meta"
      BY <1>9, PutChunksFx, PutMetaFx, DropChunksFx, DropReplacedFx DEF Quiet
    <2>2. op'.kind = op.kind /\ op'.id = op.id
      BY <2>1 DEF SameWork
    <2>3. acked'[op.id].state # "deleted"
      BY <2>1 DEF DeletionWork, Issuing
    <2> QED
      BY <2>1, <2>2, <2>3 DEF DeletionWork, Wrote
  <1>10. CASE PurgeStep \/ (DropChunks /\ op.kind \notin {"put", "import"})
    <2>1. CASE PurgeBody
      <3>0. op.id \in Object
        BY <2>1, Subject
      <3>1. /\ op.kind \in {"unlock", "hardDelete"} /\ SameWork /\ op'.at = "noTomb"
            /\ disk'[Body(op.id)] = NoBody
        BY <2>1, <3>0, PurgeBodyFx
      <3>2. op'.kind = op.kind /\ op'.id = op.id /\ disk'[Body(op.id)].key = 0
        BY <3>1 DEF SameWork, NoBody
      <3> QED
        BY <3>1, <3>2 DEF DeletionWork, Issuing, Wrote, Present
    <2>2. CASE PurgeNext \/ PurgeDone
      <3>1. op'.kind = "unlock" /\ op'.at \in {"noBody", "finish"}
        BY <2>2, PurgeNextFx, PurgeDoneFx DEF SameWork
      <3> QED
        BY <3>1 DEF DeletionWork, Issuing, Wrote
    <2>3. CASE PurgeTomb \/ PurgeMeta \/ DropChunks
      <3>1. op.kind \in {"unlock", "hardDelete"}
        <4>1. CASE PurgeTomb \/ PurgeMeta
          BY <4>1 DEF PurgeTomb, PurgeMeta
        <4>2. CASE DropChunks /\ op.kind \notin {"put", "import"}
          BY <4>2 DEF DropChunks, Working, InStep, Kind
        <4>3. PurgeStep => op.kind \in {"unlock", "hardDelete"}
          BY DEF PurgeStep, PurgeNext, PurgeBody, PurgeTomb, PurgeMeta, PurgeDone, Running
        <4> QED
          BY <1>10, <2>3, <4>1, <4>2, <4>3
      <3>2. op.at \in {"noTomb", "dropChunk", "dropMeta"} /\ op.id \in Object
        BY <2>3, <3>1 DEF PurgeTomb, PurgeMeta, DropChunks, Working, WorksOn, Purges
      <3>3. /\ SameBodies /\ op'.kind = op.kind
            /\ op'.at \in {"dropChunk", "dropMeta", "index", "purge"}
            /\ op'.at # "purge" => op'.id = op.id
        BY <2>3, <3>1, <3>2, PurgeTombFx, PurgeMetaFx, DropChunksFx DEF SameWork, PurgedWork
      <3>4. op'.at # "purge" => disk'[Body(op'.id)].key = 0
        BY <3>1, <3>2, <3>3 DEF DeletionWork, SameBodies, Present
      <3> QED
        BY <3>1, <3>3, <3>4 DEF DeletionWork, Issuing, Wrote, Present
    <2> QED
      BY <1>10, <2>1, <2>2, <2>3 DEF PurgeStep
  <1>11. CASE Load \/ BeginUnlock
    <2>1. op'.kind = "unlock" /\ op'.at \in {"load", "purge", "finish"}
      BY <1>11, LoadFx DEF BeginUnlock, Idle
    <2> QED
      BY <2>1 DEF DeletionWork, Issuing, Wrote
  <1>12. CASE \/ LoadOld \/ Reseal \/ ResealIndex \/ WriteEnvelope \/ WriteHeader \/ Wipe
              \/ Wiped \/ EmptyIndex \/ BeginRecover \/ \E reset \in BOOLEAN : BeginInit(reset)
    <2>1. op'.kind \in {"recover", "init"}
      <3>1. CASE Reseal
        <4>1. op.key # 0 /\ op.todo \subseteq Objs
          BY <3>1 DEF Reseal, Running, Working, WorksOn
        <4> QED
          BY <3>1, <4>1, ResealFx
      <3>2. CASE LoadOld \/ ResealIndex \/ Wipe \/ EmptyIndex
        BY <3>2, LoadOldFx, ResealIndexFx, WipeFx, EmptyIndexFx DEF SameWork
      <3>3. CASE WriteEnvelope \/ WriteHeader \/ Wiped
        BY <3>3, FixedStepsFx DEF SameWork
      <3>4. CASE BeginRecover \/ \E reset \in BOOLEAN : BeginInit(reset)
        BY <3>4, BeginInitFx DEF BeginRecover, Idle
      <3> QED
        BY <1>12, <3>1, <3>2, <3>3, <3>4
    <2> QED
      BY <1>1, <2>1
  <1>13. CASE UNCHANGED vars
    BY <1>13 DEF vars, DeletionWork, Wrote, Marked, Present
  <1>14. CASE AgainStep
    <2>1. op' = op /\ acked' = acked /\ SameBodies /\ SameTombs
      BY <1>14, AgainFx
    <2>2. CASE op.kind = "idle"
      BY <1>1, <2>1, <2>2
    <2>3. CASE op.kind = "hardDelete"
      <3>1. op.at \in {"noTomb", "dropChunk", "dropMeta", "index"} => op.id \in Object
        BY <2>3 DEF Working, WorksOn, MemKinds
      <3> QED
        BY <2>1, <2>3, <3>1 DEF DeletionWork, Issuing, Wrote, SameBodies, Present
    <2>4. CASE op.kind = "import"
      <3>0. op.id \in Object
        BY <2>4 DEF Working, WorksOn, MemKinds
      <3>1. ~UnlockAgain /\ mem'.index = mem.index
        BY <1>14, <2>4, AgainFx DEF UnlockAgain, Idle
      <3>2. op.deleted /\ op.at \in {"tomb", "meta", "chunk"} => Marked(disk'[Index].entries, op.id)
        <4>1. SUFFICES ASSUME op.deleted, op.at \in {"tomb", "meta", "chunk"}
                       PROVE  Marked(disk'[Index].entries, op.id)
          OBVIOUS
        <4>2. Marked(disk[Index].entries, op.id) /\ mem.index[op.id].deleted
          BY <2>4, <4>1 DEF DeletionWork
        <4>3. SaveAgain => Marked(mem.next.entries, op.id)
          BY <3>0, <4>2, AgainFresh
        <4> QED
          BY <1>14, <4>2, <4>3, AgainFx DEF SameIndex, Marked
      <3> QED
        BY <2>1, <2>4, <3>0, <3>1, <3>2
           DEF DeletionWork, Issuing, Wrote, SameBodies, SameTombs, Present, Marked
    <2>5. op.kind \in {"idle", "import", "hardDelete"}
      BY <1>14, NotBeside DEF Working, InStep, Kind, Shape, Beside, AgainStep, LoadAgain, SaveAgain,
                              UnlockAgain, AgainFails
    <2> QED
      BY <2>2, <2>3, <2>4, <2>5
  <1> QED
    BY <1>2, <1>3, <1>4, <1>5, <1>6, <1>7, <1>8, <1>9, <1>10, <1>11, <1>12, <1>13, <1>14
       DEF Next, WriteStep, KeyStep

(* What a vault that is opened again has missed, the one in memory knows. *)
LEMMA AgainMarksPreserved ==
  ASSUME Shape, Working, KeyInv, AheadInv, Deletions, ~KeysTorn, ~DeletionTorn', [Next]_vars
  PROVE  AgainMarks'
  <1> SUFFICES ASSUME mem'.next.at # "idle", NEW o \in Object, Gone(o)', ~UnderWay(o)'
               PROVE  Marked(mem'.next.entries, o) \/ mem'.index[o].deleted
    BY DEF AgainMarks, Marked
  <1>0. GoneRecorded /\ DeletionWork /\ AgainMarks
    BY DEF Deletions
  <1>1. CASE LoadAgain
    <2>1. /\ op.kind \in {"idle", "import", "hardDelete"} /\ op' = op /\ acked' = acked /\ SameBodies
      BY <1>1, AgainFx DEF LoadAgain, AgainStep
    <2>2. Gone(o) /\ ~UnderWay(o)
      BY <2>1 DEF Gone, UnderWay, SameBodies, Present
    <2>3. Recorded(o)
      BY <1>0, <2>1, <2>2 DEF GoneRecorded
    <2>4. Agree
      BY <2>1 DEF KeyInv, Ordinary
    <2>5. \A k, now : Marked(Rebuilt(k, now), o)
      BY <2>2, <2>3, <2>4, RebuiltMarks DEF Recorded
    <2> QED
      BY <1>1, <2>3, <2>5, AgainFx DEF Recorded, AgainStep
  <1>2. CASE SaveAgain
    <2>1. /\ op' = op /\ acked' = acked /\ SameBodies /\ mem.next.at # "idle"
          /\ mem'.index = mem.index /\ mem'.next.entries = mem.next.entries
      BY <1>2, AgainFx DEF SaveAgain, UnlockAgain, AgainStep
    <2>2. Gone(o) /\ ~UnderWay(o)
      BY <2>1 DEF Gone, UnderWay, SameBodies, Present
    <2> QED
      BY <1>0, <2>1, <2>2 DEF AgainMarks
  <1>3. CASE mem'.next = mem.next
    <2>1. op.kind \in {"idle", "import", "hardDelete"} /\ mem.next # NotAgain /\ mem.next.at # "idle"
      BY <1>3 DEF Shape, Beside, NotAgain
    <2>2. ~List /\ ~UnlockAgain /\ ~(\E p \in Rule : BeginDeleteRule(p)) /\ mem'.next.at # "idle"
      BY <1>3, <2>1, AgainFx DEF List, BeginDeleteRule, Unlocked, AgainStep
    <2>3. CASE Gone(o) /\ ~UnderWay(o)
      <3>1. Marked(mem.next.entries, o) \/ mem.index[o].deleted
        BY <1>0, <2>1, <2>3 DEF AgainMarks
      <3>2. mem.index[o].deleted => mem'.index[o].deleted
        <4>1. ~Unlock
          BY <2>1 DEF Unlock, Running
        <4>2. CASE op.kind \in Issuing /\ op.at = "index" /\ mem'.index = Entered
          <5>1. op.kind = "import" /\ op.id # o
            BY <2>1, <2>3, <4>2 DEF Issuing, UnderWay
          <5>2. Entered[o] = mem.index[o]
            BY <5>1 DEF Entered, AheadInv, NotAhead
          <5> QED
            BY <4>2, <5>2
        <4>3. CASE /\ op.kind = "hardDelete" /\ op.at = "index"
                   /\ mem'.index = [mem.index EXCEPT ![op.id] = NoEntry]
          <5>1. op.id # o
            BY <1>0, <2>3, <4>3 DEF DeletionWork, Gone
          <5> QED
            BY <4>3, <5>1 DEF AheadInv, NotAhead
        <4> QED
          BY <2>1, <2>2, <4>1, <4>2, <4>3, MemEntries
      <3> QED
        BY <1>3, <3>1, <3>2 DEF Marked
    <2>4. CASE UnderWay(o)
      <3>1. op.kind = "import" /\ op.id = o
        BY <2>1, <2>4 DEF UnderWay
      <3>2. ImportChunks
        BY <3>1, DeletingSteps DEF UnderWay, SaveIndex
      <3>3. op.deleted /\ op.at = "chunk" /\ mem' = mem
        BY <1>0, <3>1, <3>2, ImportEnds, ImportChunksFx
      <3> QED
        BY <1>0, <3>1, <3>3 DEF DeletionWork
    <2>5. CASE ~Gone(o) /\ ~UnderWay(o)
      <3>1. ~(op.id = o /\ (WriteBody \/ SaveIndex \/ ImportChunks))
        BY <2>1, <2>5 DEF UnderWay, WriteBody, SaveIndex, ImportChunks, Running
      <3> QED
        BY <2>5, <3>1, NewlyGone
    <2> QED
      BY <2>3, <2>4, <2>5
  <1> QED
    BY <1>1, <1>2, <1>3, MemSteps DEF Shape, Moves, NextMoves

(* Every step keeps the records of deletions. *)
LEMMA DeletionPreserved ==
  ASSUME Shape, Working, AheadInv, KeyInv, DeletionInv, [Next]_vars
  PROVE  DeletionInv'
  <1> SUFFICES ASSUME ~KeysTorn', ~DeletionTorn', ~StaleIndex' PROVE Deletions'
    BY DEF DeletionInv
  <1>1. ~KeysTorn /\ ~DeletionTorn /\ ~StaleIndex
    BY TearsGrow DEF KeysTorn, DeletionTorn, StaleIndex, CutAt
  <1>2. Deletions
    BY <1>1 DEF DeletionInv
  <1>3. GoneRecorded'
    BY <1>1, <1>2, GoneRecordedPreserved
  <1>4. ToldTrue' /\ DeletionWork' /\ AgainMarks'
    BY <1>1, <1>2, ToldTruePreserved, DeletionWorkPreserved, AgainMarksPreserved DEF Deletions
  <1> QED
    BY <1>3, <1>4 DEF Deletions

(* Before anything is stored, nothing is gone. *)
LEMMA DeletionStart == Init => DeletionInv
  <1> SUFFICES ASSUME Init PROVE Deletions
    BY DEF DeletionInv
  <1>1. op.kind = "idle" /\ \A n \in Name : disk[n] = Missing(n)
    BY NoWork DEF Init
  <1>2. \A o \in Object : ~Present(Body(o))
    BY <1>1, OwnNames, MissingBlobs DEF NoBody, Present
  <1>3. mem.next.at = "idle"
    BY DEF Init, Locked, NotAgain
  <1> QED
    BY <1>1, <1>2, <1>3 DEF Deletions, GoneRecorded, ToldTrue, DeletionWork, AgainMarks, Gone, Issuing,
                            Wrote, Object

(* A deletion the user was told of will reach the other devices and the purge: while the body    *)
(* is there, the tombstone is too and the index on the disk does not say that the object is      *)
(* alive, through crashes, failed writes, losses and rebuildings of the index and recoveries,    *)
(* unless a try to delete an object, or to import a version, was cut off, or an unlock of the    *)
(* unlocked vault put an index back that rounds of the poller had overtaken meanwhile.           *)
THEOREM DeletionStaysRecorded == Spec => []DeletionRecorded
  <1> DEFINE Inv == Shape /\ KeyInv /\ Working /\ AheadInv /\ DeletionInv
  <1>1. Init => Inv
    BY KeysStart, FilesStart, DeletionStart
  <1>2. Inv /\ [Next]_vars => Inv'
    BY ShapePreserved, KeyInvPreserved, WorkingPreserved, AheadPreserved, DeletionPreserved
  <1>3. Inv => DeletionRecorded
    <2> SUFFICES ASSUME Inv, ~StaleIndex, ~Rekeying, ~KeysTorn, ~DeletionTorn, NEW o \in Object,
                        acked[o].state = "deleted", Present(Body(o))
                 PROVE  /\ Present(Index) /\ disk[Index].entries[o] # NoEntry
                             => disk[Index].entries[o].deleted
                        /\ synced \/ Present(Tomb(o))
      BY DEF DeletionRecorded, DeletionStands
    <2>1. Deletions
      BY DEF DeletionInv
    <2>2. Gone(o)
      BY <2>1 DEF Deletions, ToldTrue, Gone
    <2>3. ~UnderWay(o)
      BY <2>1 DEF Deletions, DeletionWork, UnderWay, Issuing
    <2>4. Recorded(o)
      BY <2>1, <2>2, <2>3 DEF Deletions, GoneRecorded, Rekeying
    <2> QED
      BY <2>4 DEF Recorded, Marked
  <1> QED
    BY <1>1, <1>2, <1>3, PTL DEF Spec
================================================================================
