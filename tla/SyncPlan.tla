------------------------------ MODULE SyncPlan ------------------------------
(***************************************************************************)
(* The data of a vault object and the pure part of a synchronisation       *)
(* round: last-write-wins arbitration, the comparison of two indexes and   *)
(* the index a round writes back (lk-core/src/sync/plan.rs).               *)
(*                                                                         *)
(* A revision is a number; 0 stands for "there is none", so an object that *)
(* is missing is the version every other version beats.  A ciphertext is   *)
(* the record it seals: the storage ETag of a blob is the blob itself.     *)
(***************************************************************************)
EXTENDS Naturals

CONSTANTS
  Item,   \* ids of items: revision and deleted flag are inside the sealed body
  Rule    \* ids of rules: revision and deleted flag live in the index only

ASSUME KindsAssumption == Item \cap Rule = {}

Obj == Item \cup Rule

(* An index entry; Absent is the missing entry. *)
Entry  == [rev : Nat, deleted : BOOLEAN]
Absent == [rev |-> 0, deleted |-> FALSE]

Index      == [Obj -> Entry]
EmptyIndex == [o \in Obj |-> Absent]

(***************************************************************************)
(* A sealed body.  For an item rev and deleted are its fields; for a rule  *)
(* rev is the revision under which the body was sealed (it only tells two  *)
(* ciphertexts apart, no step of the protocol reads it), deleted is FALSE, *)
(* and created is the rule's creation stamp.  content ranks the SHA-256    *)
(* digests of bodies.                                                      *)
(***************************************************************************)
Blob   == [rev : Nat, deleted : BOOLEAN, content : Nat, created : Nat]
NoBlob == [rev |-> 0, deleted |-> FALSE, content |-> 0, created |-> 0]

(* The entry an item's own body stands for. *)
EntryOf(b) == [rev |-> b.rev, deleted |-> b.deleted]

(* A fetched object waiting for the apply phase; tomb is the revision of  *)
(* the tombstone that comes with a deleted one.                           *)
Import   == [rev : Nat, deleted : BOOLEAN, blob : Blob, tomb : Nat]
NoImport == [rev |-> 0, deleted |-> FALSE, blob |-> NoBlob, tomb |-> 0]

-----------------------------------------------------------------------------
(* Last write wins: the later revision, then the greater content digest. *)
Digest(b) == 2 * b.content + (IF b.deleted THEN 1 ELSE 0)

Beats(a, b) ==
  \/ a.rev > b.rev
  \/ a.rev = b.rev /\ Digest(a) > Digest(b)

(* Mutated form: only what is missing is fetched. *)
DiffPullMissing(local, remote) ==
  {o \in Obj : remote[o].rev # 0 /\ local[o].rev = 0}

(* What a round has to fetch, given the two indexes ... *)
DiffPull(local, remote) ==
  {o \in Obj : /\ remote[o].rev # 0
               /\ \/ local[o].rev < remote[o].rev
                  \/ /\ local[o].rev = remote[o].rev
                     /\ local[o].deleted # remote[o].deleted}

(* Mutated form: only what is missing is uploaded. *)
DiffPushMissing(local, remote) ==
  {o \in Obj : remote[o].rev = 0 /\ local[o].rev # 0 /\ ~local[o].deleted}

(* ... and to upload. *)
DiffPush(local, remote) ==
  {o \in Obj : \/ remote[o].rev # 0 /\ local[o].rev > remote[o].rev
               \/ remote[o].rev = 0 /\ local[o].rev # 0 /\ ~local[o].deleted}

(***************************************************************************)
(* The index a round writes: the remote one, under what the round fetched  *)
(* (pending), under what is newer locally, without what was skipped or     *)
(* purged.                                                                 *)
(***************************************************************************)
MergeIndexes(remote, local, pending, skipped, skippedPush, purged) ==
  [o \in Obj |->
     CASE o \in purged -> Absent
       [] o \in skippedPush \ purged -> remote[o]
       [] o \in skipped \ (skippedPush \cup purged) -> Absent
       [] OTHER ->
            IF pending[o].rev # 0
              THEN [rev |-> pending[o].rev, deleted |-> pending[o].deleted]
              ELSE IF local[o].rev > remote[o].rev THEN local[o] ELSE remote[o]]

=============================================================================
