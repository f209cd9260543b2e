--------------------------- MODULE RemoteStorage_proofs ---------------------------
(***************************************************************************)
(* Proofs that the backends keep the promise of a conditional store        *)
(* (KeepsPromise), whatever the network loses, and that a listing misses   *)
(* no object that was there all along (ListingComplete).                   *)
(***************************************************************************)
EXTENDS RemoteStorage, FiniteSetTheorems, TLAPS

(* Two devices never write to one directory at once. *)
OneWriter == Shared => "local" \notin Backends

-----------------------------------------------------------------------------
(***************************************************************************)
(* Sets of keys.                                                           *)
(***************************************************************************)

(* A set of numbers has a least one: the smallest of the intervals that end there. *)
LEMMA LeastKey ==
  ASSUME NEW S \in SUBSET Nat, S # {}
  PROVE  \E k \in S : \A j \in S : k <= j
<1> DEFINE T == {0..k : k \in S}
<1>1. T \subseteq FiniteSubsetsOf(Nat) /\ T # {}
  <2>1. ASSUME NEW k \in S
        PROVE  0..k \in FiniteSubsetsOf(Nat)
    <3>1. IsFiniteSet(0..k)
      BY FS_Interval
    <3> QED
      BY <3>1 DEF FiniteSubsetsOf
  <2> QED
    BY <2>1
<1>2. PICK x \in T : \A y \in T : <<y, x>> \notin StrictSubsetOrdering(Nat)
  BY <1>1, FS_StrictSubsetOrderingWellFounded, WFMin
<1>3. PICK k \in S : x = 0..k
  BY <1>2
<1>4. ASSUME NEW j \in S, j < k
      PROVE  FALSE
  <2>1. 0..j \subseteq 0..k /\ 0..j # 0..k
    BY <1>4
  <2>2. <<0..j, 0..k>> \in StrictSubsetOrdering(Nat)
    BY <2>1 DEF StrictSubsetOrdering
  <2> QED
    BY <1>2, <1>3, <2>2
<1> QED
  BY <1>4

(* Max of a set of keys is its last one. *)
LEMMA GreatestKey ==
  ASSUME NEW S \in SUBSET Keys, S # {}
  PROVE  /\ Max(S) \in S
         /\ \A k \in S : k <= Max(S)
<1> DEFINE T == {MaxKey - k : k \in S}
<1>1. MaxKey \in Nat /\ \A k \in S : k \in Nat /\ k <= MaxKey
  BY StorageAssumption DEF Keys
<1>2. T \in SUBSET Nat /\ T # {}
  BY <1>1
<1>3. PICK m \in T : \A t \in T : m <= t
  BY <1>2, LeastKey
<1>4. PICK k \in S : m = MaxKey - k
  BY <1>3
<1>5. \A j \in S : k >= j
  BY <1>1, <1>3, <1>4
<1>6. Max(S) \in S /\ \A j \in S : Max(S) >= j
  BY <1>5 DEF Max
<1> QED
  BY <1>1, <1>6

-----------------------------------------------------------------------------
(***************************************************************************)
(* Types.                                                                  *)
(***************************************************************************)
Kinds   == {"get", "etag", "put", "delete", "list"}
Outcome == Object \cup {Absent, Written, Conflict, Done, Error}

Operation ==
  [kind : Kinds \cup {"none"}, key : Keys \cup {NoKey}, exp : Tags \cup {NoTag},
   data : Blobs \cup {NoBlob}, at : {"idle", "mkcol", "send", "answered", "rename", "ended"},
   reply : Reply, out : Outcome, tag : Tags \cup {NoTag}, listed : SUBSET Keys,
   token : Keys \cup {0}, left : SUBSET Keys, firm : SUBSET Keys,
   bare : SUBSET Keys]

(* What goes with what in an operation. *)
Fitting(o) ==
  /\ o.kind = "none" <=> o.at = "idle"
  /\ o.kind \in {"get", "etag", "put", "delete"} => o.key \in Keys
  /\ o.kind = "put" => o.data \in Blobs
  /\ o.at \in {"mkcol", "rename"} => o.kind = "put"
  /\ o.reply.more => o.kind = "list" /\ Success(o.reply.status) /\ o.reply.keys # {}
  /\ o.kind = "put" /\ Success(o.reply.status) => o.reply.obj # Absent

(* The puts that may still be given a number. *)
Pending == {c \in Clients : op[c].kind = "put" /\ op[c].at \in {"mkcol", "send"}}

Types ==
  /\ backend \in Backends
  /\ objs \in [Keys -> Object \cup {Absent}]
  /\ op \in [Clients -> Operation]
  /\ \A c \in Clients : Fitting(op[c])
  /\ calls \in 0..MaxCalls /\ faults \in 0..MaxFaults
  /\ version \in Nat \ {0} /\ version + Cardinality(Pending) <= calls + 2

LEMMA IdleFits == Idle \in Operation /\ Fitting(Idle)
  BY OutcomeAssumption DEF Idle, NoReply, Reply, Operation, Outcome, Fitting, Success

(* Every put under way has its number. *)
LEMMA PendingCount ==
  ASSUME Types
  PROVE  /\ Cardinality(Pending) \in Nat
         /\ version <= MaxCalls + 2
         /\ \A c \in Clients : c \in Pending => version \in Versions
<1>1. IsFiniteSet(Pending)
  BY StorageAssumption, FS_Subset DEF Pending
<1>2. Cardinality(Pending) \in Nat
  BY <1>1, FS_CardinalityType
<1>3. ASSUME NEW c \in Clients, c \in Pending
      PROVE  Cardinality(Pending) # 0
  BY <1>1, <1>3, FS_EmptySet
<1> QED
  BY <1>2, <1>3, StorageAssumption DEF Types, Versions

LEMMA TypesInit == Init => Types
<1> SUFFICES ASSUME Init PROVE Types
  OBVIOUS
<1>1. op = [c \in Clients |-> Idle]
  BY DEF Init
<1>2. op \in [Clients -> Operation] /\ \A c \in Clients : Fitting(op[c])
  BY <1>1, IdleFits
<1>3. Pending = {}
  BY <1>1 DEF Pending, Idle
<1>4. objs \in [Keys -> Object \cup {Absent}]
  BY StorageAssumption DEF Init, Object, Tags, Versions
<1> QED
  BY <1>2, <1>3, <1>4, FS_EmptySet, StorageAssumption DEF Init, Types

(* Nothing but the operation of c changes, and the count of puts keeps up. *)
LEMMA PendingKept ==
  ASSUME Types, Pending' \subseteq Pending, UNCHANGED <<version, calls>>
  PROVE  version' + Cardinality(Pending)' <= calls' + 2
<1>1. IsFiniteSet(Pending)
  BY StorageAssumption, FS_Subset DEF Pending
<1>2. IsFiniteSet(Pending') /\ Cardinality(Pending') <= Cardinality(Pending)
  BY <1>1, FS_Subset
<1>3. Cardinality(Pending) \in Nat /\ Cardinality(Pending') \in Nat
  BY <1>1, <1>2, FS_CardinalityType
<1>4. calls \in Nat
  BY StorageAssumption DEF Types
<1> QED
  BY <1>2, <1>3, <1>4 DEF Types

LEMMA PendingBegun ==
  ASSUME Types, NEW c \in Clients, Pending' \subseteq Pending \cup {c}, version' = version,
         calls' = calls + 1
  PROVE  version' + Cardinality(Pending)' <= calls' + 2
<1>1. IsFiniteSet(Pending)
  BY StorageAssumption, FS_Subset DEF Pending
<1>2. /\ IsFiniteSet(Pending \cup {c})
      /\ Cardinality(Pending \cup {c}) <= Cardinality(Pending) + 1
  <2>1. Cardinality(Pending) \in Nat
    BY <1>1, FS_CardinalityType
  <2>2. /\ IsFiniteSet(Pending \cup {c})
        /\ Cardinality(Pending \cup {c}) = IF c \in Pending THEN Cardinality(Pending)
                                            ELSE Cardinality(Pending) + 1
    BY <1>1, FS_AddElement
  <2> QED
    BY <2>1, <2>2
<1>3. IsFiniteSet(Pending') /\ Cardinality(Pending') <= Cardinality(Pending \cup {c})
  BY <1>2, FS_Subset
<1>4. /\ Cardinality(Pending) \in Nat /\ Cardinality(Pending') \in Nat
      /\ Cardinality(Pending \cup {c}) \in Nat
  BY <1>1, <1>2, <1>3, FS_CardinalityType
<1>5. calls \in Nat
  BY StorageAssumption DEF Types
<1> QED
  BY <1>2, <1>3, <1>4, <1>5 DEF Types

LEMMA PendingServed ==
  ASSUME Types, NEW c \in Pending, Pending' \subseteq Pending \ {c},
         version' \in {version, version + 1}, calls' = calls
  PROVE  version' + Cardinality(Pending)' <= calls' + 2
<1>1. IsFiniteSet(Pending)
  BY StorageAssumption, FS_Subset DEF Pending
<1>2. /\ IsFiniteSet(Pending \ {c})
      /\ Cardinality(Pending \ {c}) = Cardinality(Pending) - 1
  BY <1>1, FS_RemoveElement
<1>3. IsFiniteSet(Pending') /\ Cardinality(Pending') <= Cardinality(Pending \ {c})
  BY <1>2, FS_Subset
<1>4. Cardinality(Pending) \in Nat /\ Cardinality(Pending') \in Nat
  BY <1>1, <1>3, FS_CardinalityType
<1>5. calls \in Nat
  BY StorageAssumption DEF Types
<1> QED
  BY <1>2, <1>3, <1>4, <1>5 DEF Types

(* What is put somewhere has a tag. *)
LEMMA StoredTyped ==
  ASSUME Types, NEW c \in Clients, op[c].kind = "put", Is("webdav") => c \in Pending
  PROVE  /\ Stored(c) \in [Keys -> Object \cup {Absent}]
         /\ Stored(c)[op[c].key] \in Object
         /\ TagOf(op[c].data) \in Tags
<1>1. op[c] \in Operation /\ Fitting(op[c])
  BY DEF Types
<1>2. op[c].key \in Keys /\ op[c].data \in Blobs
  BY <1>1 DEF Fitting
<1>3. TagOf(op[c].data) \in Tags
  BY <1>2, PendingCount DEF TagOf, Tags
<1> QED
  BY <1>2, <1>3 DEF Stored, Object, Types

(* The same request, and as far along; a key may have been removed under it. *)
SameRequest(n, o) ==
  /\ n.kind = o.kind /\ n.key = o.key /\ n.exp = o.exp /\ n.data = o.data
  /\ n.listed = o.listed /\ n.token = o.token /\ n.left = o.left /\ n.bare = o.bare

SameBut(n, o) == SameRequest(n, o) /\ n.at = o.at /\ n.reply = o.reply /\ n.out = o.out

(* End keeps types, if what it says is an outcome. *)
LEMMA EndTyped ==
  ASSUME Types, NEW c \in Clients, NEW out \in Outcome, End(c, out), op[c].kind # "none",
         out = Written => op[c].kind = "put" /\ (Is("webdav") => op[c].reply.obj # Absent
                                                  /\ op[c].reply.obj.tag # NoTag)
  PROVE  /\ op' \in [Clients -> Operation]
         /\ \A d \in Clients : Fitting(op'[d])
         /\ \A d \in Clients \ {c} : op'[d] = op[d]
         /\ SameRequest(op'[c], op[c]) /\ op'[c].at = "ended" /\ op'[c].out = out
         /\ op'[c].firm = op[c].firm
<1> DEFINE o == op[c]
           tag == IF out = Written THEN WrittenTag(o) ELSE NoTag
<1>1. o \in Operation /\ Fitting(o)
  BY DEF Types
<1>2. tag \in Tags \cup {NoTag}
  BY <1>1 DEF WrittenTag, S3WrittenTag, Operation, Reply, Fitting, Tags
<1>3. NoReply \in Reply /\ NoReply.more = FALSE /\ NoReply.status = 0
  BY DEF NoReply, Reply
<1> DEFINE n == [o EXCEPT !.at = "ended", !.out = out, !.reply = NoReply, !.tag = tag]
<1>4. op' = [op EXCEPT ![c] = n]
  BY <1>1 DEF End, Types, Operation
<1> HIDE DEF tag
<1>5. n \in Operation
  BY <1>1, <1>2, <1>3 DEF Operation
<1>6. Fitting(n)
  BY <1>1, <1>3 DEF Fitting, Operation, Success
<1>7. SameRequest(n, o) /\ n.at = "ended" /\ n.out = out /\ n.firm = o.firm
  BY <1>1 DEF Operation, SameRequest
<1> HIDE DEF n
<1> QED
  BY <1>4, <1>5, <1>6, <1>7 DEF Types

-----------------------------------------------------------------------------
(***************************************************************************)
(* Replies.                                                                *)
(***************************************************************************)

(* A page holds the first keys after the token, one of them at least.             *)
LEMMA PageFirst ==
  ASSUME NEW token
  PROVE  /\ Page(token) \subseteq After(token) /\ After(token) \subseteq Keys
         /\ \A j \in Page(token), k \in After(token) : k <= j => k \in Page(token)
         /\ After(token) # Page(token) => Page(token) # {}
<1> DEFINE Upto(k) == {j \in After(token) : j <= k}
<1>1. /\ Page(token) \subseteq After(token) /\ After(token) \subseteq Keys
      /\ \A k \in After(token) : k \in Nat
  BY DEF Page, After, Present, Keys
<1>2. IsFiniteSet(Keys)
  BY StorageAssumption, FS_Interval DEF Keys
<1>3. \A k \in After(token) : IsFiniteSet(Upto(k)) /\ Cardinality(Upto(k)) \in Nat
  <2>1. ASSUME NEW k \in After(token)
        PROVE  IsFiniteSet(Upto(k)) /\ Cardinality(Upto(k)) \in Nat
    <3>1. Upto(k) \in SUBSET Keys
      BY <1>1
    <3>2. IsFiniteSet(Upto(k))
      BY <1>2, <3>1, FS_Subset
    <3> QED
      BY <3>2, FS_CardinalityType
  <2> QED
    BY <2>1
<1>4. Page(token) = {k \in After(token) : Cardinality(Upto(k)) <= PageSize}
  BY DEF Page
<1>5. ASSUME NEW j \in Page(token), NEW k \in After(token), k <= j
      PROVE  k \in Page(token)
  <2>1. Upto(k) \in SUBSET Upto(j)
    <3>1. j \in After(token) /\ j \in Nat /\ k \in Nat
      BY <1>1
    <3>2. \A i \in Nat : i <= k => i <= j
      BY <3>1, <1>5
    <3> QED
      BY <1>1, <3>2
  <2>2. Cardinality(Upto(k)) <= Cardinality(Upto(j))
    BY <1>1, <1>3, <2>1, FS_Subset
  <2>3. Cardinality(Upto(j)) <= PageSize
    BY <1>4
  <2>4. j \in After(token)
    BY <1>1
  <2>5. Cardinality(Upto(j)) \in Nat /\ Cardinality(Upto(k)) \in Nat /\ PageSize \in Nat
    BY <1>3, <2>4, StorageAssumption
  <2>6. Cardinality(Upto(k)) <= PageSize
    BY <2>2, <2>3, <2>5
  <2> QED
    BY <1>4, <2>6
<1>6. ASSUME After(token) # Page(token)
      PROVE  Page(token) # {}
  <2>1. After(token) # {} /\ After(token) \in SUBSET Nat
    BY <1>1, <1>6
  <2>2. PICK k \in After(token) : \A j \in After(token) : k <= j
    BY <2>1, LeastKey
  <2>3. Upto(k) = {k}
    <3>1. k \in Nat /\ \A j \in After(token) : j \in Nat /\ k <= j
      BY <1>1, <2>2
    <3>2. \A j \in After(token) : j <= k => j = k
      BY <3>1
    <3> QED
      BY <3>1, <3>2
  <2>4. Cardinality(Upto(k)) = 1
    BY <2>3, FS_Singleton
  <2>5. k \in Page(token)
    BY <1>4, <2>4, StorageAssumption
  <2> QED
    BY <2>5
<1> QED
  BY <1>1, <1>5, <1>6

(* What a client may come to hear in answer to its request.                       *)
Answer(o, r) ==
  /\ r \in Reply
  /\ r.more => o.kind = "list" /\ Success(r.status) /\ r.keys # {}
  /\ o.kind = "put" /\ Success(r.status) => r.obj # Absent

(* The fields of a reply. *)
Says(r, status, obj, keys) == r.status = status /\ r.obj = obj /\ r.keys = keys

(* A reply that is not a page of a listing. *)
Tells(r, status, obj) == Says(r, status, obj, {}) /\ ~r.more

LEMMA CodeSays ==
  ASSUME NEW n \in Nat
  PROVE  /\ NoReply \in Reply /\ Tells(NoReply, 0, Absent)
         /\ Code(n) \in Reply /\ Tells(Code(n), n, Absent)
<1>1. NoReply \in Reply /\ Tells(NoReply, 0, Absent)
  BY DEF NoReply, Reply, Says, Tells
<1> QED
  BY <1>1 DEF Code, Reply, Says, Tells

LEMMA FailureSays ==
  ASSUME NEW o, NEW n \in Nat, ~Success(n)
  PROVE  Answer(o, Code(n))
  BY CodeSays DEF Answer, Says, Tells

LEMMA NoContentSays ==
  ASSUME NEW o, o.kind # "put"
  PROVE  Answer(o, Code(204))
  BY CodeSays DEF Answer, Says, Tells

LEMMA OkSays ==
  ASSUME NEW o, NEW obj \in Object
  PROVE  Tells(Ok(obj), 200, obj) /\ Answer(o, Ok(obj)) /\ obj # Absent
<1>1. NoReply \in Reply /\ Tells(NoReply, 0, Absent)
  BY CodeSays
<1>2. obj \in [data : Blobs, tag : Tags \cup {NoTag}]
  BY DEF Object
<1>3. obj # Absent
  BY <1>2, OutcomeAssumption
<1>4. Ok(obj) \in Reply
  BY <1>1, <1>2 DEF Ok, Reply
<1>5. Tells(Ok(obj), 200, obj)
  BY <1>1 DEF Ok, Reply, Says, Tells
<1> QED
  BY <1>3, <1>4, <1>5 DEF Answer, Says, Tells

LEMMA SuccessCodes ==
  /\ \A n \in {0, 403, 404, 412, 500} : n \in Nat /\ ~Success(n)
  /\ \A n \in {200, 204, 207} : n \in Nat /\ Success(n)
  BY DEF Success

LEMMA PageTyped ==
  ASSUME NEW r \in Reply, NEW page \in SUBSET Keys, NEW more \in BOOLEAN
  PROVE  [r EXCEPT !.keys = page, !.more = more] \in Reply
<1>1. CASE more
  BY <1>1 DEF Reply
<1>2. CASE ~more
  BY <1>2 DEF Reply
<1> QED
  BY <1>1, <1>2

LEMMA ListingAnswers ==
  ASSUME NEW o, o.kind = "list"
  PROVE  /\ Answer(o, Listing(o))
         /\ Is("webdav") => /\ Says(Listing(o), IF Present = {} THEN 404 ELSE 207, Absent, Present)
                            /\ ~Listing(o).more
         /\ ~Is("webdav") => /\ Says(Listing(o), 200, Absent, Page(o.token))
                             /\ Listing(o).more <=> After(o.token) # Page(o.token)
<1>1. Present \subseteq Keys
  BY DEF Present
<1>2. NoReply \in Reply /\ Tells(NoReply, 0, Absent)
  BY DEF NoReply, Reply, Says, Tells
<1>3. CASE Is("webdav")
  <2>1. CASE Present = {}
    <3>1. Listing(o) = Code(404)
      BY <1>3, <2>1 DEF Listing
    <3> QED
      BY <1>3, <2>1, <3>1, CodeSays, FailureSays, SuccessCodes DEF Says, Tells
  <2>2. CASE Present # {}
    <3>1. Listing(o) \in Reply /\ Says(Listing(o), 207, Absent, Present) /\ ~Listing(o).more
      <4>1. Code(207) \in Reply /\ Tells(Code(207), 207, Absent)
        BY CodeSays
      <4>2. Listing(o) = [Code(207) EXCEPT !.keys = Present]
        BY <1>3, <2>2 DEF Listing
      <4> QED
        BY <1>1, <4>1, <4>2 DEF Reply, Says, Tells
    <3> QED
      BY <1>3, <2>2, <3>1 DEF Answer, Says, Tells
  <2> QED
    BY <2>1, <2>2
<1>4. CASE ~Is("webdav")
  <2>1. /\ Page(o.token) \subseteq Keys
        /\ After(o.token) # Page(o.token) => Page(o.token) # {}
    BY PageFirst
  <2>2. Listing(o) \in Reply
    <3> DEFINE more == After(o.token) # Page(o.token)
               page == Page(o.token)
    <3>1. Listing(o) = [Code(200) EXCEPT !.keys = page, !.more = more]
      BY <1>4 DEF Listing
    <3>2. more \in BOOLEAN /\ page \in SUBSET Keys
      BY <2>1
    <3>3. Code(200) \in Reply
      BY <1>2 DEF Code, Reply
    <3> HIDE DEF more, page
    <3>4. [Code(200) EXCEPT !.keys = page, !.more = more] \in Reply
      BY <3>2, <3>3, PageTyped, Zenon
    <3> QED
      BY <3>1, <3>4, Zenon
  <2>3. /\ Says(Listing(o), 200, Absent, Page(o.token))
        /\ Listing(o).more <=> After(o.token) # Page(o.token)
    BY <1>2, <1>4, <2>1 DEF Listing, Code, Reply, Says, Tells
  <2> QED
    BY <1>4, <2>1, <2>2, <2>3 DEF Answer, Says, Success
<1> QED
  BY <1>3, <1>4

-----------------------------------------------------------------------------
(***************************************************************************)
(* Every step keeps types.                                                 *)
(***************************************************************************)
OpsTyped == op \in [Clients -> Operation] /\ \A c \in Clients : Fitting(op[c])

LEMMA OneOp ==
  ASSUME Types, NEW c \in Clients, NEW n, n \in Operation, Fitting(n), op' = [op EXCEPT ![c] = n]
  PROVE  OpsTyped' /\ op'[c] = n /\ \A d \in Clients \ {c} : op'[d] = op[d]
  BY DEF Types, OpsTyped

LEMMA CallTyped ==
  ASSUME Types, NEW c \in Clients, Call(c)
  PROVE  /\ Types'
         /\ \A d \in Clients \ {c} : op'[d] = op[d]
         /\ op[c].at = "idle" /\ op'[c].at \in {"mkcol", "send"} /\ op'[c].kind \in Kinds
         /\ op'[c].kind \in {"put", "delete"} /\ Is("local") /\ ~Shared
              => \A d \in Clients : op[d].kind \notin {"put", "delete"}
         /\ op'[c].kind = "list"
              => /\ op'[c].firm = Present /\ op'[c].listed = {} /\ op'[c].token = 0
                 /\ Is("local") => op'[c].left = {k \in Present : ValidKey(k)}
<1>1. /\ op[c].at = "idle" /\ calls < MaxCalls /\ calls' = calls + 1
      /\ UNCHANGED <<backend, objs, version, faults>>
  BY DEF Call
<1>2. PICK kind \in {"get", "etag", "put", "delete", "list"}, key \in Keys \cup {NoKey},
           exp \in KnownTags \cup {NoTag}, data \in Blobs \cup {NoBlob} :
        /\ (kind = "list") = (key = NoKey)
        /\ kind # "list" => ValidKey(key)
        /\ (kind = "put") = (data # NoBlob)
        /\ kind # "put" => exp = NoTag
        /\ Is("local") /\ ~ Shared /\ kind \in {"put", "delete"}
             => \A d \in Clients : op[d].kind \notin {"put", "delete"}
        /\ op' = [op EXCEPT ![c] =
                    [Idle EXCEPT !.kind = kind, !.key = key, !.exp = exp, !.data = data,
                                 !.at = IF Is("webdav") /\ kind = "put" THEN "mkcol" ELSE "send",
                                 !.firm = IF kind = "list" THEN Present ELSE {},
                                 !.left = IF kind = "list" /\ Is("local")
                                          THEN {k \in Present : ValidKey(k)} ELSE {}]]
  BY Zenon DEF Call
<1> DEFINE at == IF Is("webdav") /\ kind = "put" THEN "mkcol" ELSE "send"
           firm == IF kind = "list" THEN Present ELSE {}
           left == IF kind = "list" /\ Is("local") THEN {k \in Present : ValidKey(k)} ELSE {}
           n == [Idle EXCEPT !.kind = kind, !.key = key, !.exp = exp, !.data = data,
                             !.at = at, !.firm = firm, !.left = left]
<1>3. exp \in Tags \cup {NoTag}
  <2>1. 1..(version - 1) \subseteq Versions
    <3>1. version \in Nat /\ version <= MaxCalls + 2 /\ MaxCalls \in Nat
      BY PendingCount, StorageAssumption DEF Types
    <3> QED
      BY <3>1 DEF Versions
  <2> QED
    BY <2>1 DEF KnownTags, Tags
<1>4. at \in {"mkcol", "send"} /\ firm \in SUBSET Keys /\ left \in SUBSET Keys
      /\ (at = "mkcol" => kind = "put")
  BY DEF Present
<1>5. op' = [op EXCEPT ![c] = n]
  BY <1>2
<1> HIDE DEF at, firm, left
<1>6. n \in Operation /\ n.kind = kind /\ n.key = key /\ n.data = data /\ n.at = at
      /\ n.reply = NoReply /\ n.firm = firm /\ n.left = left /\ n.listed = {} /\ n.token = 0
  <2>1. Idle \in Operation
    BY IdleFits
  <2>2. n \in Operation
    <3> DEFINE r1 == [Idle EXCEPT !.kind = kind, !.key = key, !.exp = exp]
               r2 == [r1 EXCEPT !.data = data, !.at = at]
    <3>1. r1 \in Operation
      BY <1>2, <1>3, IdleFits DEF Operation, Kinds
    <3> HIDE DEF r1
    <3>2. r2 \in Operation
      BY <1>4, <3>1 DEF Operation
    <3> HIDE DEF r2
    <3>3. [r2 EXCEPT !.firm = firm, !.left = left] \in Operation
      BY <1>4, <3>2 DEF Operation
    <3> QED
      BY <3>3 DEF r1, r2
  <2>3. n.kind = kind /\ n.key = key /\ n.data = data /\ n.at = at /\ n.reply = Idle.reply
        /\ n.firm = firm /\ n.left = left /\ n.listed = Idle.listed /\ n.token = Idle.token
    BY <2>1 DEF Operation
  <2> QED
    BY <2>2, <2>3 DEF Idle
<1> HIDE DEF n
<1>7. Fitting(n)
  <2>1. NoReply.more = FALSE /\ NoReply.status = 0
    BY DEF NoReply
  <2> QED
    BY <1>2, <1>4, <1>6, <2>1, OutcomeAssumption DEF Fitting, Success
<1>8. OpsTyped' /\ op'[c] = n /\ \A d \in Clients \ {c} : op'[d] = op[d]
  BY <1>5, <1>6, <1>7, OneOp
<1>9. Pending' \subseteq Pending \cup {c}
  BY <1>8 DEF Pending
<1>10. version' + Cardinality(Pending)' <= calls' + 2
  BY <1>1, <1>9, PendingBegun
<1>11. Types'
  BY <1>1, <1>8, <1>10, StorageAssumption DEF Types, OpsTyped
<1>12. op'[c].kind = "list"
         => /\ op'[c].firm = Present /\ op'[c].listed = {} /\ op'[c].token = 0
            /\ Is("local") => op'[c].left = {k \in Present : ValidKey(k)}
  BY <1>6, <1>8 DEF firm, left
<1>13. op'[c].kind = kind /\ op'[c].at = at
  BY <1>6, <1>8
<1>14. kind \in {"put", "delete"} /\ Is("local") /\ ~Shared
         => \A d \in Clients : op[d].kind \notin {"put", "delete"}
  BY <1>2
<1>15. op'[c].kind \in Kinds /\ op'[c].at \in {"mkcol", "send"}
  BY <1>4, <1>13 DEF Kinds
<1>16. op'[c].kind \in {"put", "delete"} /\ Is("local") /\ ~Shared
         => \A d \in Clients : op[d].kind \notin {"put", "delete"}
  BY <1>13, <1>14, Zenon
<1>17. op[c].at = "idle" /\ \A d \in Clients \ {c} : op'[d] = op[d]
  BY <1>1, <1>8, Zenon
<1> HIDE DEF at, firm, left, n
<1> QED
  BY <1>11, <1>12, <1>15, <1>16, <1>17, Zenon

(* Steps that leave the objects alone and begin no put. *)
LEMMA QuietTyped ==
  ASSUME Types, OpsTyped', Pending' \subseteq Pending, UNCHANGED <<backend, objs, version, calls>>,
         faults' \in 0..MaxFaults
  PROVE  Types'
<1>1. version' + Cardinality(Pending)' <= calls' + 2
  BY PendingKept
<1> QED
  BY <1>1 DEF Types, OpsTyped

LEMMA FaultsBound ==
  ASSUME Types, faults < MaxFaults, faults' = faults + 1
  PROVE  faults' \in 0..MaxFaults
  BY StorageAssumption DEF Types

LEMMA Ending ==
  ASSUME Types, NEW c \in Clients, NEW out \in Outcome, End(c, out), op[c].kind # "none",
         out = Written => op[c].kind = "put" /\ (Is("webdav") => op[c].reply.obj # Absent
                                                  /\ op[c].reply.obj.tag # NoTag)
  PROVE  OpsTyped' /\ Pending' \subseteq Pending
<1>1. OpsTyped' /\ (\A d \in Clients \ {c} : op'[d] = op[d]) /\ op'[c].at = "ended"
  BY EndTyped DEF OpsTyped
<1> QED
  BY <1>1 DEF Pending

LEMMA MakeCollectionTyped ==
  ASSUME Types, NEW c \in Clients, MakeCollection(c)
  PROVE  Types'
<1>1. op[c].at = "mkcol" /\ UNCHANGED <<backend, objs, version, calls>>
  BY DEF MakeCollection
<1>2. op[c] \in Operation /\ Fitting(op[c]) /\ op[c].kind = "put"
  BY <1>1 DEF Types, Fitting
<1>3. CASE op' = [op EXCEPT ![c].at = "send"] /\ UNCHANGED faults
  <2> DEFINE n == [op[c] EXCEPT !.at = "send"]
  <2>1. op' = [op EXCEPT ![c] = n]
    BY <1>3
  <2>2. n \in Operation /\ Fitting(n)
    BY <1>2 DEF Operation, Fitting
  <2> HIDE DEF n
  <2>3. OpsTyped' /\ \A d \in Clients \ {c} : op'[d] = op[d]
    BY <2>1, <2>2, OneOp
  <2>4. Pending' \subseteq Pending
    BY <1>1, <1>2, <2>3 DEF Pending
  <2> QED
    BY <1>1, <1>3, <2>3, <2>4, QuietTyped DEF Types
<1>4. CASE faults < MaxFaults /\ faults' = faults + 1 /\ End(c, Error)
  <2>1. OpsTyped' /\ Pending' \subseteq Pending
    BY <1>2, <1>4, Ending, OutcomeAssumption DEF Outcome
  <2> QED
    BY <1>1, <1>4, <2>1, QuietTyped, FaultsBound
<1> QED
  BY <1>3, <1>4 DEF MakeCollection

LEMMA ReturnTyped ==
  ASSUME Types, NEW c \in Clients, Return(c)
  PROVE  Types'
<1>1. OpsTyped' /\ op'[c] = Idle /\ \A d \in Clients \ {c} : op'[d] = op[d]
  BY IdleFits, OneOp DEF Return
<1>2. Pending' \subseteq Pending
  BY <1>1 DEF Pending, Idle
<1> QED
  BY <1>1, <1>2, QuietTyped DEF Return, Types

LEMMA HeardTyped ==
  ASSUME Types, NEW c \in Clients, op[c].at = "send", NEW r, Answer(op[c], r)
  PROVE  /\ Heard(c, r) \in [Clients -> Operation]
         /\ \A d \in Clients : Fitting(Heard(c, r)[d])
         /\ \A d \in Clients \ {c} : Heard(c, r)[d] = op[d]
         /\ SameRequest(Heard(c, r)[c], op[c]) /\ Heard(c, r)[c].firm = op[c].firm
         /\ Heard(c, r)[c].at = "answered" /\ Heard(c, r)[c].reply = r
<1> DEFINE n == [op[c] EXCEPT !.at = "answered", !.reply = r]
<1>1. op[c] \in Operation /\ Fitting(op[c])
  BY DEF Types
<1>2. Heard(c, r) = [op EXCEPT ![c] = n]
  BY <1>1 DEF Heard, Types, Operation
<1>3. n \in Operation
  BY <1>1 DEF Answer, Operation
<1>4. /\ SameRequest(n, op[c]) /\ n.firm = op[c].firm /\ n.at = "answered" /\ n.reply = r
  BY <1>1 DEF Operation, SameRequest
<1> HIDE DEF n
<1>5. Fitting(n)
  BY <1>1, <1>4 DEF Fitting, SameRequest, Answer
<1> QED
  BY <1>2, <1>3, <1>4, <1>5 DEF Types

LEMMA ForgetTyped ==
  ASSUME NEW ops \in [Clients -> Operation], \A d \in Clients : Fitting(ops[d]), NEW k
  PROVE  /\ Forget(ops, k) \in [Clients -> Operation]
         /\ \A d \in Clients : Fitting(Forget(ops, k)[d])
         /\ \A d \in Clients : SameBut(Forget(ops, k)[d], ops[d])
                               /\ Forget(ops, k)[d].firm = ops[d].firm \ {k}
<1>1. ASSUME NEW d \in Clients
      PROVE  /\ Forget(ops, k)[d] \in Operation /\ Fitting(Forget(ops, k)[d])
             /\ SameBut(Forget(ops, k)[d], ops[d])
             /\ Forget(ops, k)[d].firm = ops[d].firm \ {k}
  <2> DEFINE n == [ops[d] EXCEPT !.firm = @ \ {k}]
  <2>1. Forget(ops, k)[d] = n
    BY DEF Forget
  <2>2. n \in Operation
    BY DEF Operation
  <2>3. SameBut(n, ops[d]) /\ n.firm = ops[d].firm \ {k}
    BY DEF Operation, SameBut, SameRequest
  <2> HIDE DEF n
  <2>4. Fitting(n)
    BY <2>3 DEF SameBut, SameRequest, Fitting
  <2> QED
    BY <2>1, <2>2, <2>3, <2>4
<1> QED
  BY <1>1 DEF Forget

(* The requests go on; c has its answer. *)
Served(c, heard) ==
  /\ \A d \in Clients \ {c} : SameBut(op'[d], op[d])
  /\ SameRequest(op'[c], op[c]) /\ op'[c].at = "answered" /\ op'[c].reply = heard
  /\ \A d \in Clients : op'[d].firm \subseteq op[d].firm

(* What a server does with a request, whatever the client hears of it.             *)
LEMMA ServeShape ==
  ASSUME Types, NEW c \in Clients, op[c].at = "send", NEW r, NEW heard, Serve(c, r, heard),
         Answer(op[c], heard)
  PROVE  OpsTyped' /\ Served(c, heard)
<1>1. /\ Heard(c, heard) \in [Clients -> Operation]
      /\ \A d \in Clients : Fitting(Heard(c, heard)[d])
      /\ \A d \in Clients \ {c} : Heard(c, heard)[d] = op[d]
      /\ SameRequest(Heard(c, heard)[c], op[c]) /\ Heard(c, heard)[c].firm = op[c].firm
      /\ Heard(c, heard)[c].at = "answered" /\ Heard(c, heard)[c].reply = heard
  BY HeardTyped
<1>2. CASE op' = Heard(c, heard)
  BY <1>1, <1>2 DEF OpsTyped, Served, SameBut, SameRequest
<1>3. CASE op' = Forget(Heard(c, heard), op[c].key)
  <2>1. /\ op' \in [Clients -> Operation]
        /\ \A d \in Clients : Fitting(op'[d])
        /\ \A d \in Clients : SameBut(op'[d], Heard(c, heard)[d])
                              /\ op'[d].firm = Heard(c, heard)[d].firm \ {op[c].key}
    BY <1>1, <1>3, ForgetTyped
  <2> QED
    BY <1>1, <2>1 DEF OpsTyped, Served, SameBut, SameRequest
<1> QED
  BY <1>2, <1>3 DEF Serve, ServeRead, ServePut, ServeDelete, ServeList

(* What the server did with c's request, and what it replies.                      *)
Settles(c, r) ==
  \/ /\ op[c].kind \in {"get", "etag"}
     /\ objs[op[c].key] = Absent => Tells(r, 404, Absent)
     /\ objs[op[c].key] # Absent => Tells(r, 200, objs[op[c].key])
     /\ UNCHANGED <<objs, version>>
  \/ /\ op[c].kind = "put"
     /\ Holds(Condition(op[c]), objs[op[c].key])
     /\ Tells(r, 200, Stored(c)[op[c].key])
     /\ objs' = Stored(c)
     /\ version' \in {version, version + 1}
  \/ /\ op[c].kind = "put"
     /\ ~ Holds(Condition(op[c]), objs[op[c].key])
     /\ Tells(r, 412, Absent)
     /\ UNCHANGED <<objs, version>>
  \/ /\ op[c].kind = "delete"
     /\ \E n \in {204, 404} : Tells(r, n, Absent)
     /\ objs' = [objs EXCEPT ![op[c].key] = Absent]
     /\ UNCHANGED version
  \/ /\ op[c].kind = "list"
     /\ r = Listing(op[c])
     /\ UNCHANGED <<objs, version>>

LEMMA SendTyped ==
  ASSUME Types, NEW c \in Clients, op[c].at = "send"
  PROVE  /\ op[c] \in Operation /\ Fitting(op[c]) /\ op[c].kind \in Kinds
         /\ op[c].kind # "list" => op[c].key \in Keys /\ objs[op[c].key] \in Object \cup {Absent}
         /\ op[c].kind = "put" => c \in Pending /\ Stored(c)[op[c].key] \in Object
                                 /\ Stored(c) \in [Keys -> Object \cup {Absent}]
<1>1. op[c] \in Operation /\ Fitting(op[c])
  BY DEF Types
<1>2. op[c].kind \in Kinds \cup {"none"}
  BY <1>1 DEF Operation
<1>3. op[c].kind # "none"
  BY <1>1 DEF Fitting
<1>4. op[c].kind # "list" => op[c].key \in Keys
  BY <1>1, <1>2, <1>3 DEF Fitting, Kinds
<1>5. op[c].kind # "list" => objs[op[c].key] \in Object \cup {Absent}
  BY <1>4 DEF Types
<1>6. op[c].kind = "put" => c \in Pending /\ Stored(c)[op[c].key] \in Object
                            /\ Stored(c) \in [Keys -> Object \cup {Absent}]
  BY StoredTyped DEF Pending
<1> QED
  BY <1>1, <1>2, <1>3, <1>4, <1>5, <1>6

(* What a server replies is an answer, and so is what the network makes of it.     *)
LEMMA ServeAnswers ==
  ASSUME Types, NEW c \in Clients, op[c].at = "send", NEW r, NEW heard, Serve(c, r, heard)
  PROVE  Answer(op[c], r) /\ Settles(c, r)
<1> DEFINE obj == objs[op[c].key]
<1>1. op[c].kind # "list" => obj \in Object \cup {Absent}
  BY SendTyped
<1>2. CASE ServeRead(c, r, heard)
  <2>1. op[c].kind \in {"get", "etag"} /\ UNCHANGED <<objs, version>>
        /\ r = IF obj = Absent THEN Code(404) ELSE Ok(obj)
    BY <1>2 DEF ServeRead
  <2>2. CASE obj = Absent
    BY <2>1, <2>2, CodeSays, FailureSays, SuccessCodes DEF Settles
  <2>3. CASE obj # Absent
    <3>1. obj \in Object
      BY <1>1, <2>1, <2>3
    <3>2. Tells(Ok(obj), 200, obj) /\ Answer(op[c], Ok(obj))
      BY <3>1, OkSays
    <3> QED
      BY <2>1, <2>3, <3>2 DEF Settles
  <2> QED
    BY <2>2, <2>3
<1>3. CASE ServePut(c, r, heard)
  <2>1. op[c].kind = "put"
    BY <1>3 DEF ServePut
  <2>2. CASE /\ Holds(Condition(op[c]), obj)
             /\ r = Ok(Stored(c)[op[c].key])
             /\ objs' = Stored(c)
             /\ version' = IF Is("webdav") THEN version + 1 ELSE version
    <3>1. Stored(c)[op[c].key] \in Object
      BY <2>1, SendTyped
    <3>2. Tells(r, 200, Stored(c)[op[c].key]) /\ Answer(op[c], r)
      BY <2>2, <3>1, OkSays
    <3>3. version' \in {version, version + 1}
      BY <2>2
    <3> QED
      BY <2>1, <2>2, <3>2, <3>3 DEF Settles
  <2>3. CASE ~ Holds(Condition(op[c]), obj) /\ r = Code(412) /\ UNCHANGED <<objs, version>>
    BY <2>1, <2>3, CodeSays, FailureSays, SuccessCodes DEF Settles
  <2> QED
    BY <1>3, <2>2, <2>3 DEF ServePut
<1>4. CASE ServeDelete(c, r, heard)
  <2>1. /\ op[c].kind = "delete" /\ UNCHANGED version
        /\ objs' = [objs EXCEPT ![op[c].key] = Absent]
        /\ r \in {Code(204), Code(404)}
    BY <1>4 DEF ServeDelete
  <2>2. Answer(op[c], r) /\ \E n \in {204, 404} : Tells(r, n, Absent)
    <3>1. Answer(op[c], Code(404)) /\ Tells(Code(404), 404, Absent)
      BY CodeSays, FailureSays, SuccessCodes
    <3>2. Answer(op[c], Code(204)) /\ Tells(Code(204), 204, Absent)
      BY <2>1, CodeSays, NoContentSays
    <3> QED
      BY <2>1, <3>1, <3>2
  <2> QED
    BY <2>1, <2>2 DEF Settles
<1>5. CASE ServeList(c, r, heard)
  <2>1. op[c].kind = "list" /\ r = Listing(op[c]) /\ UNCHANGED <<objs, version>>
    BY <1>5 DEF ServeList
  <2> QED
    BY <2>1, ListingAnswers DEF Settles
<1> QED
  BY <1>2, <1>3, <1>4, <1>5 DEF Serve

(* A reply whose tag was stripped is the same but for the tag.                     *)
LEMMA UntaggedShape ==
  ASSUME NEW o, NEW r, Answer(o, r), NEW n \in Untagged(r)
  PROVE  /\ Answer(o, n)
         /\ n.status = r.status /\ n.keys = r.keys
         /\ n.more <=> r.more
         /\ r.obj = Absent => n.obj = Absent
         /\ r.obj # Absent => n.obj # Absent /\ n.obj.tag = NoTag
<1>1. CASE r.obj = Absent
  <2>1. r \in Reply
    BY DEF Answer
  <2>2. PICK bare \in SUBSET r.keys : n = [r EXCEPT !.bare = bare]
    BY <1>1 DEF Untagged
  <2>3. n \in Reply /\ n.obj = r.obj /\ n.status = r.status /\ n.keys = r.keys /\ (n.more <=> r.more)
    BY <2>1, <2>2 DEF Reply
  <2> QED
    BY <1>1, <2>3 DEF Answer
<1>2. CASE r.obj # Absent
  <2> DEFINE obj == [r.obj EXCEPT !.tag = NoTag]
  <2>1. r \in Reply /\ r.obj \in [data : Blobs, tag : Tags \cup {NoTag}]
    BY <1>2 DEF Answer, Reply
  <2>2. n = [r EXCEPT !.obj = obj]
    BY <1>2, <2>1 DEF Untagged, Reply
  <2>3. obj \in [data : Blobs, tag : Tags \cup {NoTag}] /\ obj.tag = NoTag
    BY <2>1
  <2> HIDE DEF obj
  <2>4. obj # Absent
    BY <2>3, OutcomeAssumption
  <2>5. n \in Reply /\ n.obj = obj /\ n.status = r.status /\ n.keys = r.keys /\ (n.more <=> r.more)
    BY <2>1, <2>2, <2>3 DEF Reply
  <2> QED
    BY <1>2, <2>3, <2>4, <2>5 DEF Answer
<1> QED
  BY <1>1, <1>2

(* Serving keeps the types.                                                        *)
LEMMA ServeTyped ==
  ASSUME Types, NEW c \in Clients, op[c].at = "send", NEW r, NEW heard, Serve(c, r, heard),
         Answer(op[c], heard), UNCHANGED <<backend, calls>>, faults' \in 0..MaxFaults
  PROVE  Types'
<1>1. OpsTyped' /\ Served(c, heard)
  BY ServeShape
<1>2. Settles(c, r)
  BY ServeAnswers
<1>3. Pending' \subseteq Pending \ {c}
  BY <1>1 DEF Pending, Served, SameBut, SameRequest
<1>4. CASE op[c].kind = "put"
  <2>1. c \in Pending
    BY <1>4, SendTyped
  <2>2. objs' \in {objs, Stored(c)} /\ version' \in {version, version + 1}
    BY <1>2, <1>4 DEF Settles
  <2>3. objs' \in [Keys -> Object \cup {Absent}]
    BY <1>4, <2>2, SendTyped DEF Types
  <2>4. version' + Cardinality(Pending)' <= calls' + 2
    BY <1>3, <2>1, <2>2, PendingServed
  <2>5. version' \in Nat \ {0}
    BY <2>2 DEF Types
  <2> QED
    BY <1>1, <2>3, <2>4, <2>5 DEF Types, OpsTyped
<1>5. CASE op[c].kind # "put"
  <2>1. version' = version
    BY <1>2, <1>5 DEF Settles
  <2>2. objs' \in {objs, [objs EXCEPT ![op[c].key] = Absent]}
    BY <1>2, <1>5 DEF Settles
  <2>3. objs' \in [Keys -> Object \cup {Absent}]
    BY <2>2 DEF Types
  <2>4. version' + Cardinality(Pending)' <= calls' + 2
    BY <1>3, <2>1, PendingKept
  <2> QED
    BY <1>1, <2>1, <2>3, <2>4 DEF Types, OpsTyped
<1> QED
  BY <1>4, <1>5

LEMMA ExchangeTyped ==
  ASSUME Types, NEW c \in Clients, Exchange(c)
  PROVE  Types'
<1>1. PICK r \in Replies(c) : Serve(c, r, r)
  BY DEF Exchange
<1>2. op[c].at = "send" /\ UNCHANGED <<backend, calls, faults>>
  BY DEF Exchange
<1>3. Answer(op[c], r)
  BY <1>1, <1>2, ServeAnswers
<1> QED
  BY <1>1, <1>2, <1>3, ServeTyped DEF Types

(* What the client hears when something goes wrong: a failure, or the reply without *)
(* its tag.                                                                         *)
LEMMA MishapAnswers ==
  ASSUME Types, NEW c \in Clients, op[c].at = "send", NEW r,
         NEW heard \in {Code(0), Code(500)} \cup Untagged(r), Serve(c, r, heard)
  PROVE  Answer(op[c], heard)
<1>1. Answer(op[c], Code(0)) /\ Answer(op[c], Code(500))
  BY FailureSays, SuccessCodes
<1>2. \A n \in Untagged(r) : Answer(op[c], n)
  BY ServeAnswers, UntaggedShape
<1> QED
  BY <1>1, <1>2

MishapCases(c) ==
  \/ \E status \in {0, 500, 403} : op' = Heard(c, Code(status)) /\ UNCHANGED <<objs, version>>
  \/ \E r : \E heard \in {Code(0), Code(500)} \cup Untagged(r) : Serve(c, r, heard)

LEMMA MishapSplit ==
  ASSUME NEW c \in Clients, Mishap(c)
  PROVE  MishapCases(c)
<1>1. CASE /\ \E status \in {0, 500} \cup {s \in {403} : ~ Accepted(op[c].key, TRUE)} :
                 op' = [op EXCEPT ![c].at = "answered", ![c].reply = Code(status)]
           /\ UNCHANGED <<objs, version>>
  <2> DEFINE S == {0, 500} \cup {s \in {403} : ~ Accepted(op[c].key, TRUE)}
  <2>1. S \subseteq {0, 500, 403}
    OBVIOUS
  <2>2. \E status \in S : op' = Heard(c, Code(status))
    BY <1>1, Zenon DEF Heard
  <2> HIDE DEF S
  <2>3. PICK status \in S : op' = Heard(c, Code(status))
    BY <2>2
  <2>4. status \in {0, 500, 403}
    BY <2>1
  <2>5. UNCHANGED <<objs, version>>
    BY <1>1
  <2> QED
    BY <2>3, <2>4, <2>5 DEF MishapCases
<1>2. CASE \E r \in Replies(c) : \E heard \in {Code(0), Code(500)} \cup Untagged(r) :
             Serve(c, r, heard)
  BY <1>2, Zenon DEF MishapCases
<1> QED
  BY <1>1, <1>2, Zenon DEF Mishap

LEMMA MishapTyped ==
  ASSUME Types, NEW c \in Clients, Mishap(c)
  PROVE  Types'
<1>1. /\ op[c].at = "send" /\ UNCHANGED <<backend, calls>> /\ faults < MaxFaults
      /\ faults' = faults + 1
  BY DEF Mishap
<1>2. faults' \in 0..MaxFaults
  BY <1>1, FaultsBound
<1>3. ASSUME NEW status \in {0, 500, 403}, UNCHANGED <<objs, version>>, op' = Heard(c, Code(status))
      PROVE  Types'
  <2>1. Answer(op[c], Code(status))
    BY FailureSays, SuccessCodes
  <2> DEFINE r == Code(status)
  <2> HIDE DEF r
  <2>2. /\ Heard(c, r) \in [Clients -> Operation]
        /\ \A d \in Clients : Fitting(Heard(c, r)[d])
        /\ \A d \in Clients \ {c} : Heard(c, r)[d] = op[d]
        /\ Heard(c, r)[c].at = "answered"
    BY <1>1, <2>1, HeardTyped DEF r
  <2>3. op' = Heard(c, r)
    BY <1>3 DEF r
  <2>4. OpsTyped' /\ Pending' \subseteq Pending
    BY <2>2, <2>3 DEF OpsTyped, Pending
  <2> QED
    BY <1>1, <1>2, <1>3, <2>4, QuietTyped
<1>4. ASSUME NEW r, NEW heard \in {Code(0), Code(500)} \cup Untagged(r), Serve(c, r, heard)
      PROVE  Types'
  BY <1>1, <1>2, <1>4, MishapAnswers, ServeTyped
<1>5. MishapCases(c)
  BY MishapSplit
<1> QED
  BY <1>3, <1>4, <1>5 DEF MishapCases

(* What a client makes of an answer is an outcome.                                 *)
LEMMA ReadingSays ==
  ASSUME NEW o \in Operation, Fitting(o)
  PROVE  /\ Reading(o.kind, o.reply) \in Outcome
         /\ Reading(o.kind, o.reply) = Written
              => /\ o.kind = "put"
                 /\ Is("webdav") => o.reply.obj # Absent /\ o.reply.obj.tag # NoTag
<1> DEFINE r == o.reply
<1>1. /\ r \in Reply
      /\ r.obj # Absent /\ r.obj.tag # NoTag => r.obj \in Object
      /\ r.obj \in Object => r.obj \notin {Written}
  BY OutcomeAssumption DEF Operation, Reply, Object
<1>2. Absent # Written /\ Error # Written /\ Done # Written
  BY OutcomeAssumption
<1>3. CASE o.kind \in {"get", "etag"}
  BY <1>1, <1>2, <1>3 DEF Reading, DavGet, S3Get, DavEtag, S3Etag, Outcome
<1>4. CASE o.kind = "put"
  BY <1>4, OutcomeAssumption DEF Reading, DavPut, S3Put, Outcome, Fitting
<1>5. CASE o.kind \notin {"get", "etag", "put"}
  BY <1>2, <1>5 DEF Reading, DavDelete, S3Delete, ReadPage, Outcome
<1> QED
  BY <1>3, <1>4, <1>5

(* A page taken, and the next one asked for, or the listing over.                  *)
TakesPage(c) ==
  LET o    == op[c]
      mine == IF Is("webdav") THEN DavNames(o.reply) ELSE S3Names(o.reply)
  IN
  op' = [op EXCEPT ![c].listed = o.listed \cup mine,
                   ![c].bare = o.bare \cup o.reply.bare,
                   ![c].reply = NoReply,
                   ![c].at = IF o.reply.more THEN "send" ELSE "ended",
                   ![c].out = IF o.reply.more THEN o.out ELSE Done,
                   ![c].token = IF o.reply.more THEN NextToken(o.reply) ELSE o.token]

LEMMA PageTaken ==
  ASSUME Types, NEW c \in Clients, op[c].at = "answered", op[c].kind = "list", TakesPage(c)
  PROVE  /\ OpsTyped' /\ \A d \in Clients \ {c} : op'[d] = op[d]
         /\ op'[c].kind = "list" /\ op'[c].key = op[c].key /\ op'[c].exp = op[c].exp
         /\ op'[c].data = op[c].data /\ op'[c].left = op[c].left /\ op'[c].firm = op[c].firm
         /\ op'[c].listed = op[c].listed \cup IF Is("webdav") THEN DavNames(op[c].reply)
                                                            ELSE S3Names(op[c].reply)
         /\ op'[c].bare = op[c].bare \cup op[c].reply.bare
         /\ op[c].reply.more => op'[c].at = "send" /\ op'[c].token = Max(op[c].reply.keys)
                                /\ op'[c].out = op[c].out
         /\ ~op[c].reply.more => op'[c].at = "ended" /\ op'[c].out = Done
                                 /\ op'[c].token = op[c].token
<1> DEFINE o      == op[c]
           listed == o.listed \cup IF Is("webdav") THEN DavNames(o.reply) ELSE S3Names(o.reply)
           bare   == o.bare \cup o.reply.bare
           at     == IF o.reply.more THEN "send" ELSE "ended"
           out    == IF o.reply.more THEN o.out ELSE Done
           token  == IF o.reply.more THEN NextToken(o.reply) ELSE o.token
           n1     == [o EXCEPT !.listed = listed, !.bare = bare, !.reply = NoReply]
           n2     == [n1 EXCEPT !.at = at, !.out = out, !.token = token]
<1>1. o \in Operation /\ Fitting(o) /\ o.reply \in Reply
  BY DEF Types, Operation
<1>2. listed \in SUBSET Keys /\ bare \in SUBSET Keys
  BY <1>1 DEF Operation, Reply, DavNames, S3Names
<1>3. /\ at \in {"send", "ended"} /\ out \in Outcome /\ token \in Keys \cup {0}
      /\ o.reply.more => at = "send" /\ out = o.out /\ token = Max(o.reply.keys)
      /\ ~o.reply.more => at = "ended" /\ out = Done /\ token = o.token
  <2>1. CASE o.reply.more
    <3>1. o.reply.keys # {} /\ o.reply.keys \in SUBSET Keys
      BY <1>1, <2>1 DEF Fitting, Reply
    <3>2. Max(o.reply.keys) \in Keys
      BY <3>1, GreatestKey
    <3> QED
      BY <1>1, <2>1, <3>2 DEF NextToken, Operation
  <2>2. CASE ~o.reply.more
    BY <1>1, <2>2 DEF Operation, Outcome
  <2> QED
    BY <2>1, <2>2
<1>4. NoReply \in Reply /\ Tells(NoReply, 0, Absent)
  BY CodeSays
<1>5. op' = [op EXCEPT ![c] = n2]
  BY <1>1 DEF TakesPage, Types, Operation
<1> HIDE DEF listed, bare, at, out, token
<1>6. n1 \in Operation /\ n1.bare = bare
      /\ n1.kind = o.kind /\ n1.key = o.key /\ n1.exp = o.exp /\ n1.data = o.data
      /\ n1.left = o.left /\ n1.firm = o.firm /\ n1.listed = listed /\ n1.reply = NoReply
  BY <1>1, <1>2, <1>4 DEF Operation, SameBut, SameRequest
<1> HIDE DEF n1
<1>7. n2 \in Operation /\ n2.bare = bare
      /\ n2.kind = o.kind /\ n2.key = o.key /\ n2.exp = o.exp /\ n2.data = o.data
      /\ n2.left = o.left /\ n2.firm = o.firm /\ n2.listed = listed /\ n2.reply = NoReply
      /\ n2.at = at /\ n2.out = out /\ n2.token = token
  BY <1>3, <1>6 DEF Operation
<1> HIDE DEF n2
<1>8. Fitting(n2)
  BY <1>3, <1>4, <1>7, SuccessCodes DEF Fitting, Says, Tells
<1>9. OpsTyped' /\ op'[c] = n2 /\ \A d \in Clients \ {c} : op'[d] = op[d]
  BY <1>5, <1>7, <1>8, OneOp
<1> QED
  BY <1>3, <1>7, <1>9 DEF listed, bare

LEMMA ReceiveTyped ==
  ASSUME Types, NEW c \in Clients, Receive(c)
  PROVE  Types'
<1>1. op[c].at = "answered" /\ UNCHANGED <<backend, objs, version, calls, faults>>
  BY DEF Receive
<1>2. op[c] \in Operation /\ Fitting(op[c]) /\ op[c].kind # "none"
  BY <1>1 DEF Types, Fitting
<1>3. CASE End(c, Reading(op[c].kind, op[c].reply))
  <2> DEFINE out == Reading(op[c].kind, op[c].reply)
  <2>1. /\ out \in Outcome
        /\ out = Written => op[c].kind = "put" /\ (Is("webdav") => op[c].reply.obj # Absent
                                                     /\ op[c].reply.obj.tag # NoTag)
    BY <1>2, ReadingSays
  <2> HIDE DEF out
  <2>2. End(c, out)
    BY <1>3 DEF out
  <2>3. OpsTyped' /\ Pending' \subseteq Pending
    BY <1>2, <2>1, <2>2, Ending
  <2> QED
    BY <1>1, <2>3, QuietTyped DEF Types
<1>4. CASE op[c].kind = "list" /\ TakesPage(c)
  <2>1. OpsTyped' /\ Pending' \subseteq Pending
    BY <1>1, <1>4, PageTaken DEF Pending
  <2> QED
    BY <1>1, <2>1, QuietTyped DEF Types
<1> QED
  BY <1>3, <1>4 DEF Receive, TakesPage

-----------------------------------------------------------------------------
(* The directory. *)

LEMMA LocalFailsTyped ==
  ASSUME Types, NEW c \in Clients, LocalFails(c)
  PROVE  Types'
<1>1. op[c].at \in {"send", "rename"} /\ UNCHANGED <<backend, objs, version, calls>>
      /\ End(c, Error) /\ faults < MaxFaults /\ faults' = faults + 1
  BY DEF LocalFails
<1>2. op[c].kind # "none"
  BY <1>1 DEF Types, Fitting
<1>3. OpsTyped' /\ Pending' \subseteq Pending
  BY <1>1, <1>2, Ending, OutcomeAssumption DEF Outcome
<1> QED
  BY <1>1, <1>3, QuietTyped, FaultsBound

(* A directory's operation that ends with nothing changed. *)
LEMMA LocalEnds ==
  ASSUME Types, NEW c \in Clients, op[c].at = "send", NEW out \in Outcome, out # Written,
         End(c, out), UNCHANGED <<backend, objs, version, calls, faults>>
  PROVE  Types'
<1>1. op[c].kind # "none"
  BY DEF Types, Fitting
<1>2. OpsTyped' /\ Pending' \subseteq Pending
  BY <1>1, Ending
<1> QED
  BY <1>2, QuietTyped DEF Types

LEMMA LocalReadTyped ==
  ASSUME Types, NEW c \in Clients, LocalRead(c)
  PROVE  Types'
<1>1. /\ op[c].at = "send" /\ op[c].kind \in {"get", "etag"} /\ End(c, objs[op[c].key])
      /\ UNCHANGED <<backend, objs, version, calls, faults>>
  BY DEF LocalRead
<1>2. objs[op[c].key] \in Object \cup {Absent}
  BY <1>1, SendTyped
<1>3. objs[op[c].key] \in Outcome /\ objs[op[c].key] # Written
  BY <1>2, OutcomeAssumption DEF Outcome, Object
<1> QED
  BY <1>1, <1>3, LocalEnds

LEMMA LocalCompareTyped ==
  ASSUME Types, NEW c \in Clients, LocalCompare(c)
  PROVE  Types'
<1>1. /\ op[c].at = "send" /\ op[c].kind = "put"
      /\ UNCHANGED <<backend, objs, version, calls, faults>>
  BY DEF LocalCompare
<1>2. op[c] \in Operation /\ Fitting(op[c])
  BY DEF Types
<1>3. CASE op' = [op EXCEPT ![c].at = "rename"]
  <2> DEFINE n == [op[c] EXCEPT !.at = "rename"]
  <2>1. op' = [op EXCEPT ![c] = n]
    BY <1>3
  <2>2. n \in Operation /\ Fitting(n) /\ n.at = "rename"
    BY <1>1, <1>2 DEF Operation, Fitting
  <2> HIDE DEF n
  <2>3. OpsTyped' /\ op'[c] = n /\ \A d \in Clients \ {c} : op'[d] = op[d]
    BY <2>1, <2>2, OneOp
  <2>4. Pending' \subseteq Pending
    BY <2>2, <2>3 DEF Pending
  <2> QED
    BY <1>1, <2>3, <2>4, QuietTyped DEF Types
<1>4. CASE End(c, Conflict)
  BY <1>1, <1>4, LocalEnds, OutcomeAssumption DEF Outcome
<1> QED
  BY <1>3, <1>4 DEF LocalCompare

(* A rename is the step of a directory alone. *)
OnlyLocal == \A c \in Clients : op[c].at = "rename" => Is("local")

LEMMA LocalRenameTyped ==
  ASSUME Types, OnlyLocal, NEW c \in Clients, LocalRename(c)
  PROVE  Types'
<1>1. /\ op[c].at = "rename" /\ objs' = Stored(c) /\ End(c, Written)
      /\ UNCHANGED <<backend, version, calls, faults>>
  BY DEF LocalRename
<1>2. op[c].kind = "put" /\ Is("local") /\ ~Is("webdav")
  BY <1>1 DEF Types, Fitting, OnlyLocal, Is
<1>3. objs' \in [Keys -> Object \cup {Absent}]
  BY <1>1, <1>2, StoredTyped
<1>4. OpsTyped' /\ Pending' \subseteq Pending
  BY <1>1, <1>2, Ending DEF Outcome
<1>5. version' + Cardinality(Pending)' <= calls' + 2
  BY <1>1, <1>4, PendingKept
<1> QED
  BY <1>1, <1>3, <1>4, <1>5 DEF Types, OpsTyped

LEMMA LocalRemoveTyped ==
  ASSUME Types, NEW c \in Clients, LocalRemove(c)
  PROVE  /\ Types'
         /\ \A d \in Clients \ {c} : SameBut(op'[d], op[d])
         /\ SameRequest(op'[c], op[c]) /\ op'[c].at = "ended" /\ op'[c].out = Done
         /\ \A d \in Clients : op'[d].firm = op[d].firm \ {op[c].key}
<1>1. /\ op[c].at = "send" /\ objs' = [objs EXCEPT ![op[c].key] = Absent]
      /\ op' = Forget([op EXCEPT ![c].at = "ended", ![c].out = Done], op[c].key)
      /\ UNCHANGED <<backend, version, calls, faults>>
  BY DEF LocalRemove
<1> DEFINE n   == [op[c] EXCEPT !.at = "ended", !.out = Done]
           ops == [op EXCEPT ![c] = n]
<1>2. op[c] \in Operation /\ Fitting(op[c]) /\ op[c].kind # "none"
  BY <1>1 DEF Types, Fitting
<1>3. op' = Forget(ops, op[c].key)
  BY <1>1, <1>2 DEF Types, Operation
<1>4. n \in Operation /\ SameRequest(n, op[c]) /\ n.at = "ended" /\ n.out = Done
      /\ n.reply = op[c].reply /\ n.firm = op[c].firm
  BY <1>2 DEF Operation, Outcome, SameRequest
<1> HIDE DEF n
<1>5. Fitting(n)
  BY <1>2, <1>4 DEF Fitting, SameRequest
<1>6. /\ ops \in [Clients -> Operation] /\ ops[c] = n
      /\ \A d \in Clients \ {c} : ops[d] = op[d]
      /\ \A d \in Clients : Fitting(ops[d])
  BY <1>4, <1>5 DEF Types
<1> HIDE DEF ops
<1>7. /\ op' \in [Clients -> Operation]
      /\ \A d \in Clients : Fitting(op'[d])
      /\ \A d \in Clients : SameBut(op'[d], ops[d]) /\ op'[d].firm = ops[d].firm \ {op[c].key}
  BY <1>3, <1>6, ForgetTyped
<1>8. /\ \A d \in Clients \ {c} : SameBut(op'[d], op[d])
      /\ SameRequest(op'[c], op[c]) /\ op'[c].at = "ended" /\ op'[c].out = Done
      /\ \A d \in Clients : op'[d].firm = op[d].firm \ {op[c].key}
  BY <1>4, <1>6, <1>7 DEF SameBut, SameRequest
<1>9. Pending' \subseteq Pending
  BY <1>8 DEF Pending, SameBut, SameRequest
<1>10. version' + Cardinality(Pending)' <= calls' + 2
  BY <1>1, <1>9, PendingKept
<1>11. objs' \in [Keys -> Object \cup {Absent}]
  BY <1>1 DEF Types
<1> QED
  BY <1>1, <1>7, <1>8, <1>10, <1>11 DEF Types

(* One entry of a directory read. *)
LEMMA EntryRead ==
  ASSUME Types, NEW c \in Clients, NEW k \in op[c].left,
         op' = [op EXCEPT ![c].left = @ \ {k}, ![c].listed = @ \cup {k}]
  PROVE  /\ OpsTyped' /\ \A d \in Clients \ {c} : op'[d] = op[d]
         /\ op'[c].kind = op[c].kind /\ op'[c].key = op[c].key /\ op'[c].exp = op[c].exp
         /\ op'[c].data = op[c].data /\ op'[c].at = op[c].at /\ op'[c].out = op[c].out
         /\ op'[c].reply = op[c].reply /\ op'[c].firm = op[c].firm
         /\ op'[c].listed = op[c].listed \cup {k} /\ op'[c].left = op[c].left \ {k}
         /\ op'[c].bare = op[c].bare
<1> DEFINE o == op[c]
           n == [o EXCEPT !.left = o.left \ {k}, !.listed = o.listed \cup {k}]
<1>1. o \in Operation /\ Fitting(o)
  BY DEF Types
<1>2. op' = [op EXCEPT ![c] = n]
  BY <1>1 DEF Types, Operation
<1>3. k \in Keys
  BY <1>1 DEF Operation
<1>4. /\ n \in Operation
      /\ n.kind = o.kind /\ n.key = o.key /\ n.exp = o.exp /\ n.data = o.data
      /\ n.at = o.at /\ n.out = o.out /\ n.reply = o.reply /\ n.firm = o.firm
      /\ n.listed = o.listed \cup {k} /\ n.left = o.left \ {k} /\ n.bare = o.bare
  BY <1>1, <1>3 DEF Operation
<1> HIDE DEF n
<1>5. Fitting(n)
  BY <1>1, <1>4 DEF Fitting
<1>6. OpsTyped' /\ op'[c] = n /\ \A d \in Clients \ {c} : op'[d] = op[d]
  BY <1>2, <1>4, <1>5, OneOp
<1> QED
  BY <1>4, <1>6

LEMMA LocalListTyped ==
  ASSUME Types, NEW c \in Clients, LocalList(c)
  PROVE  Types'
<1>1. op[c].at = "send" /\ UNCHANGED <<backend, objs, version, calls, faults>>
  BY DEF LocalList
<1>2. CASE End(c, Done)
  BY <1>1, <1>2, LocalEnds, OutcomeAssumption DEF Outcome
<1>3. CASE End(c, Error)
  BY <1>1, <1>3, LocalEnds, OutcomeAssumption DEF Outcome
<1>4. ASSUME NEW k \in op[c].left, op' = [op EXCEPT ![c].left = @ \ {k}, ![c].listed = @ \cup {k}]
      PROVE  Types'
  <2>1. OpsTyped' /\ Pending' \subseteq Pending
    BY <1>4, EntryRead DEF Pending
  <2> QED
    BY <1>1, <2>1, QuietTyped DEF Types
<1> QED
  BY <1>2, <1>3, <1>4 DEF LocalList

-----------------------------------------------------------------------------
(***************************************************************************)
(* The calls as the promise sees them.                                     *)
(***************************************************************************)
CallOf(o) == [kind |-> o.kind, key |-> o.key, exp |-> o.exp, data |-> o.data,
              st |-> Stage(o), out |-> IF Stage(o) = "done" THEN Settled(o) ELSE Error]

Calls == [c \in Clients |-> CallOf(op[c])]

CallRecord == [kind : Kinds \cup {"none"}, key : Keys \cup {NoKey}, exp : Tags \cup {NoTag},
               data : Blobs \cup {NoBlob}, st : {"idle", "open", "done", "failed"}, out : Outcome]

LEMMA CallOfTyped ==
  ASSUME NEW o \in Operation, Fitting(o)
  PROVE  CallOf(o) \in CallRecord
<1>1. Stage(o) \in {"idle", "open", "done", "failed"}
  BY DEF Stage
<1>2. Settled(o) \in Outcome /\ Error \in Outcome
  <2>1. Reading(o.kind, o.reply) \in Outcome
    BY ReadingSays
  <2> QED
    BY <2>1 DEF Settled, Operation, Outcome
<1> HIDE DEF Outcome
<1> QED
  BY <1>1, <1>2 DEF CallOf, CallRecord, Operation

(* Two calls are the same when they agree field by field.                          *)
LEMMA SameCall ==
  ASSUME NEW a \in CallRecord, NEW b \in CallRecord, a.kind = b.kind, a.key = b.key,
         a.exp = b.exp, a.data = b.data, a.st = b.st, a.out = b.out
  PROVE  a = b
  BY DEF CallRecord

LEMMA SameButSameCall ==
  ASSUME NEW n, NEW o, SameBut(n, o)
  PROVE  CallOf(n) = CallOf(o)
<1>1. /\ n.kind = o.kind /\ n.key = o.key /\ n.exp = o.exp /\ n.data = o.data
      /\ n.at = o.at /\ n.reply = o.reply /\ n.out = o.out
  BY DEF SameBut, SameRequest
<1>2. Settled(n) = Settled(o)
  BY <1>1 DEF Settled
<1>3. Stage(n) = Stage(o)
  BY <1>1, <1>2 DEF Stage
<1> QED
  BY <1>1, <1>2, <1>3 DEF CallOf

(* The backend never changes, and with it the reading of replies.                  *)
LEMMA ReadingKept ==
  ASSUME backend' = backend, NEW c \in Clients
  PROVE  CallOf(op[c])' = CallOf(op'[c])
<1>1. Settled(op[c])' = Settled(op'[c])
  BY DEF Settled, Reading, DavGet, DavEtag, DavPut, DavDelete, S3Get, S3Etag, S3Put, S3Delete,
         ReadPage, Is, Success
<1>2. Stage(op[c])' = Stage(op'[c])
  BY <1>1 DEF Stage
<1> QED
  BY <1>1, <1>2 DEF CallOf

-----------------------------------------------------------------------------
(* The steps of the promise, in the terms of this module.                         *)

(* What takes effect, and what it says. *)
Effect(c, out) ==
  LET o == op[c] IN
  \/ o.kind = "get" /\ out = objs[o.key] /\ UNCHANGED objs
  \/ o.kind = "etag" /\ out \in {objs[o.key], Absent} /\ UNCHANGED objs
  \/ /\ o.kind = "put" /\ Holds(Condition(o), objs[o.key]) /\ out = Written
     /\ \E t \in Tags : objs' = [objs EXCEPT ![o.key] = [data |-> o.data, tag |-> t]]
  \/ o.kind = "put" /\ ~ Holds(Condition(o), objs[o.key]) /\ out = Conflict /\ UNCHANGED objs
  \/ o.kind = "delete" /\ out = Done /\ objs' = [objs EXCEPT ![o.key] = Absent]
  \/ o.kind = "list" /\ out = Done /\ UNCHANGED objs

LEMMA EffectHappens ==
  ASSUME NEW c \in Clients, NEW out, Effect(c, out)
  PROVE  Promise!Happens(c, out)
  BY DEF Effect, Promise!Happens, Promise!Meets, Holds, Condition

(* Only c moves, and what it asks for stays what it was. *)
SameAsk(n, o) == n.kind = o.kind /\ n.key = o.key /\ n.exp = o.exp /\ n.data = o.data

Moves(c) ==
  /\ OpsTyped' /\ backend' = backend
  /\ \A d \in Clients \ {c} : SameBut(op'[d], op[d])
  /\ SameAsk(op'[c], op[c])

LEMMA Moved ==
  ASSUME Types, NEW c \in Clients, Moves(c)
  PROVE  /\ CallOf(op[c]) \in CallRecord /\ CallOf(op'[c]) \in CallRecord
         /\ CallOf(op'[c]).kind = op[c].kind /\ CallOf(op'[c]).key = op[c].key
         /\ CallOf(op'[c]).exp = op[c].exp /\ CallOf(op'[c]).data = op[c].data
         /\ CallOf(op[c]).kind = op[c].kind /\ CallOf(op[c]).key = op[c].key
         /\ CallOf(op[c]).exp = op[c].exp /\ CallOf(op[c]).data = op[c].data
         /\ Calls' = [d \in Clients |-> IF d = c THEN CallOf(op'[c]) ELSE CallOf(op[d])]
<1>1. ASSUME NEW d \in Clients
      PROVE  CallOf(op[d])' = IF d = c THEN CallOf(op'[c]) ELSE CallOf(op[d])
  BY ReadingKept, SameButSameCall DEF Moves, SameAsk
<1>2. op[c] \in Operation /\ Fitting(op[c]) /\ op'[c] \in Operation /\ Fitting(op'[c])
  BY DEF Types, Moves, SameAsk, OpsTyped, Fitting, Success
<1>3. CallOf(op[c]) \in CallRecord /\ CallOf(op'[c]) \in CallRecord
  BY <1>2, CallOfTyped
<1>4. Calls' = [d \in Clients |-> IF d = c THEN CallOf(op'[c]) ELSE CallOf(op[d])]
  BY <1>1 DEF Calls
<1> QED
  BY <1>3, <1>4 DEF CallOf, Moves, SameAsk, SameRequest

(* A step of this kind is a step of the promise, or none.                          *)
Keeps == [Promise!Next]_<<objs, Calls>>

LEMMA TakeStep ==
  ASSUME Types, NEW c \in Clients, Moves(c), Stage(op[c]) = "open", Stage(op'[c]) = "done",
         Effect(c, Settled(op'[c]))
  PROVE  Promise!Take(c)
<1> DEFINE a == CallOf(op[c])
           b == CallOf(op'[c])
<1>1. a.st = "open" /\ b.st = "done" /\ b.out = Settled(op'[c])
  BY DEF CallOf
<1>2. /\ a \in CallRecord /\ b \in CallRecord /\ b.kind = a.kind /\ b.key = a.key
      /\ b.exp = a.exp /\ b.data = a.data
      /\ Calls' = [d \in Clients |-> IF d = c THEN b ELSE CallOf(op[d])]
  BY Moved
<1>3. Calls[c] = a /\ Calls'[c] = b
  BY <1>2 DEF Calls
<1> HIDE DEF a, b
<1> DEFINE n == [a EXCEPT !.st = "done", !.out = b.out]
<1>4. n \in CallRecord /\ b = n
  <2>1. n \in CallRecord /\ n.kind = a.kind /\ n.key = a.key /\ n.exp = a.exp /\ n.data = a.data
        /\ n.st = "done" /\ n.out = b.out
    BY <1>2 DEF CallRecord
  <2> HIDE DEF n
  <2> QED
    BY <1>1, <1>2, <2>1, SameCall
<1>5. Calls' = [Calls EXCEPT ![c] = n]
  BY <1>2, <1>4 DEF Calls
<1>6. Calls' = [Calls EXCEPT ![c].st = "done", ![c].out = Calls'[c].out]
  BY <1>2, <1>3, <1>5 DEF Calls, CallRecord
<1>7. Promise!Happens(c, Calls'[c].out)
  BY <1>1, <1>3, EffectHappens
<1> QED
  BY <1>1, <1>3, <1>6, <1>7 DEF Promise!Take, Calls, CallOf

LEMMA FailStep ==
  ASSUME Types, NEW c \in Clients, Moves(c), Stage(op[c]) = "open", Stage(op'[c]) = "failed",
         \/ UNCHANGED objs
         \/ \E out \in Object \cup {Absent, Written, Conflict, Done} : Effect(c, out)
  PROVE  Promise!Fail(c)
<1> DEFINE a == CallOf(op[c])
           b == CallOf(op'[c])
<1>1. a.st = "open" /\ b.st = "failed" /\ b.out = Error
  BY DEF CallOf
<1>2. /\ a \in CallRecord /\ b \in CallRecord /\ b.kind = a.kind /\ b.key = a.key
      /\ b.exp = a.exp /\ b.data = a.data
      /\ Calls' = [d \in Clients |-> IF d = c THEN b ELSE CallOf(op[d])]
  BY Moved
<1>3. Calls[c] = a /\ Calls'[c] = b
  BY <1>2 DEF Calls
<1> HIDE DEF a, b
<1> DEFINE n == [a EXCEPT !.st = "failed", !.out = Error]
<1>4. n \in CallRecord /\ b = n
  <2>1. n \in CallRecord /\ n.kind = a.kind /\ n.key = a.key /\ n.exp = a.exp /\ n.data = a.data
        /\ n.st = "failed" /\ n.out = Error
    BY <1>2 DEF CallRecord, Outcome
  <2> HIDE DEF n
  <2> QED
    BY <1>1, <1>2, <2>1, SameCall
<1>5. Calls' = [Calls EXCEPT ![c].st = "failed", ![c].out = Error]
  BY <1>2, <1>3, <1>4 DEF Calls, CallRecord
<1>6. UNCHANGED objs \/ \E out \in Object \cup {Absent, Written, Conflict, Done} :
                            Promise!Happens(c, out)
  BY EffectHappens
<1>7. Promise!Outcomes = Object \cup {Absent, Written, Conflict, Done}
  BY DEF Promise!Outcomes, Promise!Object, Object
<1> QED
  BY <1>1, <1>3, <1>5, <1>6, <1>7 DEF Promise!Fail, Calls, CallOf

(* A step the promise does not see. *)
LEMMA StillStep ==
  ASSUME Types, NEW c \in Clients, Moves(c), Stage(op'[c]) = Stage(op[c]),
         Stage(op[c]) = "done" => Settled(op'[c]) = Settled(op[c]), UNCHANGED objs
  PROVE  UNCHANGED <<objs, Calls>>
<1> DEFINE a == CallOf(op[c])
           b == CallOf(op'[c])
<1>1. /\ a \in CallRecord /\ b \in CallRecord /\ b.kind = a.kind /\ b.key = a.key
      /\ b.exp = a.exp /\ b.data = a.data
      /\ Calls' = [d \in Clients |-> IF d = c THEN b ELSE CallOf(op[d])]
  BY Moved
<1>2. b.st = a.st /\ b.out = a.out
  BY DEF CallOf
<1>3. a = b
  BY <1>1, <1>2, SameCall
<1> HIDE DEF a, b
<1>4. \A d \in Clients : Calls'[d] = Calls[d]
  BY <1>1, <1>3 DEF Calls, a, b
<1> QED
  BY <1>1, <1>3 DEF Calls, a

LEMMA OpenStep ==
  ASSUME Types, Types', NEW c \in Clients, \A d \in Clients \ {c} : op'[d] = op[d],
         backend' = backend, UNCHANGED objs, Stage(op[c]) = "idle", Stage(op'[c]) = "open",
         op'[c].kind \in Kinds
  PROVE  Promise!Open(c)
<1> DEFINE b == CallOf(op'[c])
<1>1. \A d \in Clients : CallOf(op[d])' = CallOf(op'[d])
  BY ReadingKept
<1>2. Calls' = [d \in Clients |-> IF d = c THEN b ELSE CallOf(op[d])]
  BY <1>1 DEF Calls
<1>3. b \in Promise!Request
  <2>1. op'[c] \in Operation
    BY DEF Types
  <2> QED
    BY <2>1 DEF CallOf, Promise!Request, Operation, Kinds
<1>4. Calls[c].st = "idle" /\ Calls'[c] = b
  BY <1>2 DEF Calls, CallOf
<1> HIDE DEF b
<1>5. Calls' = [Calls EXCEPT ![c] = Calls'[c]]
  BY <1>2, <1>4 DEF Calls
<1> QED
  BY <1>3, <1>4, <1>5 DEF Promise!Open, Calls, CallOf

LEMMA CloseStep ==
  ASSUME Types, NEW c \in Clients, \A d \in Clients \ {c} : op'[d] = op[d],
         backend' = backend, UNCHANGED objs, Stage(op[c]) \in {"done", "failed"}, op'[c] = Idle
  PROVE  Promise!Close(c)
<1>1. \A d \in Clients : CallOf(op[d])' = CallOf(op'[d])
  BY ReadingKept
<1>2. CallOf(Idle) = Promise!Idle
  BY DEF CallOf, Promise!Idle, Idle, Stage
<1>3. Calls' = [d \in Clients |-> IF d = c THEN Promise!Idle ELSE CallOf(op[d])]
  BY <1>1, <1>2 DEF Calls
<1>4. Calls' = [Calls EXCEPT ![c] = Promise!Idle]
  BY <1>3 DEF Calls
<1>5. Calls[c].st \in {"done", "failed"}
  BY DEF Calls, CallOf
<1> QED
  BY <1>4, <1>5 DEF Promise!Close, Calls, CallOf

LEMMA PromiseMoves ==
  ASSUME NEW c \in Clients,
         \/ Promise!Open(c) \/ Promise!Take(c) \/ Promise!Fail(c) \/ Promise!Close(c)
         \/ UNCHANGED <<objs, Calls>>
  PROVE  Keeps
  BY DEF Promise!Next, Keeps

-----------------------------------------------------------------------------
(* What the server did, in one word.                                              *)
Said(c) ==
  CASE op[c].kind \in {"get", "etag"} -> objs[op[c].key]
    [] op[c].kind = "put" -> IF Holds(Condition(op[c]), objs[op[c].key]) THEN Written ELSE Conflict
    [] OTHER -> Done

LEMMA SettlesEffect ==
  ASSUME Types, NEW c \in Clients, op[c].at = "send", NEW r, Settles(c, r)
  PROVE  /\ Effect(c, Said(c)) /\ Said(c) # Error
         /\ Said(c) \in Object \cup {Absent, Written, Conflict, Done}
         /\ op[c].kind = "etag" => Effect(c, Absent)
<1>1. CASE op[c].kind \in {"get", "etag"}
  <2>1. UNCHANGED objs /\ Said(c) = objs[op[c].key]
    BY <1>1 DEF Settles, Said
  <2>2. Said(c) \in Object \cup {Absent} /\ Said(c) # Error
    BY <1>1, <2>1, SendTyped, OutcomeAssumption DEF Object
  <2> QED
    BY <1>1, <2>1, <2>2 DEF Effect
<1>2. CASE op[c].kind = "put"
  <2>1. CASE Holds(Condition(op[c]), objs[op[c].key])
    <3>1. objs' = [objs EXCEPT ![op[c].key] = [data |-> op[c].data, tag |-> TagOf(op[c].data)]]
      BY <1>2, <2>1 DEF Settles, Stored
    <3>2. TagOf(op[c].data) \in Tags
      BY <1>2, SendTyped, StoredTyped
    <3>3. Said(c) = Written
      BY <1>2, <2>1 DEF Said
    <3> QED
      BY <1>2, <2>1, <3>1, <3>2, <3>3, OutcomeAssumption DEF Effect
  <2>2. CASE ~ Holds(Condition(op[c]), objs[op[c].key])
    <3>1. Said(c) = Conflict /\ UNCHANGED objs
      BY <1>2, <2>2 DEF Said, Settles
    <3> QED
      BY <1>2, <2>2, <3>1, OutcomeAssumption DEF Effect
  <2> QED
    BY <2>1, <2>2
<1>3. CASE op[c].kind = "delete"
  BY <1>3, OutcomeAssumption DEF Settles, Said, Effect
<1>4. CASE op[c].kind = "list"
  BY <1>4, OutcomeAssumption DEF Settles, Said, Effect
<1> QED
  BY <1>1, <1>2, <1>3, <1>4, SendTyped DEF Kinds

(* A reply heard whole says what the server did. *)
LEMMA HonestReading ==
  ASSUME Types, NEW c \in Clients, op[c].at = "send", NEW r, Settles(c, r)
  PROVE  Reading(op[c].kind, r) = Said(c)
<1>1. CASE op[c].kind \in {"get", "etag"}
  <2> DEFINE obj == objs[op[c].key]
  <2>1. obj \in Object \cup {Absent} /\ Said(c) = obj
    BY <1>1, SendTyped DEF Said
  <2>2. obj # Absent => obj.tag # NoTag
    BY <2>1, OutcomeAssumption DEF Object
  <2>3. /\ obj = Absent => r.status = 404
        /\ obj # Absent => r.status = 200 /\ r.obj = obj
    BY <1>1 DEF Settles, Tells, Says
  <2> HIDE DEF obj
  <2> QED
    BY <1>1, <2>1, <2>2, <2>3, SuccessCodes DEF Reading, DavGet, DavEtag, S3Get, S3Etag
<1>2. CASE op[c].kind = "put"
  <2> DEFINE obj == Stored(c)[op[c].key]
  <2>1. obj \in Object
    BY <1>2, SendTyped
  <2>2. obj.tag # NoTag
    BY <2>1, OutcomeAssumption DEF Object
  <2>3. \/ Said(c) = Written /\ r.status = 200 /\ r.obj = obj
        \/ Said(c) = Conflict /\ r.status = 412
    BY <1>2 DEF Settles, Said, Tells, Says
  <2> HIDE DEF obj
  <2> QED
    BY <1>2, <2>2, <2>3, SuccessCodes DEF Reading, DavPut, S3Put
<1>3. CASE op[c].kind = "delete"
  <2>1. Said(c) = Done /\ r.status \in {204, 404}
    BY <1>3 DEF Said, Settles, Tells, Says
  <2> QED
    BY <1>3, <2>1, SuccessCodes DEF Reading, DavDelete, S3Delete
<1>4. CASE op[c].kind = "list"
  <2>1. Said(c) = Done /\ r = Listing(op[c])
    BY <1>4 DEF Said, Settles
  <2>2. r.status \in {200, 207} \/ (r.status = 404 /\ Is("webdav"))
    BY <1>4, <2>1, ListingAnswers DEF Says
  <2> QED
    BY <1>4, <2>1, <2>2, SuccessCodes DEF Reading, ReadPage
<1> QED
  BY <1>1, <1>2, <1>3, <1>4, SendTyped DEF Kinds

(* Without its tag it may say less, never something else.                          *)
LEMMA UntaggedReading ==
  ASSUME Types, NEW c \in Clients, op[c].at = "send", NEW r, Settles(c, r), Answer(op[c], r),
         NEW n \in Untagged(r)
  PROVE  \/ Reading(op[c].kind, n) \in {Said(c), Error}
         \/ op[c].kind = "etag" /\ Reading(op[c].kind, n) = Absent
<1>1. /\ n.status = r.status
      /\ r.obj = Absent => n.obj = Absent
      /\ r.obj # Absent => n.obj # Absent /\ n.obj.tag = NoTag
  BY UntaggedShape
<1>2. Reading(op[c].kind, r) = Said(c)
  BY HonestReading
<1>3. CASE r.obj = Absent
  BY <1>1, <1>2, <1>3, SuccessCodes DEF Reading, DavGet, DavEtag, DavPut, DavDelete,
                                        S3Get, S3Etag, S3Put, S3Delete, ReadPage
<1>4. CASE r.obj # Absent
  <2>1. r.status = 200
    BY <1>4, ListingAnswers DEF Settles, Tells, Says
  <2>2. op[c].kind \in {"get", "etag", "put"}
    BY <1>4, ListingAnswers DEF Settles, Tells, Says
  <2>3. CASE op[c].kind = "get"
    BY <1>1, <1>4, <2>1, <2>3, SuccessCodes DEF Reading, DavGet, S3Get
  <2>4. CASE op[c].kind = "etag"
    BY <1>1, <1>4, <2>1, <2>4, SuccessCodes DEF Reading, DavEtag, S3Etag
  <2>5. CASE op[c].kind = "put"
    <3>1. Said(c) = Written
      BY <2>1, <2>5 DEF Settles, Said, Tells, Says
    <3> QED
      BY <1>1, <1>4, <2>1, <2>5, <3>1, SuccessCodes DEF Reading, DavPut, S3Put
  <2> QED
    BY <2>2, <2>3, <2>4, <2>5
<1> QED
  BY <1>3, <1>4

(* An exchange is seen by the promise as it should be, whatever is heard of it.    *)
LEMMA ServedKeeps ==
  ASSUME Types, NEW c \in Clients, op[c].at = "send", NEW r, NEW heard, Settles(c, r),
         OpsTyped', Served(c, heard), backend' = backend,
         \/ Reading(op[c].kind, heard) \in {Said(c), Error}
         \/ op[c].kind = "etag" /\ Reading(op[c].kind, heard) = Absent
  PROVE  Keeps
<1> DEFINE n == op'[c]
<1>1. /\ Moves(c) /\ n.kind = op[c].kind /\ n.at = "answered" /\ n.reply = heard
  BY DEF Moves, SameAsk, Served, SameRequest
<1>2. Stage(op[c]) = "open"
  BY DEF Stage
<1>3. /\ Effect(c, Said(c)) /\ Said(c) # Error /\ Absent # Error /\ Done # Error
      /\ Said(c) \in Object \cup {Absent, Written, Conflict, Done}
      /\ op[c].kind = "etag" => Effect(c, Absent)
  BY SettlesEffect, OutcomeAssumption
<1> HIDE DEF n
<1>4. CASE n.kind = "list" /\ heard.more
  <2>1. Settled(n) = Done /\ Stage(n) = "open" /\ UNCHANGED objs
    BY <1>1, <1>3, <1>4 DEF Settled, Stage, Settles
  <2>2. UNCHANGED <<objs, Calls>>
    BY <1>1, <1>2, <2>1, StillStep DEF n
  <2> QED
    BY <2>2, PromiseMoves
<1>5. CASE ~(n.kind = "list" /\ heard.more)
  <2>1. Settled(n) = Reading(op[c].kind, heard)
    BY <1>1, <1>5 DEF Settled
  <2>2. CASE Settled(n) = Error
    <3>1. Stage(n) = "failed"
      BY <1>1, <1>5, <2>2 DEF Stage
    <3>2. Promise!Fail(c)
      BY <1>1, <1>2, <1>3, <3>1, FailStep DEF n
    <3> QED
      BY <3>2, PromiseMoves
  <2>3. CASE Settled(n) # Error
    <3>1. Stage(n) = "done"
      BY <1>1, <1>5, <2>3 DEF Stage
    <3>2. Effect(c, Settled(n))
      BY <1>3, <2>1, <2>3
    <3>3. Promise!Take(c)
      BY <1>1, <1>2, <3>1, <3>2, TakeStep DEF n
    <3> QED
      BY <3>3, PromiseMoves
  <2> QED
    BY <2>2, <2>3
<1> QED
  BY <1>4, <1>5

-----------------------------------------------------------------------------
(***************************************************************************)
(* Each operation's steps are the promise's.                               *)
(***************************************************************************)
LEMMA CallKeeps ==
  ASSUME Types, NEW c \in Clients, Call(c)
  PROVE  Keeps
<1>1. backend' = backend /\ UNCHANGED objs
  BY DEF Call
<1>2. Stage(op[c]) = "idle" /\ Stage(op'[c]) = "open"
  BY CallTyped DEF Stage
<1>3. Promise!Open(c)
  BY <1>1, <1>2, CallTyped, OpenStep
<1> QED
  BY <1>3, PromiseMoves

LEMMA ExchangeKeeps ==
  ASSUME Types, NEW c \in Clients, Exchange(c)
  PROVE  Keeps
<1>1. PICK r \in Replies(c) : Serve(c, r, r)
  BY DEF Exchange
<1>2. op[c].at = "send" /\ backend' = backend
  BY DEF Exchange
<1>3. Answer(op[c], r) /\ Settles(c, r)
  BY <1>1, <1>2, ServeAnswers
<1>4. OpsTyped' /\ Served(c, r)
  BY <1>1, <1>2, <1>3, ServeShape
<1>5. Reading(op[c].kind, r) = Said(c)
  BY <1>2, <1>3, HonestReading
<1> QED
  BY <1>2, <1>3, <1>4, <1>5, ServedKeeps

(* A request refused before anything was done is an error.                         *)
LEMMA RefusalRead ==
  ASSUME NEW kind \in Kinds, NEW status \in {0, 403, 500}
  PROVE  Reading(kind, Code(status)) = Error
<1>1. Code(status).status = status
  BY CodeSays, SuccessCodes DEF Says, Tells
<1> QED
  BY <1>1, SuccessCodes DEF Kinds, Reading, DavGet, DavEtag, DavPut, DavDelete, S3Get, S3Etag,
     S3Put, S3Delete, ReadPage

LEMMA MishapKeeps ==
  ASSUME Types, NEW c \in Clients, Mishap(c)
  PROVE  Keeps
<1>1. op[c].at = "send" /\ backend' = backend
  BY DEF Mishap
<1>2. op[c].kind \in Kinds
  BY <1>1, SendTyped
<1>3. ASSUME NEW status \in {0, 500, 403}, op' = Heard(c, Code(status)), UNCHANGED <<objs, version>>
      PROVE  Keeps
  <2>1. Answer(op[c], Code(status)) /\ ~Code(status).more
    BY FailureSays, CodeSays, SuccessCodes DEF Tells
  <2>2. Reading(op[c].kind, Code(status)) = Error
    BY <1>2, RefusalRead
  <2> DEFINE r == Code(status)
             n == op'[c]
  <2> HIDE DEF r
  <2>3. /\ Heard(c, r) \in [Clients -> Operation]
        /\ \A d \in Clients : Fitting(Heard(c, r)[d])
        /\ \A d \in Clients \ {c} : Heard(c, r)[d] = op[d]
        /\ SameRequest(Heard(c, r)[c], op[c])
        /\ Heard(c, r)[c].at = "answered" /\ Heard(c, r)[c].reply = r
    BY <1>1, <2>1, HeardTyped DEF r
  <2>4. op' = Heard(c, r)
    BY <1>3 DEF r
  <2>5. Moves(c) /\ n.kind = op[c].kind /\ n.at = "answered" /\ n.reply = r
    BY <1>1, <2>3, <2>4 DEF Moves, SameAsk, OpsTyped, SameBut, SameRequest
  <2> HIDE DEF n
  <2>6. Settled(n) = Error /\ Stage(n) = "failed"
    BY <2>1, <2>2, <2>5 DEF Settled, Stage, r
  <2>7. Promise!Fail(c)
    BY <1>1, <1>3, <2>5, <2>6, FailStep DEF n, Stage
  <2> QED
    BY <2>7, PromiseMoves
<1>4. ASSUME NEW r, NEW heard \in {Code(0), Code(500)} \cup Untagged(r), Serve(c, r, heard)
      PROVE  Keeps
  <2>1. Answer(op[c], r) /\ Settles(c, r) /\ Answer(op[c], heard)
    BY <1>1, <1>4, ServeAnswers, MishapAnswers
  <2>2. OpsTyped' /\ Served(c, heard)
    BY <1>1, <1>4, <2>1, ServeShape
  <2>3. Reading(op[c].kind, Code(0)) = Error /\ Reading(op[c].kind, Code(500)) = Error
    BY <1>2, RefusalRead
  <2>4. \/ Reading(op[c].kind, heard) \in {Said(c), Error}
        \/ op[c].kind = "etag" /\ Reading(op[c].kind, heard) = Absent
    BY <1>1, <1>4, <2>1, <2>3, UntaggedReading
  <2> QED
    BY <1>1, <2>1, <2>2, <2>4, ServedKeeps
<1>5. MishapCases(c)
  BY MishapSplit
<1> QED
  BY <1>3, <1>4, <1>5 DEF MishapCases

(* An operation that ends: the promise has seen it end already, or sees it now.    *)
LEMMA EndMoves ==
  ASSUME Types, NEW c \in Clients, NEW out \in Outcome, End(c, out), op[c].kind # "none",
         out = Written => op[c].kind = "put" /\ (Is("webdav") => op[c].reply.obj # Absent
                                                  /\ op[c].reply.obj.tag # NoTag),
         backend' = backend
  PROVE  /\ Moves(c) /\ Settled(op'[c]) = out
         /\ Stage(op'[c]) = IF out = Error THEN "failed" ELSE "done"
<1>1. /\ OpsTyped' /\ \A d \in Clients \ {c} : op'[d] = op[d]
      /\ SameRequest(op'[c], op[c]) /\ op'[c].at = "ended" /\ op'[c].out = out
  BY EndTyped DEF OpsTyped
<1> QED
  BY <1>1 DEF Moves, SameAsk, SameBut, SameRequest, Settled, Stage

LEMMA ReceiveKeeps ==
  ASSUME Types, NEW c \in Clients, Receive(c)
  PROVE  Keeps
<1>1. op[c].at = "answered" /\ UNCHANGED objs /\ backend' = backend
  BY DEF Receive
<1>2. op[c] \in Operation /\ Fitting(op[c]) /\ op[c].kind # "none"
  BY <1>1 DEF Types, Fitting
<1>3. Done # Error
  BY OutcomeAssumption
<1>4. CASE /\ End(c, Reading(op[c].kind, op[c].reply))
           /\ op[c].kind # "list" \/ ReadPage(op[c].reply) = Error
  <2> DEFINE out == Reading(op[c].kind, op[c].reply)
  <2>1. /\ out \in Outcome
        /\ out = Written => op[c].kind = "put" /\ (Is("webdav") => op[c].reply.obj # Absent
                                                     /\ op[c].reply.obj.tag # NoTag)
    BY <1>2, ReadingSays
  <2>2. ~(op[c].kind = "list" /\ op[c].reply.more)
    BY <1>2, <1>3, <1>4 DEF Fitting, ReadPage
  <2>3. Settled(op[c]) = out /\ Stage(op[c]) = IF out = Error THEN "failed" ELSE "done"
    BY <1>1, <2>2 DEF Settled, Stage
  <2> HIDE DEF out
  <2>4. End(c, out)
    BY <1>4 DEF out
  <2>5. /\ Moves(c) /\ Settled(op'[c]) = out
        /\ Stage(op'[c]) = IF out = Error THEN "failed" ELSE "done"
    BY <1>1, <1>2, <2>1, <2>4, EndMoves
  <2>6. UNCHANGED <<objs, Calls>>
    BY <1>1, <2>3, <2>5, StillStep
  <2> QED
    BY <2>6, PromiseMoves
<1>5. CASE op[c].kind = "list" /\ ReadPage(op[c].reply) # Error /\ TakesPage(c)
  <2>1. Moves(c) /\ op'[c].kind = "list"
    BY <1>1, <1>5, PageTaken DEF Moves, SameAsk, SameBut, SameRequest
  <2>2. ReadPage(op[c].reply) = Done
    BY <1>5 DEF ReadPage
  <2>3. Settled(op[c]) = Done
    BY <1>1, <1>5, <2>2 DEF Settled, Reading
  <2>4. CASE op[c].reply.more
    <3>1. Stage(op[c]) = "open" /\ Stage(op'[c]) = "open"
      BY <1>1, <1>3, <1>5, <2>3, <2>4, PageTaken DEF Stage
    <3> QED
      BY <1>1, <2>1, <3>1, StillStep, PromiseMoves
  <2>5. CASE ~op[c].reply.more
    <3>1. op'[c].at = "ended" /\ op'[c].out = Done
      BY <1>1, <1>5, <2>5, PageTaken
    <3>2. Settled(op'[c]) = Done
      BY <3>1 DEF Settled
    <3>3. Stage(op[c]) = "done" /\ Stage(op'[c]) = "done"
      BY <1>1, <1>3, <2>3, <2>5, <3>1, <3>2 DEF Stage
    <3> QED
      BY <1>1, <2>1, <2>3, <3>2, <3>3, StillStep, PromiseMoves
  <2> QED
    BY <2>4, <2>5
<1> QED
  BY <1>4, <1>5 DEF Receive, TakesPage

LEMMA ReturnKeeps ==
  ASSUME Types, NEW c \in Clients, Return(c)
  PROVE  Keeps
<1>1. op[c].at = "ended" /\ backend' = backend /\ UNCHANGED objs
  BY DEF Return
<1>2. op'[c] = Idle /\ \A d \in Clients \ {c} : op'[d] = op[d]
  BY IdleFits, OneOp DEF Return
<1>3. Stage(op[c]) \in {"done", "failed"}
  BY <1>1 DEF Stage
<1>4. Promise!Close(c)
  BY <1>1, <1>2, <1>3, CloseStep
<1> QED
  BY <1>4, PromiseMoves

(* A step that only takes an operation further on its way. *)
LEMMA OnTheWay ==
  ASSUME Types, OpsTyped', NEW c \in Clients, \A d \in Clients \ {c} : op'[d] = op[d],
         SameAsk(op'[c], op[c]), op[c].at \in {"mkcol", "send", "rename"},
         op'[c].at \in {"mkcol", "send", "rename"}, UNCHANGED <<backend, objs>>
  PROVE  Keeps
<1>1. Moves(c)
  BY DEF Moves, SameBut, SameRequest
<1>2. Stage(op[c]) = "open" /\ Stage(op'[c]) = "open"
  BY DEF Stage
<1> QED
  BY <1>1, <1>2, StillStep, PromiseMoves

LEMMA Errors ==
  ASSUME Types, NEW c \in Clients, End(c, Error), op[c].at \in {"mkcol", "send", "rename"},
         UNCHANGED <<backend, objs>>
  PROVE  Keeps
<1>1. op[c].kind # "none" /\ Error # Written /\ Error \in Outcome
  BY OutcomeAssumption DEF Types, Fitting, Outcome
<1>2. Moves(c) /\ Stage(op'[c]) = "failed" /\ Stage(op[c]) = "open"
  BY <1>1, EndMoves DEF Stage
<1> QED
  BY <1>2, FailStep, PromiseMoves

LEMMA MakeCollectionKeeps ==
  ASSUME Types, NEW c \in Clients, MakeCollection(c)
  PROVE  Keeps
<1>1. op[c].at = "mkcol" /\ UNCHANGED <<backend, objs>>
  BY DEF MakeCollection
<1>2. CASE op' = [op EXCEPT ![c].at = "send"]
  <2>1. op[c] \in Operation /\ Types'
    BY MakeCollectionTyped DEF Types
  <2>2. /\ \A d \in Clients \ {c} : op'[d] = op[d]
        /\ SameAsk(op'[c], op[c]) /\ op'[c].at = "send"
    BY <1>2, <2>1 DEF Types, Operation, SameAsk
  <2> QED
    BY <1>1, <2>1, <2>2, OnTheWay DEF Types, OpsTyped
<1>3. CASE End(c, Error)
  BY <1>1, <1>3, Errors
<1> QED
  BY <1>2, <1>3 DEF MakeCollection

LEMMA LocalFailsKeeps ==
  ASSUME Types, NEW c \in Clients, LocalFails(c)
  PROVE  Keeps
  BY Errors DEF LocalFails

(* An operation of a directory that takes effect and ends in one step.             *)
LEMMA EndsAtOnce ==
  ASSUME Types, NEW c \in Clients, NEW out \in Outcome, End(c, out), out # Error,
         op[c].at \in {"send", "rename"}, backend' = backend, Effect(c, out),
         out = Written => op[c].kind = "put" /\ ~Is("webdav")
  PROVE  Keeps
<1>1. op[c].kind # "none"
  BY DEF Types, Fitting
<1>2. Moves(c) /\ Settled(op'[c]) = out /\ Stage(op'[c]) = "done"
  BY <1>1, EndMoves
<1>3. Stage(op[c]) = "open"
  BY DEF Stage
<1>4. Promise!Take(c)
  BY <1>2, <1>3, TakeStep
<1> QED
  BY <1>4, PromiseMoves

LEMMA LocalReadKeeps ==
  ASSUME Types, NEW c \in Clients, LocalRead(c)
  PROVE  Keeps
<1>1. /\ op[c].at = "send" /\ op[c].kind \in {"get", "etag"} /\ End(c, objs[op[c].key])
      /\ backend' = backend /\ UNCHANGED objs
  BY DEF LocalRead
<1> DEFINE out == objs[op[c].key]
<1>2. out \in Object \cup {Absent}
  BY <1>1, SendTyped
<1>3. out \in Outcome /\ out # Written /\ out # Error
  BY <1>2, OutcomeAssumption DEF Outcome, Object
<1>4. Effect(c, out) /\ End(c, out)
  BY <1>1 DEF Effect
<1> HIDE DEF out
<1> QED
  BY <1>1, <1>3, <1>4, EndsAtOnce

LEMMA LocalCompareKeeps ==
  ASSUME Types, NEW c \in Clients, LocalCompare(c)
  PROVE  Keeps
<1>1. /\ op[c].at = "send" /\ op[c].kind = "put" /\ backend' = backend /\ UNCHANGED objs
  BY DEF LocalCompare
<1>2. CASE op' = [op EXCEPT ![c].at = "rename"]
  <2>1. op[c] \in Operation /\ Types'
    BY LocalCompareTyped DEF Types
  <2>2. /\ \A d \in Clients \ {c} : op'[d] = op[d]
        /\ SameAsk(op'[c], op[c]) /\ op'[c].at = "rename"
    BY <1>2, <2>1 DEF Types, Operation, SameAsk
  <2> QED
    BY <1>1, <2>1, <2>2, OnTheWay DEF Types, OpsTyped
<1>3. CASE End(c, Conflict) /\ ~Holds(Condition(op[c]), objs[op[c].key])
  <2>1. Effect(c, Conflict) /\ Conflict \in Outcome /\ Conflict # Written /\ Conflict # Error
    BY <1>1, <1>3, OutcomeAssumption DEF Effect, Outcome
  <2> QED
    BY <1>1, <1>3, <2>1, EndsAtOnce
<1> QED
  BY <1>2, <1>3 DEF LocalCompare

(* What a rename puts in place was looked at in an earlier step.                   *)
RenameReady == ~Shared => \A c \in Clients :
  op[c].at = "rename" => Holds(Condition(op[c]), objs[op[c].key])

LEMMA LocalRenameKeeps ==
  ASSUME OneWriter, Types, OnlyLocal, RenameReady, NEW c \in Clients, LocalRename(c)
  PROVE  Keeps
<1>1. /\ op[c].at = "rename" /\ objs' = Stored(c) /\ End(c, Written) /\ backend' = backend
  BY DEF LocalRename
<1>2. op[c].kind = "put" /\ ~Is("webdav") /\ Holds(Condition(op[c]), objs[op[c].key])
  BY <1>1 DEF OneWriter, Types, Fitting, OnlyLocal, RenameReady, Is
<1>3. TagOf(op[c].data) \in Tags
  BY <1>2, StoredTyped
<1>4. objs' = [objs EXCEPT ![op[c].key] = [data |-> op[c].data, tag |-> TagOf(op[c].data)]]
  BY <1>1 DEF Stored
<1>5. Effect(c, Written)
  BY <1>2, <1>3, <1>4 DEF Effect
<1>6. Written \in Outcome /\ Written # Error
  BY OutcomeAssumption DEF Outcome
<1> QED
  BY <1>1, <1>2, <1>5, <1>6, EndsAtOnce

LEMMA LocalRemoveKeeps ==
  ASSUME Types, NEW c \in Clients, LocalRemove(c)
  PROVE  Keeps
<1>1. /\ op[c].at = "send" /\ op[c].kind = "delete" /\ backend' = backend
      /\ objs' = [objs EXCEPT ![op[c].key] = Absent]
  BY DEF LocalRemove
<1>2. /\ Types' /\ \A d \in Clients \ {c} : SameBut(op'[d], op[d])
      /\ SameRequest(op'[c], op[c]) /\ op'[c].at = "ended" /\ op'[c].out = Done
  BY LocalRemoveTyped
<1>3. Moves(c)
  BY <1>1, <1>2 DEF Moves, SameAsk, SameRequest, Types, OpsTyped
<1>4. Done # Error
  BY OutcomeAssumption
<1>5. Stage(op[c]) = "open" /\ Settled(op'[c]) = Done /\ Stage(op'[c]) = "done"
  BY <1>1, <1>2, <1>4 DEF Stage, Settled
<1>6. Effect(c, Done)
  BY <1>1 DEF Effect
<1>7. Promise!Take(c)
  BY <1>3, <1>5, <1>6, TakeStep
<1> QED
  BY <1>7, PromiseMoves

LEMMA LocalListKeeps ==
  ASSUME Types, NEW c \in Clients, LocalList(c)
  PROVE  Keeps
<1>1. op[c].at = "send" /\ op[c].kind = "list" /\ backend' = backend /\ UNCHANGED objs
  BY DEF LocalList
<1>2. CASE End(c, Done)
  <2>1. Effect(c, Done) /\ Done \in Outcome /\ Done # Written /\ Done # Error
    BY <1>1, OutcomeAssumption DEF Effect, Outcome
  <2> QED
    BY <1>1, <1>2, <2>1, EndsAtOnce
<1>3. CASE End(c, Error)
  BY <1>1, <1>3, Errors
<1>4. ASSUME NEW k \in op[c].left, op' = [op EXCEPT ![c].left = @ \ {k}, ![c].listed = @ \cup {k}]
      PROVE  Keeps
  <2>1. /\ OpsTyped' /\ \A d \in Clients \ {c} : op'[d] = op[d]
        /\ SameAsk(op'[c], op[c]) /\ op'[c].at = "send"
    BY <1>1, <1>4, EntryRead DEF SameAsk
  <2> QED
    BY <1>1, <2>1, OnTheWay
<1> QED
  BY <1>2, <1>3, <1>4 DEF LocalList

-----------------------------------------------------------------------------
(***************************************************************************)
(* One writer at a time in a directory.                                    *)
(***************************************************************************)
Writing(o) == o.kind \in {"put", "delete"}

Writers == Is("local") /\ ~Shared => \A c, d \in Clients : Writing(op[c]) /\ Writing(op[d]) => c = d

Inv == Types /\ OnlyLocal /\ RenameReady /\ Writers

LEMMA InvInit == Init => Inv
<1> SUFFICES ASSUME Init PROVE Inv
  OBVIOUS
<1>1. \A c \in Clients : op[c] = Idle
  BY DEF Init
<1>2. Idle.at = "idle" /\ ~Writing(Idle)
  BY DEF Idle, Writing
<1> QED
  BY <1>1, <1>2, TypesInit DEF Inv, OnlyLocal, RenameReady, Writers

(* What the operations are and how far along, apart from c's.                      *)
LEMMA Steady ==
  ASSUME Inv, NEW c \in Clients, UNCHANGED backend,
         \A d \in Clients \ {c} : op'[d].kind = op[d].kind /\ op'[d].at = op[d].at
                                  /\ SameAsk(op'[d], op[d]),
         op'[c].kind \in {op[c].kind, "none"},
         \/ UNCHANGED objs \/ ~Is("local")
         \/ Writing(op[c]) /\ op'[c].at # "rename",
         op'[c].at = "rename" => Is("local") /\ Holds(Condition(op'[c]), objs'[op'[c].key])
  PROVE  OnlyLocal' /\ RenameReady' /\ Writers'
<1>1. Is("local")' <=> Is("local")
  BY DEF Is
<1>2. Writers'
  BY <1>1 DEF Inv, Writers, Writing
<1>3. OnlyLocal'
  BY <1>1 DEF Inv, OnlyLocal
<1>4. ASSUME ~Shared, NEW d \in Clients \ {c}, op'[d].at = "rename"
      PROVE  Holds(Condition(op'[d]), objs'[op'[d].key])
  <2>1. op[d].at = "rename" /\ Is("local") /\ Holds(Condition(op[d]), objs[op[d].key])
    BY <1>4 DEF Inv, OnlyLocal, RenameReady
  <2>2. Writing(op[d])
    BY <2>1 DEF Inv, Types, Fitting, Writing
  <2>3. UNCHANGED objs
    BY <1>4, <2>1, <2>2 DEF Inv, Writers
  <2>4. op'[d].exp = op[d].exp /\ op'[d].key = op[d].key
    BY DEF SameAsk
  <2> QED
    BY <2>1, <2>3, <2>4 DEF Holds, Condition
<1>5. RenameReady'
  BY <1>4 DEF RenameReady, Holds, Condition
<1> QED
  BY <1>2, <1>3, <1>5

LEMMA CallKept ==
  ASSUME Inv, NEW c \in Clients, Call(c)
  PROVE  Inv'
<1>1. /\ Types' /\ \A d \in Clients \ {c} : op'[d] = op[d]
      /\ op'[c].at \in {"mkcol", "send"}
      /\ op'[c].kind \in {"put", "delete"} /\ Is("local") /\ ~Shared
           => \A d \in Clients : op[d].kind \notin {"put", "delete"}
  BY CallTyped DEF Inv
<1>2. UNCHANGED <<backend, objs>>
  BY DEF Call
<1>3. Is("local")' <=> Is("local")
  BY <1>2 DEF Is
<1>4. Writers'
  <2>1. ASSUME Is("local"), ~Shared, Writing(op'[c])
        PROVE  \A d \in Clients \ {c} : ~Writing(op'[d])
    BY <1>1, <2>1 DEF Writing
  <2>2. ASSUME Is("local"), ~Shared, NEW d \in Clients, NEW e \in Clients, Writing(op'[d]), Writing(op'[e])
        PROVE  d = e
    BY <1>1, <2>1, <2>2 DEF Inv, Writers
  <2> QED
    BY <1>3, <2>2 DEF Writers, Writing
<1>5. OnlyLocal'
  BY <1>1, <1>3 DEF OnlyLocal, Inv
<1>6. RenameReady'
  <2>1. ASSUME ~Shared, NEW d \in Clients, op'[d].at = "rename"
        PROVE  Holds(Condition(op'[d]), objs'[op'[d].key])
    BY <1>1, <1>2, <2>1 DEF RenameReady, Inv
  <2> QED
    BY <2>1 DEF RenameReady, Holds, Condition
<1> QED
  BY <1>1, <1>4, <1>5, <1>6 DEF Inv

(* A step of c's on its way. *)
LEMMA StepKept ==
  ASSUME Inv, Types', NEW c \in Clients, UNCHANGED backend,
         \A d \in Clients \ {c} : op'[d].kind = op[d].kind /\ op'[d].at = op[d].at
                                  /\ SameAsk(op'[d], op[d]),
         op'[c].kind \in {op[c].kind, "none"},
         \/ UNCHANGED objs \/ ~Is("local")
         \/ Writing(op[c]) /\ op'[c].at # "rename",
         op'[c].at = "rename" => Is("local") /\ Holds(Condition(op'[c]), objs'[op'[c].key])
  PROVE  Inv'
<1>1. OnlyLocal' /\ RenameReady' /\ Writers'
  BY Steady
<1> QED
  BY <1>1 DEF Inv

(* An operation that ends. *)
LEMMA EndKept ==
  ASSUME Inv, Types', NEW c \in Clients, NEW out \in Outcome, End(c, out), op[c].kind # "none",
         out = Written => op[c].kind = "put" /\ (Is("webdav") => op[c].reply.obj # Absent
                                                  /\ op[c].reply.obj.tag # NoTag),
         UNCHANGED backend, UNCHANGED objs \/ Writing(op[c])
  PROVE  Inv'
<1>1. /\ \A d \in Clients \ {c} : op'[d] = op[d]
      /\ SameRequest(op'[c], op[c]) /\ op'[c].at = "ended"
  BY EndTyped DEF Inv
<1>2. \A d \in Clients \ {c} : SameAsk(op'[d], op[d])
  BY <1>1 DEF SameAsk
<1> QED
  BY <1>1, <1>2, StepKept DEF SameRequest

LEMMA ServedKept ==
  ASSUME Inv, Types', NEW c \in Clients, NEW heard, Served(c, heard), UNCHANGED backend,
         ~Is("local")
  PROVE  Inv'
<1>1. /\ \A d \in Clients \ {c} : op'[d].kind = op[d].kind /\ op'[d].at = op[d].at
                                 /\ SameAsk(op'[d], op[d])
      /\ op'[c].kind = op[c].kind /\ op'[c].at = "answered"
  BY DEF Served, SameBut, SameRequest, SameAsk
<1> QED
  BY <1>1, StepKept

LEMMA NetworkKept ==
  ASSUME Inv, NEW c \in Clients, Exchange(c) \/ Mishap(c)
  PROVE  Inv'
<1>1. op[c].at = "send" /\ ~Is("local") /\ UNCHANGED backend
  BY DEF Exchange, Mishap
<1>2. Types /\ Types'
  BY ExchangeTyped, MishapTyped DEF Inv
<1>3. ASSUME NEW r, NEW heard, Serve(c, r, heard), Answer(op[c], heard)
      PROVE  Inv'
  BY <1>1, <1>2, <1>3, ServeShape, ServedKept
<1>4. CASE Exchange(c)
  <2>1. PICK r \in Replies(c) : Serve(c, r, r)
    BY <1>4 DEF Exchange
  <2> QED
    BY <1>1, <1>2, <1>3, <2>1, ServeAnswers
<1>5. CASE Mishap(c)
  <2>1. MishapCases(c)
    BY <1>5, MishapSplit
  <2>2. ASSUME NEW status \in {0, 500, 403}, op' = Heard(c, Code(status))
        PROVE  Inv'
    <3> DEFINE r == Code(status)
    <3>1. Answer(op[c], r)
      BY FailureSays, SuccessCodes
    <3> HIDE DEF r
    <3>2. /\ \A d \in Clients \ {c} : Heard(c, r)[d] = op[d]
          /\ SameRequest(Heard(c, r)[c], op[c])
          /\ Heard(c, r)[c].at = "answered" /\ Heard(c, r)[c].reply = r
          /\ Heard(c, r)[c].firm = op[c].firm
      BY <1>1, <1>2, <3>1, HeardTyped
    <3>3. op' = Heard(c, r)
      BY <2>2 DEF r
    <3>4. Served(c, r)
      BY <3>2, <3>3 DEF Served, SameBut, SameRequest
    <3> QED
      BY <1>1, <1>2, <3>4, ServedKept
  <2>3. ASSUME NEW r, NEW heard \in {Code(0), Code(500)} \cup Untagged(r), Serve(c, r, heard)
        PROVE  Inv'
    BY <1>1, <1>2, <1>3, <2>3, MishapAnswers
  <2> QED
    BY <2>1, <2>2, <2>3 DEF MishapCases
<1> QED
  BY <1>4, <1>5

(* A step that only takes c further, nothing being written. *)
LEMMA QuietKept ==
  ASSUME Inv, Types', NEW c \in Clients, UNCHANGED <<backend, objs>>,
         \A d \in Clients \ {c} : op'[d] = op[d], op'[c].kind \in {op[c].kind, "none"},
         op'[c].at # "rename"
  PROVE  Inv'
<1>1. \A d \in Clients \ {c} : SameAsk(op'[d], op[d])
  BY DEF SameAsk
<1> QED
  BY <1>1, StepKept

LEMMA ErrorKept ==
  ASSUME Inv, Types', NEW c \in Clients, End(c, Error), op[c].at # "idle",
         UNCHANGED <<backend, objs>>
  PROVE  Inv'
<1>1. op[c].kind # "none" /\ Error \in Outcome /\ Error # Written
  BY OutcomeAssumption DEF Inv, Types, Fitting, Outcome
<1> QED
  BY <1>1, EndKept

LEMMA ClientKept ==
  ASSUME Inv, NEW c \in Clients, MakeCollection(c) \/ Receive(c) \/ Return(c)
  PROVE  Inv'
<1>1. Types /\ Types' /\ UNCHANGED <<backend, objs>>
  BY MakeCollectionTyped, ReceiveTyped, ReturnTyped DEF Inv, MakeCollection, Receive, Return
<1>2. op[c] \in Operation /\ Fitting(op[c])
  BY <1>1 DEF Types
<1>3. CASE MakeCollection(c)
  <2>1. CASE op' = [op EXCEPT ![c].at = "send"]
    <3>1. /\ \A d \in Clients \ {c} : op'[d] = op[d]
          /\ op'[c].kind = op[c].kind /\ op'[c].at = "send"
      BY <1>1, <1>2, <2>1 DEF Types, Operation
    <3> QED
      BY <1>1, <3>1, QuietKept
  <2>2. CASE End(c, Error)
    BY <1>1, <1>3, <2>2, ErrorKept DEF MakeCollection
  <2> QED
    BY <1>3, <2>1, <2>2 DEF MakeCollection
<1>4. CASE Receive(c)
  <2>1. op[c].at = "answered" /\ op[c].kind # "none"
    BY <1>2, <1>4 DEF Receive, Fitting
  <2>2. CASE End(c, Reading(op[c].kind, op[c].reply))
    <3> DEFINE out == Reading(op[c].kind, op[c].reply)
    <3>1. /\ out \in Outcome
          /\ out = Written => op[c].kind = "put" /\ (Is("webdav") => op[c].reply.obj # Absent
                                                       /\ op[c].reply.obj.tag # NoTag)
      BY <1>2, ReadingSays
    <3> HIDE DEF out
    <3>2. End(c, out)
      BY <2>2 DEF out
    <3> QED
      BY <1>1, <2>1, <3>1, <3>2, EndKept
  <2>3. CASE op[c].kind = "list" /\ TakesPage(c)
    <3>1. /\ \A d \in Clients \ {c} : op'[d] = op[d]
          /\ op'[c].kind = op[c].kind /\ op'[c].at \in {"send", "ended"}
      BY <1>1, <2>1, <2>3, PageTaken
    <3> QED
      BY <1>1, <3>1, QuietKept
  <2> QED
    BY <1>4, <2>2, <2>3 DEF Receive, TakesPage
<1>5. CASE Return(c)
  <2>1. op'[c] = Idle /\ \A d \in Clients \ {c} : op'[d] = op[d]
    BY <1>1, <1>5, IdleFits, OneOp DEF Return
  <2> QED
    BY <1>1, <2>1, QuietKept DEF Idle
<1> QED
  BY <1>3, <1>4, <1>5

LEMMA LocalKept ==
  ASSUME Inv, NEW c \in Clients,
         \/ LocalFails(c) \/ LocalRead(c) \/ LocalCompare(c) \/ LocalRename(c)
         \/ LocalRemove(c) \/ LocalList(c)
  PROVE  Inv'
<1>1. Types /\ Types' /\ OnlyLocal
  BY LocalFailsTyped, LocalReadTyped, LocalCompareTyped, LocalRenameTyped, LocalRemoveTyped,
     LocalListTyped DEF Inv
<1>2. op[c] \in Operation /\ Fitting(op[c])
  BY <1>1 DEF Types
<1>3. CASE LocalFails(c)
  BY <1>1, <1>3, ErrorKept DEF LocalFails
<1>4. CASE LocalRead(c)
  <2> DEFINE out == objs[op[c].key]
  <2>1. op[c].at = "send" /\ op[c].kind \in {"get", "etag"} /\ UNCHANGED <<backend, objs>>
    BY <1>4 DEF LocalRead
  <2>2. out \in Outcome /\ out # Written
    BY <1>1, <2>1, SendTyped, OutcomeAssumption DEF Outcome, Object
  <2>3. End(c, out)
    BY <1>4 DEF LocalRead
  <2> HIDE DEF out
  <2> QED
    BY <1>1, <2>1, <2>2, <2>3, EndKept
<1>5. CASE LocalCompare(c)
  <2>1. /\ op[c].at = "send" /\ op[c].kind = "put" /\ Is("local") /\ UNCHANGED <<backend, objs>>
    BY <1>5 DEF LocalCompare
  <2>2. CASE op' = [op EXCEPT ![c].at = "rename"] /\ Holds(Condition(op[c]), objs[op[c].key])
    <3>1. /\ \A d \in Clients \ {c} : op'[d] = op[d]
          /\ SameAsk(op'[c], op[c])
      BY <1>1, <1>2, <2>2 DEF Types, Operation, SameAsk
    <3>2. Holds(Condition(op'[c]), objs'[op'[c].key])
      BY <2>1, <2>2, <3>1 DEF SameAsk, Holds, Condition
    <3>3. \A d \in Clients \ {c} : SameAsk(op'[d], op[d])
      BY <3>1 DEF SameAsk
    <3>4. op'[c].kind = op[c].kind
      BY <3>1 DEF SameAsk
    <3> QED
      BY <1>1, <2>1, <3>1, <3>2, <3>3, <3>4, StepKept
  <2>3. CASE End(c, Conflict)
    <3>1. Conflict \in Outcome /\ Conflict # Written
      BY OutcomeAssumption DEF Outcome
    <3> QED
      BY <1>1, <2>1, <2>3, <3>1, EndKept
  <2> QED
    BY <1>5, <2>2, <2>3 DEF LocalCompare
<1>6. CASE LocalRename(c)
  <2>1. op[c].at = "rename" /\ End(c, Written) /\ UNCHANGED backend
    BY <1>6 DEF LocalRename
  <2>2. op[c].kind = "put" /\ ~Is("webdav") /\ Written \in Outcome
    BY <1>1, <1>2, <2>1 DEF Fitting, OnlyLocal, Is, Outcome
  <2> QED
    BY <1>1, <2>1, <2>2, EndKept DEF Writing
<1>7. CASE LocalRemove(c)
  <2>1. op[c].kind = "delete" /\ UNCHANGED backend
    BY <1>7 DEF LocalRemove
  <2>2. /\ \A d \in Clients \ {c} : op'[d].kind = op[d].kind /\ op'[d].at = op[d].at
                                   /\ SameAsk(op'[d], op[d])
        /\ op'[c].kind = op[c].kind /\ op'[c].at = "ended"
    BY <1>1, <1>7, LocalRemoveTyped DEF SameBut, SameRequest, SameAsk
  <2> QED
    BY <1>1, <2>1, <2>2, StepKept DEF Writing
<1>8. CASE LocalList(c)
  <2>1. op[c].at = "send" /\ op[c].kind = "list" /\ UNCHANGED <<backend, objs>>
    BY <1>8 DEF LocalList
  <2>2. CASE End(c, Error)
    BY <1>1, <2>1, <2>2, ErrorKept
  <2>3. CASE End(c, Done)
    <3>1. Done \in Outcome /\ Done # Written
      BY OutcomeAssumption DEF Outcome
    <3> QED
      BY <1>1, <2>1, <2>3, <3>1, EndKept
  <2>4. ASSUME NEW k \in op[c].left, op' = [op EXCEPT ![c].left = @ \ {k}, ![c].listed = @ \cup {k}]
        PROVE  Inv'
    <3>1. /\ \A d \in Clients \ {c} : op'[d] = op[d]
          /\ op'[c].kind = op[c].kind /\ op'[c].at = "send"
      BY <1>1, <2>1, <2>4, EntryRead
    <3> QED
      BY <1>1, <2>1, <3>1, QuietKept
  <2> QED
    BY <1>8, <2>2, <2>3, <2>4 DEF LocalList
<1> QED
  BY <1>3, <1>4, <1>5, <1>6, <1>7, <1>8

LEMMA InvStep ==
  ASSUME Inv, [Next]_vars
  PROVE  Inv'
<1>1. ASSUME NEW c \in Clients, Call(c) \/ Proceed(c)
      PROVE  Inv'
  BY <1>1, CallKept, NetworkKept, ClientKept, LocalKept DEF Proceed
<1>2. CASE UNCHANGED vars
  <2>1. /\ Types' /\ UNCHANGED <<backend, objs>> /\ \A c \in Clients : op'[c] = op[c]
    BY <1>2, PendingKept DEF vars, Inv, Types, Pending
  <2> QED
    BY <2>1 DEF Inv, OnlyLocal, RenameReady, Writers, Writing, Is, Holds, Condition
<1> QED
  BY <1>1, <1>2 DEF Next

LEMMA Invariance == Spec => []Inv
<1>1. Inv /\ [Next]_vars => Inv'
  BY InvStep
<1> QED
  BY <1>1, InvInit, PTL DEF Spec

LEMMA InvKeeps ==
  ASSUME OneWriter, Inv, [Next]_vars
  PROVE  Keeps
<1>1. ASSUME NEW c \in Clients, Call(c) \/ Proceed(c)
      PROVE  Keeps
  BY <1>1, CallKeeps, ExchangeKeeps, MishapKeeps, ReceiveKeeps, ReturnKeeps, MakeCollectionKeeps,
     LocalFailsKeeps, LocalReadKeeps, LocalCompareKeeps, LocalRenameKeeps, LocalRemoveKeeps,
     LocalListKeeps DEF Proceed, Inv
<1>2. CASE UNCHANGED vars
  BY <1>2 DEF vars, Keeps, Calls, CallOf, Stage, Settled, Reading, DavGet, DavEtag, DavPut, DavDelete,
     S3Get, S3Etag, S3Put, S3Delete, ReadPage, Is, Success
<1> QED
  BY <1>1, <1>2 DEF Next

(* The backends keep the promise of a conditional store, whatever the network loses: *)
(* every step of a get, etag, put, delete or list is a step of ConditionalStore or   *)
(* none.  A directory is written by one device at a time (OneWriter).                *)
THEOREM StorageKeepsPromise ==
  ASSUME OneWriter
  PROVE  Spec => KeepsPromise
<1>1. Init => Promise!Init
  <2> SUFFICES ASSUME Init PROVE Promise!Init
    OBVIOUS
  <2>1. objs \in [Keys -> Object \cup {Absent}]
    BY TypesInit DEF Types
  <2>2. CallOf(Idle) = Promise!Idle
    BY DEF CallOf, Promise!Idle, Idle, Stage
  <2>3. Calls = [c \in Clients |-> Promise!Idle]
    BY <2>2 DEF Init, Calls
  <2> QED
    BY <2>1, <2>3 DEF Promise!Init, Promise!Object, Object, Calls, CallOf
<1>2. Inv /\ [Next]_vars => Keeps
  BY InvKeeps
<1> QED
  BY <1>1, <1>2, Invariance, PTL DEF Spec, KeepsPromise, Promise!Spec, Keeps, Calls, CallOf

-----------------------------------------------------------------------------
(***************************************************************************)
(* Listings.                                                               *)
(***************************************************************************)

(* What a listing owes its caller. *)
Owed(o) == {k \in o.firm : ValidKey(k)} \ LeftOut(o)

(* As long as it runs: what it owes is there; it has it up to the token, or from    *)
(* the entries of the directory it has read; and the page that came brings the next *)
(* of it.                                                                           *)
Running(o) ==
  /\ o.firm \subseteq Present
  /\ Is("local") => o.at = "send" /\ Owed(o) \subseteq o.listed \cup o.left
  /\ ~Is("local") => \A k \in Owed(o) : k <= o.token => k \in o.listed

Paged(o) ==
  \A k \in Owed(o) :
     k > o.token /\ (o.reply.more => k <= Max(o.reply.keys)) => k \in o.reply.keys

Owes(o) ==
  o.kind = "list"
    => /\ o.at \in {"send", "answered"} => Running(o)
       /\ o.at = "answered" /\ ReadPage(o.reply) = Done => Paged(o)
       /\ o.at = "ended" /\ o.out = Done => Owed(o) \subseteq o.listed

Listings == \A c \in Clients : Owes(op[c])

(* No step takes away an object that a listing still owes.                          *)
Spares ==
  \A d \in Clients : /\ op'[d].firm \subseteq op[d].firm
                     /\ \A k \in op'[d].firm : k \in Present => k \in Present'

LEMMA OwesKept ==
  ASSUME Spares, backend' = backend, NEW d \in Clients, SameBut(op'[d], op[d]), Owes(op[d])
  PROVE  Owes(op[d])'
<1> DEFINE o == op[d]
           n == op'[d]
<1>1. /\ n.kind = o.kind /\ n.at = o.at /\ n.reply = o.reply /\ n.out = o.out
      /\ n.listed = o.listed /\ n.token = o.token /\ n.left = o.left /\ n.bare = o.bare
  BY DEF SameBut, SameRequest
<1>2. Owed(n) \subseteq Owed(o) /\ n.firm \subseteq o.firm
      /\ \A k \in n.firm : k \in Present => k \in Present'
  BY <1>1 DEF Spares, Owed, LeftOut
<1>3. /\ \A kind : Is(kind)' <=> Is(kind)
      /\ ReadPage(o.reply)' = ReadPage(n.reply)
      /\ Owed(o)' = Owed(n)
  BY DEF Is, ReadPage, Success, Owed, LeftOut, ValidKey
<1> HIDE DEF n
<1>4. Running(o) => Running(o)'
  BY <1>1, <1>2, <1>3 DEF Running, n
<1>5. Paged(o) => Paged(o)'
  BY <1>1, <1>2, <1>3 DEF Paged, n
<1> QED
  BY <1>1, <1>2, <1>3, <1>4, <1>5 DEF Owes, n

LEMMA ListingsKept ==
  ASSUME Listings, Spares, backend' = backend, NEW c \in Clients,
         \A d \in Clients \ {c} : SameBut(op'[d], op[d]), Owes(op[c])'
  PROVE  Listings'
<1>1. \A d \in Clients \ {c} : Owes(op[d])'
  BY OwesKept DEF Listings
<1> QED
  BY <1>1 DEF Listings

(* Objects that stay, and those that a delete takes away.                           *)
LEMMA NothingGone ==
  ASSUME \A d \in Clients : op'[d].firm \subseteq op[d].firm, UNCHANGED objs
  PROVE  Spares
  BY DEF Spares, Present

LEMMA PutSpares ==
  ASSUME NEW k \in Keys, objs \in [Keys -> Object \cup {Absent}], NEW obj \in Object,
         objs' = [objs EXCEPT ![k] = obj], \A d \in Clients : op'[d].firm \subseteq op[d].firm
  PROVE  Spares
<1>1. obj # Absent
  BY OutcomeAssumption DEF Object
<1> QED
  BY <1>1 DEF Spares, Present

LEMMA DeleteSpares ==
  ASSUME NEW k \in Keys, objs \in [Keys -> Object \cup {Absent}],
         objs' = [objs EXCEPT ![k] = Absent],
         \A d \in Clients : op'[d].firm = op[d].firm \ {k}
  PROVE  Spares
  BY DEF Spares, Present

LEMMA ServeSpares ==
  ASSUME Types, NEW c \in Clients, op[c].at = "send", NEW r, NEW heard, Serve(c, r, heard),
         Answer(op[c], heard)
  PROVE  Spares
<1>1. Settles(c, r) /\ OpsTyped' /\ Served(c, heard)
  BY ServeAnswers, ServeShape
<1>2. \A d \in Clients : op'[d].firm \subseteq op[d].firm
  BY <1>1 DEF Served
<1>3. objs \in [Keys -> Object \cup {Absent}]
  BY DEF Types
<1>4. CASE ServeDelete(c, r, heard)
  <2>1. op[c].key \in Keys
    BY <1>4, SendTyped DEF ServeDelete
  <2>2. /\ Heard(c, heard) \in [Clients -> Operation]
        /\ \A d \in Clients : Fitting(Heard(c, heard)[d])
        /\ \A d \in Clients : Heard(c, heard)[d].firm = op[d].firm
    BY HeardTyped
  <2>3. \A d \in Clients : op'[d].firm = op[d].firm \ {op[c].key}
    BY <1>4, <2>2, ForgetTyped DEF ServeDelete
  <2> QED
    BY <1>3, <1>4, <2>1, <2>3, DeleteSpares DEF ServeDelete
<1>5. CASE op[c].kind = "put" /\ objs' = Stored(c)
  <2>1. op[c].key \in Keys /\ Stored(c)[op[c].key] \in Object
    BY <1>5, SendTyped
  <2> DEFINE obj == [data |-> op[c].data, tag |-> TagOf(op[c].data)]
  <2>2. obj \in Object /\ objs' = [objs EXCEPT ![op[c].key] = obj]
    BY <1>3, <1>5, <2>1 DEF Stored
  <2> HIDE DEF obj
  <2> QED
    BY <1>2, <1>3, <2>1, <2>2, PutSpares
<1>6. CASE UNCHANGED objs
  BY <1>2, <1>6, NothingGone
<1> QED
  BY <1>4, <1>5, <1>6 DEF Serve, ServeRead, ServePut, ServeList

(* What is to be shown of the one that moved. *)
LEMMA OwesShown ==
  ASSUME backend' = backend, NEW c \in Clients, NEW n, n = op'[c],
         n.kind = "list" /\ n.at \in {"send", "answered"}
           => /\ n.firm \subseteq Present'
              /\ Is("local") => n.at = "send" /\ Owed(n) \subseteq n.listed \cup n.left
              /\ ~Is("local") => \A k \in Owed(n) : k <= n.token => k \in n.listed,
         n.kind = "list" /\ n.at = "answered" /\ ReadPage(n.reply) = Done => Paged(n),
         n.kind = "list" /\ n.at = "ended" /\ n.out = Done => Owed(n) \subseteq n.listed
  PROVE  Owes(op[c])'
<1>1. /\ \A kind : Is(kind)' <=> Is(kind)
      /\ ReadPage(op[c].reply)' = ReadPage(n.reply)
      /\ Owed(op[c])' = Owed(n)
  BY DEF Is, ReadPage, Success, Owed, LeftOut, ValidKey
<1> QED
  BY <1>1 DEF Owes, Running, Paged

LEMMA NotAListing ==
  ASSUME NEW c \in Clients, op'[c].kind # "list"
  PROVE  Owes(op[c])'
  BY DEF Owes

(* A page brings what comes next. *)
LEMMA ListingPaged ==
  ASSUME NEW o, o.kind = "list", o.firm \subseteq Present, o.token \in Keys \cup {0}, NEW k \in o.firm,
         k > o.token, Listing(o).more => k <= Max(Listing(o).keys)
  PROVE  k \in Listing(o).keys
<1>1. k \in Present /\ k \in Keys
  BY DEF Present
<1>2. CASE Is("webdav")
  BY <1>1, <1>2, ListingAnswers DEF Says
<1>3. CASE ~Is("webdav")
  <2>1. /\ Listing(o).keys = Page(o.token)
        /\ Listing(o).more <=> After(o.token) # Page(o.token)
    BY <1>3, ListingAnswers DEF Says
  <2>2. k \in After(o.token)
    BY <1>1 DEF After
  <2>3. CASE Listing(o).more
    <3>1. /\ Page(o.token) \in SUBSET Keys /\ Page(o.token) # {}
          /\ \A j \in Page(o.token), i \in After(o.token) : i <= j => i \in Page(o.token)
      BY <2>1, <2>3, PageFirst
    <3>2. Max(Page(o.token)) \in Page(o.token)
      BY <3>1, GreatestKey
    <3> QED
      BY <2>1, <2>2, <2>3, <3>1, <3>2
  <2>4. CASE ~Listing(o).more
    BY <2>1, <2>2, <2>4
  <2> QED
    BY <2>3, <2>4
<1> QED
  BY <1>2, <1>3

LEMMA ServedOwes ==
  ASSUME Types, Spares, NEW c \in Clients, Owes(op[c]), op[c].at = "send", NEW heard,
         Served(c, heard), backend' = backend, ~Is("local"),
         op[c].kind = "list" /\ ReadPage(heard) = Done
           => /\ heard.keys = Listing(op[c]).keys
              /\ heard.more <=> Listing(op[c]).more
  PROVE  Owes(op[c])'
<1> DEFINE o == op[c]
           n == op'[c]
<1>1. /\ n.kind = o.kind /\ n.at = "answered" /\ n.reply = heard /\ n.listed = o.listed
      /\ n.token = o.token /\ n.bare = o.bare /\ n.firm \subseteq o.firm
      /\ \A k \in n.firm : k \in Present => k \in Present'
  BY DEF Served, SameRequest, Spares
<1>2. CASE o.kind # "list"
  BY <1>1, <1>2, NotAListing
<1>3. CASE o.kind = "list"
  <2>1. Running(o) /\ o.token \in Keys \cup {0}
    BY <1>3 DEF Owes, Types, Operation
  <2> HIDE DEF n
  <2>2. n.firm \subseteq Present' /\ Owed(n) \subseteq Owed(o)
    BY <1>1, <2>1 DEF Running, Owed, LeftOut
  <2>3. \A k \in Owed(n) : k <= n.token => k \in n.listed
    BY <1>1, <2>1, <2>2 DEF Running
  <2>4. ReadPage(n.reply) = Done => Paged(n)
    <3>1. SUFFICES ASSUME ReadPage(heard) = Done, NEW k \in Owed(n), k > n.token,
                          heard.more => k <= Max(heard.keys)
                   PROVE  k \in heard.keys
      BY <1>1 DEF Paged
    <3>2. k \in o.firm /\ o.firm \subseteq Present
      BY <2>1, <2>2 DEF Owed, Running
    <3> QED
      BY <1>1, <1>3, <2>1, <3>1, <3>2, ListingPaged
  <2> QED
    BY <1>1, <2>2, <2>3, <2>4, OwesShown DEF n
<1> QED
  BY <1>2, <1>3

LEMMA NetworkOwes ==
  ASSUME Types, Listings, NEW c \in Clients, Exchange(c) \/ Mishap(c)
  PROVE  Listings'
<1>1. op[c].at = "send" /\ backend' = backend /\ ~Is("local") /\ Owes(op[c])
  BY DEF Exchange, Mishap, Listings
<1>2. ASSUME NEW heard, Served(c, heard), Spares,
             op[c].kind = "list" /\ ReadPage(heard) = Done
               => /\ heard.keys = Listing(op[c]).keys
                  /\ heard.more <=> Listing(op[c]).more
      PROVE  Listings'
  <2>1. Owes(op[c])'
    BY <1>1, <1>2, ServedOwes
  <2>2. \A d \in Clients \ {c} : SameBut(op'[d], op[d])
    BY <1>2 DEF Served
  <2> QED
    BY <1>1, <1>2, <2>1, <2>2, ListingsKept
<1>3. ASSUME NEW r, NEW heard, Serve(c, r, heard), Answer(op[c], heard),
             op[c].kind = "list" /\ ReadPage(heard) = Done
               => heard.keys = r.keys /\ (heard.more <=> r.more)
      PROVE  Listings'
  <2>1. Settles(c, r) /\ Served(c, heard) /\ Spares
    BY <1>1, <1>3, ServeAnswers, ServeShape, ServeSpares
  <2>2. op[c].kind = "list" => r = Listing(op[c])
    BY <2>1 DEF Settles
  <2> QED
    BY <1>2, <1>3, <2>1, <2>2
<1>4. CASE Exchange(c)
  <2>1. PICK r \in Replies(c) : Serve(c, r, r)
    BY <1>4 DEF Exchange
  <2>2. Answer(op[c], r)
    BY <1>1, <2>1, ServeAnswers
  <2> QED
    BY <1>3, <2>1, <2>2
<1>5. \A status \in {0, 403, 500} : ReadPage(Code(status)) # Done
  <2>1. ASSUME NEW status \in {0, 403, 500}
        PROVE  ReadPage(Code(status)) = Error
    <3>1. Code(status).status = status
      BY CodeSays, SuccessCodes DEF Says, Tells
    <3> QED
      BY <3>1, SuccessCodes DEF ReadPage
  <2> QED
    BY <2>1, OutcomeAssumption
<1>6. CASE Mishap(c)
  <2>1. MishapCases(c)
    BY <1>6, MishapSplit
  <2>2. ASSUME NEW status \in {0, 500, 403}, op' = Heard(c, Code(status)), UNCHANGED <<objs, version>>
        PROVE  Listings'
    <3> DEFINE r == Code(status)
    <3>1. Answer(op[c], r) /\ ReadPage(r) # Done
      BY <1>5, FailureSays, SuccessCodes
    <3> HIDE DEF r
    <3>2. /\ \A d \in Clients \ {c} : Heard(c, r)[d] = op[d]
          /\ SameRequest(Heard(c, r)[c], op[c])
          /\ Heard(c, r)[c].at = "answered" /\ Heard(c, r)[c].reply = r
          /\ Heard(c, r)[c].firm = op[c].firm
      BY <1>1, <3>1, HeardTyped
    <3>3. op' = Heard(c, r)
      BY <2>2 DEF r
    <3>4. Served(c, r)
      BY <3>2, <3>3 DEF Served, SameBut, SameRequest
    <3>5. Spares
      BY <2>2, <3>4, NothingGone DEF Served
    <3> QED
      BY <1>2, <3>1, <3>4, <3>5
  <2>3. ASSUME NEW r, NEW heard \in {Code(0), Code(500)} \cup Untagged(r), Serve(c, r, heard)
        PROVE  Listings'
    <3>1. Answer(op[c], r) /\ Answer(op[c], heard)
      BY <1>1, <2>3, ServeAnswers, MishapAnswers
    <3>2. \A n \in Untagged(r) : n.keys = r.keys /\ (n.more <=> r.more)
      BY <3>1, UntaggedShape
    <3>3. ReadPage(heard) = Done => heard.keys = r.keys /\ (heard.more <=> r.more)
      BY <1>5, <2>3, <3>2
    <3> QED
      BY <1>3, <2>3, <3>1, <3>3
  <2> QED
    BY <2>1, <2>2, <2>3 DEF MishapCases
<1> QED
  BY <1>4, <1>6

(* A step of c alone that leaves the objects as they are. *)
LEMMA OwnStep ==
  ASSUME Listings, NEW c \in Clients, \A d \in Clients \ {c} : op'[d] = op[d],
         UNCHANGED <<backend, objs>>, Owes(op[c])'
  PROVE  Listings'
<1>1. \A d \in Clients \ {c} : SameBut(op'[d], op[d]) /\ op'[d].firm = op[d].firm
  BY DEF SameBut, SameRequest
<1>2. \A d \in Clients \ {c} : Owes(op[d])'
  <2>1. ASSUME NEW d \in Clients \ {c}
        PROVE  Owes(op[d])'
    BY DEF Listings, Owes, Running, Paged, Owed, LeftOut, ValidKey, Present, Is, ReadPage, Success
  <2> QED
    BY <2>1
<1> QED
  BY <1>2 DEF Listings

(* An operation that ends in anything but a full listing. *)
LEMMA EndOwes ==
  ASSUME Types, Listings, NEW c \in Clients, NEW out \in Outcome, End(c, out),
         op[c].kind # "none", UNCHANGED <<backend, objs>>,
         out = Written => op[c].kind = "put" /\ (Is("webdav") => op[c].reply.obj # Absent
                                                  /\ op[c].reply.obj.tag # NoTag),
         op[c].kind = "list" /\ out = Done => Owed(op[c]) \subseteq op[c].listed
  PROVE  Listings'
<1>1. /\ \A d \in Clients \ {c} : op'[d] = op[d]
      /\ SameRequest(op'[c], op[c]) /\ op'[c].at = "ended" /\ op'[c].out = out
      /\ op'[c].firm = op[c].firm
  BY EndTyped
<1>2. Owes(op[c])'
  <2> DEFINE n == op'[c]
  <2>1. /\ n.kind = op[c].kind /\ n.at = "ended" /\ n.out = out /\ n.listed = op[c].listed
        /\ Owed(n) = Owed(op[c])
    BY <1>1 DEF SameRequest, Owed, LeftOut
  <2> HIDE DEF n
  <2> QED
    BY <2>1, OwesShown DEF n
<1> QED
  BY <1>1, <1>2, OwnStep

LEMMA CallOwes ==
  ASSUME Types, Listings, NEW c \in Clients, Call(c)
  PROVE  Listings'
<1> DEFINE n == op'[c]
<1>1. /\ Types' /\ \A d \in Clients \ {c} : op'[d] = op[d]
      /\ n.at \in {"mkcol", "send"}
      /\ n.kind = "list"
           => /\ n.firm = Present /\ n.listed = {} /\ n.token = 0
              /\ Is("local") => n.left = {k \in Present : ValidKey(k)}
  BY CallTyped
<1>2. UNCHANGED <<backend, objs>> /\ Present' = Present
  BY DEF Call, Present
<1>3. n.kind = "list" => n.at = "send"
  BY <1>1 DEF Types, Fitting, Success
<1>4. \A k \in Keys : ~(k <= 0)
  BY StorageAssumption DEF Keys
<1> HIDE DEF n
<1>5. Owes(op[c])'
  <2>1. n.kind = "list" => Owed(n) \subseteq {k \in Present : ValidKey(k)}
    BY <1>1 DEF Owed
  <2>2. Present \subseteq Keys
    BY DEF Present
  <2> QED
    BY <1>1, <1>2, <1>3, <1>4, <2>1, <2>2, OwesShown DEF n
<1> QED
  BY <1>1, <1>2, <1>5, OwnStep

LEMMA ReceiveOwes ==
  ASSUME Types, Listings, NEW c \in Clients, Receive(c)
  PROVE  Listings'
<1> DEFINE o == op[c]
           n == op'[c]
<1>1. o.at = "answered" /\ UNCHANGED <<backend, objs>> /\ Owes(o)
  BY DEF Receive, Listings
<1>2. o \in Operation /\ Fitting(o) /\ o.kind # "none"
  BY <1>1 DEF Types, Fitting
<1>3. CASE End(c, Reading(o.kind, o.reply)) /\ (o.kind # "list" \/ ReadPage(o.reply) = Error)
  <2> DEFINE out == Reading(o.kind, o.reply)
  <2>1. /\ out \in Outcome
        /\ out = Written => op[c].kind = "put" /\ (Is("webdav") => op[c].reply.obj # Absent
                                                     /\ op[c].reply.obj.tag # NoTag)
    BY <1>2, ReadingSays
  <2>2. ~(o.kind = "list" /\ out = Done)
    BY <1>3, OutcomeAssumption DEF Reading
  <2> HIDE DEF out
  <2>3. End(c, out)
    BY <1>3 DEF out
  <2> QED
    BY <1>1, <1>2, <2>1, <2>2, <2>3, EndOwes
<1>4. CASE o.kind = "list" /\ ReadPage(o.reply) # Error /\ TakesPage(c)
  <2>1. Running(o) /\ Paged(o) /\ ~Is("local")
    BY <1>1, <1>4 DEF Owes, Running, ReadPage
  <2> DEFINE mine == IF Is("webdav") THEN DavNames(o.reply) ELSE S3Names(o.reply)
  <2>2. /\ \A d \in Clients \ {c} : op'[d] = op[d]
        /\ n.kind = "list" /\ n.firm = o.firm /\ n.listed = o.listed \cup mine
        /\ n.bare = o.bare \cup o.reply.bare
        /\ o.reply.more => n.at = "send" /\ n.token = Max(o.reply.keys)
        /\ ~o.reply.more => n.at = "ended" /\ n.out = Done
    BY <1>1, <1>4, PageTaken
  <2>3. \A k \in o.reply.keys : ValidKey(k) /\ k \notin LeftOut(n) => k \in mine
    BY <2>2 DEF DavNames, S3Names, LeftOut
  <2> HIDE DEF n, mine
  <2>4. ASSUME NEW k \in Owed(n), o.reply.more => k <= Max(o.reply.keys)
        PROVE  k \in n.listed
    <3>1. k \in Nat /\ o.token \in Nat
      BY <1>2, <2>2, StorageAssumption DEF Operation, Owed, Keys
    <3>4. ValidKey(k) /\ k \notin LeftOut(n) /\ k \in Owed(o)
      BY <2>2 DEF Owed, LeftOut
    <3>2. CASE k <= o.token
      BY <2>1, <2>2, <3>2, <3>4 DEF Running
    <3>3. CASE k > o.token
      BY <2>1, <2>2, <2>3, <2>4, <3>1, <3>3, <3>4 DEF Paged
    <3> QED
      BY <3>1, <3>2, <3>3
  <2>5. Owed(n) \subseteq Owed(o) /\ n.firm \subseteq Present /\ Present' = Present
    BY <1>1, <2>1, <2>2 DEF Owed, LeftOut, Running, Present
  <2>6. Owes(op[c])'
    <3>1. CASE o.reply.more
      BY <1>1, <2>1, <2>2, <2>4, <2>5, <3>1, OwesShown DEF n
    <3>2. CASE ~o.reply.more
      BY <1>1, <2>2, <2>4, <2>5, <3>2, OwesShown DEF n
    <3> QED
      BY <3>1, <3>2
  <2> QED
    BY <1>1, <2>2, <2>6, OwnStep
<1> QED
  BY <1>3, <1>4 DEF Receive, TakesPage

LEMMA LocalListOwes ==
  ASSUME Types, Listings, NEW c \in Clients, LocalList(c)
  PROVE  Listings'
<1> DEFINE o == op[c]
           n == op'[c]
<1>1. /\ Is("local") /\ o.at = "send" /\ o.kind = "list" /\ UNCHANGED <<backend, objs>>
      /\ Owes(o)
  BY DEF LocalList, Listings
<1>2. Running(o)
  BY <1>1 DEF Owes
<1>3. CASE o.left = {} /\ End(c, Done)
  <2>1. Owed(o) \subseteq o.listed
    BY <1>1, <1>2, <1>3 DEF Running
  <2>2. Done \in Outcome /\ Done # Written
    BY OutcomeAssumption DEF Outcome
  <2> QED
    BY <1>1, <1>3, <2>1, <2>2, EndOwes
<1>4. CASE End(c, Error)
  BY <1>1, <1>4, EndOwes, OutcomeAssumption DEF Outcome
<1>5. ASSUME NEW k \in o.left, op' = [op EXCEPT ![c].left = @ \ {k}, ![c].listed = @ \cup {k}]
      PROVE  Listings'
  <2>1. /\ \A d \in Clients \ {c} : op'[d] = op[d]
        /\ n.kind = "list" /\ n.at = "send" /\ n.firm = o.firm
        /\ n.listed = o.listed \cup {k} /\ n.left = o.left \ {k} /\ n.bare = o.bare
    BY <1>1, <1>5, EntryRead
  <2> HIDE DEF n
  <2>2. /\ n.firm \subseteq Present /\ Present' = Present
        /\ Owed(n) \subseteq n.listed \cup n.left
    BY <1>1, <1>2, <2>1 DEF Running, Owed, LeftOut, Present
  <2>3. Owes(op[c])'
    BY <1>1, <2>1, <2>2, OwesShown DEF n
  <2> QED
    BY <1>1, <2>1, <2>3, OwnStep
<1> QED
  BY <1>3, <1>4, <1>5 DEF LocalList

(* The other operations owe no listing. *)
LEMMA OthersOwe ==
  ASSUME Types, Types', OnlyLocal, Listings, NEW c \in Clients,
         \/ MakeCollection(c) \/ Return(c) \/ LocalFails(c) \/ LocalRead(c) \/ LocalCompare(c)
         \/ LocalRename(c) \/ LocalRemove(c)
  PROVE  Listings'
<1>1. op[c] \in Operation /\ Fitting(op[c])
  BY DEF Types
<1>2. ASSUME End(c, Error), op[c].at # "idle", UNCHANGED <<backend, objs>>
      PROVE  Listings'
  <2>1. op[c].kind # "none" /\ Error \in Outcome /\ Error \notin {Written, Done}
    BY <1>1, <1>2, OutcomeAssumption DEF Fitting, Outcome
  <2> QED
    BY <1>2, <2>1, EndOwes
<1>3. ASSUME NEW at, op' = [op EXCEPT ![c].at = at], op[c].kind = "put", UNCHANGED <<backend, objs>>
      PROVE  Listings'
  <2>1. /\ \A d \in Clients \ {c} : op'[d] = op[d]
        /\ op'[c].kind = "put"
    BY <1>1, <1>3 DEF Types, Operation
  <2> QED
    BY <1>3, <2>1, NotAListing, OwnStep
<1>4. CASE MakeCollection(c)
  BY <1>1, <1>2, <1>3, <1>4 DEF MakeCollection, Fitting
<1>5. CASE Return(c)
  <2>1. op'[c] = Idle /\ \A d \in Clients \ {c} : op'[d] = op[d]
    BY <1>5, IdleFits, OneOp DEF Return
  <2>2. Owes(op[c])'
    BY <2>1, NotAListing DEF Idle
  <2> QED
    BY <1>5, <2>1, <2>2, OwnStep DEF Return
<1>6. CASE LocalFails(c)
  BY <1>2, <1>6 DEF LocalFails
<1>7. CASE LocalRead(c)
  <2> DEFINE out == objs[op[c].key]
  <2>1. op[c].at = "send" /\ op[c].kind \in {"get", "etag"} /\ UNCHANGED <<backend, objs>>
    BY <1>7 DEF LocalRead
  <2>2. out \in Outcome /\ out # Written
    BY <2>1, SendTyped, OutcomeAssumption DEF Outcome, Object
  <2>3. End(c, out)
    BY <1>7 DEF LocalRead
  <2> HIDE DEF out
  <2> QED
    BY <2>1, <2>2, <2>3, EndOwes
<1>8. CASE LocalCompare(c)
  <2>1. op[c].kind = "put" /\ UNCHANGED <<backend, objs>>
    BY <1>8 DEF LocalCompare
  <2>2. CASE End(c, Conflict)
    <3>1. Conflict \in Outcome /\ Conflict # Written
      BY OutcomeAssumption DEF Outcome
    <3> QED
      BY <2>1, <2>2, <3>1, EndOwes
  <2> QED
    BY <1>3, <1>8, <2>1, <2>2 DEF LocalCompare
<1>9. CASE LocalRename(c)
  <2>1. op[c].at = "rename" /\ End(c, Written) /\ backend' = backend /\ objs' = Stored(c)
    BY <1>9 DEF LocalRename
  <2>2. op[c].kind = "put" /\ ~Is("webdav") /\ Written \in Outcome
    BY <1>1, <2>1 DEF Fitting, OnlyLocal, Is, Outcome
  <2>3. /\ \A d \in Clients \ {c} : op'[d] = op[d]
        /\ SameRequest(op'[c], op[c]) /\ op'[c].firm = op[c].firm
    BY <2>1, <2>2, EndTyped
  <2>4. op[c].key \in Keys /\ Stored(c)[op[c].key] \in Object
    BY <1>1, <2>2, StoredTyped DEF Fitting
  <2> DEFINE obj == [data |-> op[c].data, tag |-> TagOf(op[c].data)]
  <2>5. obj \in Object /\ objs' = [objs EXCEPT ![op[c].key] = obj]
    BY <2>1, <2>4 DEF Stored, Types
  <2> HIDE DEF obj
  <2>6. Spares
    BY <2>3, <2>4, <2>5, PutSpares DEF Types
  <2>7. \A d \in Clients \ {c} : SameBut(op'[d], op[d])
    BY <2>3 DEF SameBut, SameRequest
  <2>8. Owes(op[c])'
    BY <2>2, <2>3, NotAListing DEF SameRequest
  <2> QED
    BY <2>1, <2>6, <2>7, <2>8, ListingsKept
<1>10. CASE LocalRemove(c)
  <2>1. /\ op[c].at = "send" /\ op[c].kind = "delete" /\ backend' = backend
        /\ objs' = [objs EXCEPT ![op[c].key] = Absent]
    BY <1>10 DEF LocalRemove
  <2>2. /\ \A d \in Clients \ {c} : SameBut(op'[d], op[d])
        /\ SameRequest(op'[c], op[c])
        /\ \A d \in Clients : op'[d].firm = op[d].firm \ {op[c].key}
    BY <1>10, LocalRemoveTyped
  <2>3. op[c].key \in Keys
    BY <2>1, SendTyped
  <2>4. Spares
    BY <2>1, <2>2, <2>3, DeleteSpares DEF Types
  <2>5. Owes(op[c])'
    BY <2>1, <2>2, NotAListing DEF SameRequest
  <2> QED
    BY <2>1, <2>2, <2>4, <2>5, ListingsKept
<1> QED
  BY <1>4, <1>5, <1>6, <1>7, <1>8, <1>9, <1>10

LEMMA ListingsStep ==
  ASSUME Inv, Inv', Listings, [Next]_vars
  PROVE  Listings'
<1>1. ASSUME NEW c \in Clients, Call(c) \/ Proceed(c)
      PROVE  Listings'
  BY <1>1, CallOwes, NetworkOwes, ReceiveOwes, LocalListOwes, OthersOwe DEF Proceed, Inv
<1>2. CASE UNCHANGED vars
  BY <1>2 DEF vars, Listings, Owes, Running, Paged, Owed, LeftOut, ValidKey, Present, Is, ReadPage, Success
<1> QED
  BY <1>1, <1>2 DEF Next

(* A listing that succeeds names every object of ours that was there from its first  *)
(* page to its last: the entries of a directory read one by one, a multistatus, or   *)
(* the pages of ListObjectsV2 and the token between them, while other devices write. *)
THEOREM ListingsComplete == Spec => []ListingComplete
<1>1. Init => Listings
  BY DEF Init, Idle, Listings, Owes
<1>2. Inv /\ Inv' /\ Listings /\ [Next]_vars => Listings'
  BY ListingsStep
<1>3. Listings => ListingComplete
  BY DEF Listings, Owes, ListingComplete, Listed, Owed
<1> QED
  BY <1>1, <1>2, <1>3, Invariance, PTL DEF Spec

(* Types: no WebDAV server ever gives out more tags than there are operations.       *)
THEOREM StorageTypes == Spec => []TypeOK
<1>1. Inv => TypeOK
  <2> SUFFICES ASSUME Inv PROVE TypeOK
    OBVIOUS
  <2>1. Types
    BY DEF Inv
  <2>2. version \in 1..(MaxCalls + 2)
    BY <2>1, PendingCount, StorageAssumption DEF Types
  <2>3. \A c \in Clients : op[c] \in Operation
    BY <2>1 DEF Types
  <2> QED
    BY <2>1, <2>2, <2>3 DEF Types, TypeOK, Operation, Outcome
<1> QED
  BY <1>1, Invariance, PTL
=============================================================================
