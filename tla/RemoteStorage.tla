----------------------------- MODULE RemoteStorage -----------------------------
(***************************************************************************)
(* The three backends behind `trait StorageBackend` (lk-core/src/          *)
(* storage.rs): a directory, a WebDAV collection and an S3 bucket, each    *)
(* used by several devices at once over a network that loses requests and  *)
(* replies.  Keys are numbers, in the order S3 lists them.  The server is  *)
(* the one the module's own tests run against (mod mock_http), with the    *)
(* failures of a real one added.                                           *)
(***************************************************************************)
EXTENDS Naturals, FiniteSets, FiniteSetsExt

CONSTANTS
  Clients, Blobs,
  MaxKey,        \* object keys 1..MaxKey
  Foreign,       \* keys that are not object names of ours (valid_key is false)
  Backends,      \* the kinds of URL configured
  Shared,        \* may two devices write to a file:// directory at once?
  PathStyle,     \* S3: the bucket is in the path, not in the host name
  Prefixed,      \* S3: the URL has a prefix
  PageSize,      \* keys in one ListObjectsV2 page
  MaxCalls,      \* bound: operations begun
  MaxFaults,     \* bound: failed exchanges
  Absent, NoTag, NoBlob, NoKey, Written, Conflict, Done, Error

ASSUME StorageAssumption ==
  /\ MaxKey \in Nat \ {0} /\ PageSize \in Nat \ {0}
  /\ Foreign \subseteq 1..MaxKey
  /\ {Shared, PathStyle, Prefixed} \subseteq BOOLEAN
  /\ MaxCalls \in Nat /\ MaxFaults \in Nat
  /\ Backends \subseteq {"local", "webdav", "s3"}
  /\ IsFiniteSet(Clients)

Keys     == 1..MaxKey
Versions == 1..(MaxCalls + 1)
Tags     == Versions \cup Blobs
Object   == [data : Blobs, tag : Tags]

(* What stands for nothing, and the outcomes, cannot be confused with anything.   *)
ASSUME OutcomeAssumption ==
  /\ NoTag \notin Tags /\ NoBlob \notin Blobs /\ NoKey \notin Keys
  /\ \A out \in {Absent, Written, Conflict, Done, Error} :
        out \notin [data : Blobs, tag : Tags \cup {NoTag}]
  /\ Absent \notin {Written, Conflict, Done, Error}
  /\ Written \notin {Conflict, Done, Error}
  /\ Conflict \notin {Done, Error} /\ Done # Error

VARIABLES
  backend,   \* the kind that backend_from_url chose
  objs,      \* what the server or the directory holds
  op,        \* the operation each client is in
  version,   \* the next tag a WebDAV server gives out
  calls, faults

vars == <<backend, objs, op, version, calls, faults>>

(* What came back: an HTTP status (0: no reply), an object, which may have lost its *)
(* tag, a page of keys, of which the server named some (bare) without a tag.        *)
Reply   == [status : Nat, obj : [data : Blobs, tag : Tags \cup {NoTag}] \cup {Absent},
            keys : SUBSET Keys, bare : SUBSET Keys, more : BOOLEAN]
NoReply == [status |-> 0, obj |-> Absent, keys |-> {}, bare |-> {}, more |-> FALSE]

(* at: idle, mkcol (WebDAV, before a put), send, answered, rename (directory,     *)
(* after the comparison), ended.  token: the continuation token; left: directory  *)
(* entries still to read; firm: keys that have been there ever since; bare: keys   *)
(* that came without a tag (both history).                                        *)
Idle == [kind |-> "none", key |-> NoKey, exp |-> NoTag, data |-> NoBlob, at |-> "idle",
         reply |-> NoReply, out |-> Error, tag |-> NoTag,
         listed |-> {}, token |-> 0, left |-> {}, firm |-> {}, bare |-> {}]

Is(kind)   == backend = kind
Present    == {k \in Keys : objs[k] # Absent}
ValidKey(k) == k \notin Foreign

(* Tags are digests of the content, or numbers a WebDAV server counts.            *)
TagOf(data) == IF Is("webdav") THEN version ELSE data
KnownTags   == IF Is("webdav") THEN 1..(version - 1) ELSE Blobs

Init ==
    /\ backend \in Backends
    /\ \E there \in SUBSET Keys, data \in Blobs :
          /\ Foreign \subseteq there
          /\ objs = [k \in Keys |->
                       IF k \notin there THEN Absent
                       ELSE [data |-> data, tag |-> IF Is("webdav") THEN 1 ELSE data]]
    /\ op = [c \in Clients |-> Idle]
    /\ version = 2
    /\ calls = 0 /\ faults = 0

-----------------------------------------------------------------------------
(* The client's reading of a reply: Absent, an object, or one of the outcomes.    *)

Success(status) == status \in 200..299

(* `get` and `etag`: an object without a tag cannot be compared and set later.    *)
DavGet(r) ==
    IF r.status = 404 THEN Absent
    ELSE IF ~ Success(r.status) \/ r.obj.tag = NoTag THEN Error
    ELSE r.obj

DavEtag(r) ==
    IF r.status = 404 THEN Absent
    ELSE IF ~ Success(r.status) THEN Error
    ELSE IF r.obj.tag = NoTag THEN Absent
    ELSE r.obj

(* Mutated form: the status of a put is only looked at for 412.                       *)
TrustingDavPut(r) == IF r.status = 412 THEN Conflict ELSE Written

DavPut(r) ==
    IF r.status = 412 THEN Conflict
    ELSE IF ~ Success(r.status) \/ r.obj.tag = NoTag THEN Error
    ELSE Written

DavDelete(r) == IF r.status = 404 \/ Success(r.status) THEN Done ELSE Error

S3Get(r) ==
    IF r.status = 404 THEN Absent
    ELSE IF r.status # 200 \/ r.obj.tag = NoTag THEN Error
    ELSE r.obj

S3Etag(r) ==
    IF r.status = 404 \/ (r.status = 200 /\ r.obj.tag = NoTag) THEN Absent
    ELSE IF r.status # 200 THEN Error
    ELSE r.obj

S3Put(r) ==
    IF r.status \in {200, 201} THEN Written
    ELSE IF r.status = 412 THEN Conflict
    ELSE Error

S3Delete(r) == IF r.status \in {204, 404} THEN Done ELSE Error

(* A page or a multistatus; a collection that is not there lists nothing.         *)
ReadPage(r) ==
    IF Success(r.status) \/ (r.status = 404 /\ Is("webdav")) THEN Done ELSE Error

Reading(kind, r) ==
    CASE kind = "get"    -> IF Is("webdav") THEN DavGet(r) ELSE S3Get(r)
      [] kind = "etag"   -> IF Is("webdav") THEN DavEtag(r) ELSE S3Etag(r)
      [] kind = "put"    -> IF Is("webdav") THEN DavPut(r) ELSE S3Put(r)
      [] kind = "delete" -> IF Is("webdav") THEN DavDelete(r) ELSE S3Delete(r)
      [] kind = "list"   -> ReadPage(r)
      [] OTHER           -> Error

(* The tag of PutOutcome::Written: the server's, except that S3Backend hands an   *)
(* overwriting caller its own expectation back.                                   *)
S3WrittenTag(o) == IF o.exp = NoTag THEN o.data ELSE o.exp
WrittenTag(o)   == IF Is("webdav") THEN o.reply.obj.tag
                   ELSE IF Is("s3") THEN S3WrittenTag(o) ELSE o.data

-----------------------------------------------------------------------------
(* The server's side (mock_http, and what a real one may add).                    *)

(* If-Match and If-None-Match: * as the servers evaluate them, and as the caller  *)
(* of put asked for them.                                                         *)
Condition(o)    == IF o.exp = NoTag THEN [header |-> "If-None-Match", tag |-> NoTag]
                                    ELSE [header |-> "If-Match", tag |-> o.exp]
Holds(cond, obj) == IF cond.header = "If-None-Match" THEN obj = Absent
                                                     ELSE obj # Absent /\ obj.tag = cond.tag

(* SigV4 covers the path and the time.  The time is read once for the headers     *)
(* that are signed and again for the signature and the header that is sent.       *)
SignedPath(k) == [bucket |-> PathStyle, prefix |-> Prefixed /\ k # NoKey,
                  key |-> k]
UrlPath(k)    == [bucket |-> PathStyle, prefix |-> Prefixed /\ k # NoKey,
                  key |-> k]
Accepted(k, ticked) == Is("s3") => SignedPath(k) = UrlPath(k) /\ ~ ticked

(* One page: the keys after the token, in order, as many as a page holds.         *)
After(token)    == {k \in Present : k > token}
Page(token)     == {k \in After(token) :
                      Cardinality({j \in After(token) : j <= k}) <= PageSize}

Ok(obj)  == [NoReply EXCEPT !.status = 200, !.obj = obj]
Code(n)  == [NoReply EXCEPT !.status = n]

(* PROPFIND answers with the whole collection at once, ListObjectsV2 by pages.    *)
Listing(o) ==
    IF Is("webdav")
    THEN IF Present = {} THEN Code(404)
         ELSE [Code(207) EXCEPT !.keys = Present]
    ELSE [Code(200) EXCEPT !.keys = Page(o.token),
                           !.more = After(o.token) # Page(o.token)]

(* An object that goes is no longer one a listing owes its caller.                *)
Forget(ops, k) == [d \in Clients |-> [ops[d] EXCEPT !.firm = @ \ {k}]]

Stored(c) == LET o == op[c] IN
    [objs EXCEPT ![o.key] = [data |-> o.data, tag |-> TagOf(o.data)]]

(* The request is carried out and answered with r, of which the client hears less *)
(* when the network is bad.                                                       *)
Heard(c, reply) == [op EXCEPT ![c].at = "answered", ![c].reply = reply]

ServeRead(c, r, heard) ==
    LET obj == objs[op[c].key] IN
    /\ op[c].kind \in {"get", "etag"}
    /\ r = IF obj = Absent THEN Code(404) ELSE Ok(obj)
    /\ op' = Heard(c, heard)
    /\ UNCHANGED <<objs, version>>

ServePut(c, r, heard) ==
    /\ op[c].kind = "put"
    /\ op' = Heard(c, heard)
    /\ \/ /\ Holds(Condition(op[c]), objs[op[c].key])
          /\ r = Ok(Stored(c)[op[c].key])
          /\ objs' = Stored(c)
          /\ version' = IF Is("webdav") THEN version + 1 ELSE version
       \/ /\ ~ Holds(Condition(op[c]), objs[op[c].key])
          /\ r = Code(412)
          /\ UNCHANGED <<objs, version>>

ServeDelete(c, r, heard) ==
    /\ op[c].kind = "delete"
    /\ r = IF objs[op[c].key] = Absent THEN Code(404) ELSE Code(204)
    /\ objs' = [objs EXCEPT ![op[c].key] = Absent]
    /\ op' = Forget(Heard(c, heard), op[c].key)
    /\ UNCHANGED version

ServeList(c, r, heard) ==
    /\ op[c].kind = "list"
    /\ r = Listing(op[c])
    /\ op' = Heard(c, heard)
    /\ UNCHANGED <<objs, version>>

Serve(c, r, heard) == \/ ServeRead(c, r, heard) \/ ServePut(c, r, heard)
                      \/ ServeDelete(c, r, heard) \/ ServeList(c, r, heard)

(* The replies a server can give to c's request.                                  *)
Replies(c) ==
    LET o == op[c] IN
    IF o.kind = "list" THEN {Listing(o)}
    ELSE {Code(404), Code(204), Code(412)}
           \cup {Ok(obj) : obj \in ({objs[o.key]} \cup IF o.kind = "put" THEN {Stored(c)[o.key]}
                                                       ELSE {}) \ {Absent}}

(* r from a server that gives no tag, in the header or in entries of a listing.   *)
Untagged(r) ==
    IF r.obj = Absent THEN {[r EXCEPT !.bare = bare] : bare \in SUBSET r.keys}
                      ELSE {[r EXCEPT !.obj.tag = NoTag]}

-----------------------------------------------------------------------------
(* The clients.                                                                   *)

Call(c) ==
    /\ op[c].at = "idle" /\ calls < MaxCalls
    /\ \E kind \in {"get", "etag", "put", "delete", "list"}, key \in Keys \cup {NoKey},
          exp \in KnownTags \cup {NoTag}, data \in Blobs \cup {NoBlob} :
          /\ (kind = "list") = (key = NoKey)
          /\ kind # "list" => ValidKey(key)              \* path()
          /\ (kind = "put") = (data # NoBlob)
          /\ kind # "put" => exp = NoTag
          /\ Is("local") /\ ~ Shared /\ kind \in {"put", "delete"}
               => \A d \in Clients : op[d].kind \notin {"put", "delete"}
          /\ op' = [op EXCEPT ![c] =
                      [Idle EXCEPT !.kind = kind, !.key = key, !.exp = exp, !.data = data,
                                   !.at = IF Is("webdav") /\ kind = "put" THEN "mkcol" ELSE "send",
                                   !.firm = IF kind = "list" THEN Present ELSE {},
                                   !.left = IF kind = "list" /\ Is("local")
                                            THEN {k \in Present : ValidKey(k)} ELSE {}]]
    /\ calls' = calls + 1
    /\ UNCHANGED <<backend, objs, version, faults>>

End(c, out) ==
    op' = [op EXCEPT ![c].at = "ended", ![c].out = out, ![c].reply = NoReply,
                     ![c].tag = IF out = Written THEN WrittenTag(op[c]) ELSE NoTag]

(* ensure_collection: a collection that exists answers 405, and that will do.     *)
MakeCollection(c) ==
    /\ op[c].at = "mkcol"
    /\ \/ op' = [op EXCEPT ![c].at = "send"] /\ UNCHANGED faults
       \/ faults < MaxFaults /\ faults' = faults + 1 /\ End(c, Error)
    /\ UNCHANGED <<backend, objs, version, calls>>

(* An exchange that works.                                                        *)
Exchange(c) ==
    /\ op[c].at = "send" /\ ~ Is("local")
    /\ Accepted(op[c].key, FALSE)
    /\ \E r \in Replies(c) : Serve(c, r, r)
    /\ UNCHANGED <<backend, calls, faults>>

(* One that does not: refused before anything is done (no connection, a 5xx, a    *)
(* signature made of two readings of the clock), or done and its reply lost,      *)
(* turned into a 5xx, or stripped of its tag.                                     *)
Mishap(c) ==
    /\ op[c].at = "send" /\ ~ Is("local") /\ faults < MaxFaults
    /\ faults' = faults + 1
    /\ \/ /\ \E status \in {0, 500} \cup {s \in {403} : ~ Accepted(op[c].key, TRUE)} :
                op' = [op EXCEPT ![c].at = "answered", ![c].reply = Code(status)]
          /\ UNCHANGED <<objs, version>>
       \/ \E r \in Replies(c) : \E heard \in {Code(0), Code(500)} \cup Untagged(r) :
             Serve(c, r, heard)
    /\ UNCHANGED <<backend, calls>>

(* Mutated form: a token past the key that follows the page.                          *)
SkippingToken(r) == Max(r.keys) + 1

NextToken(r) == Max(r.keys)

(* parse_multistatus and parse_list_v2.  Only the former drops the names that are *)
(* not ours, which the engine drops otherwise, and the entries without a getetag. *)
DavNames(r) == {k \in r.keys \ r.bare : ValidKey(k)}
S3Names(r)  == r.keys

(* The reply is read; a listing takes its page and asks for the next.             *)
Receive(c) ==
    LET o == op[c]
        mine == IF Is("webdav") THEN DavNames(o.reply) ELSE S3Names(o.reply)
    IN
    /\ o.at = "answered"
    /\ IF o.kind # "list" \/ ReadPage(o.reply) = Error
       THEN End(c, Reading(o.kind, o.reply))
       ELSE op' = [op EXCEPT ![c].listed = o.listed \cup mine,
                             ![c].bare = o.bare \cup o.reply.bare,
                             ![c].reply = NoReply,
                             ![c].at = IF o.reply.more THEN "send" ELSE "ended",
                             ![c].out = IF o.reply.more THEN o.out ELSE Done,
                             ![c].token = IF o.reply.more THEN NextToken(o.reply) ELSE o.token]
    /\ UNCHANGED <<backend, objs, version, calls, faults>>

Return(c) ==
    /\ op[c].at = "ended"
    /\ op' = [op EXCEPT ![c] = Idle]
    /\ UNCHANGED <<backend, objs, version, calls, faults>>

-----------------------------------------------------------------------------
(* The directory.  Every call may meet an I/O error.                              *)

LocalFails(c) ==
    /\ Is("local") /\ op[c].at \in {"send", "rename"} /\ faults < MaxFaults
    /\ faults' = faults + 1
    /\ End(c, Error)
    /\ UNCHANGED <<backend, objs, version, calls>>

LocalRead(c) ==
    /\ Is("local") /\ op[c].at = "send" /\ op[c].kind \in {"get", "etag"}
    /\ End(c, objs[op[c].key])
    /\ UNCHANGED <<backend, objs, version, calls, faults>>

(* put compares, and in a second step renames the new file into place.            *)
LocalCompare(c) ==
    /\ Is("local") /\ op[c].at = "send" /\ op[c].kind = "put"
    /\ IF Holds(Condition(op[c]), objs[op[c].key])
       THEN op' = [op EXCEPT ![c].at = "rename"]
       ELSE End(c, Conflict)
    /\ UNCHANGED <<backend, objs, version, calls, faults>>

LocalRename(c) ==
    /\ op[c].at = "rename"
    /\ objs' = Stored(c)
    /\ End(c, Written)
    /\ UNCHANGED <<backend, version, calls, faults>>

LocalRemove(c) ==
    /\ Is("local") /\ op[c].at = "send" /\ op[c].kind = "delete"
    /\ objs' = [objs EXCEPT ![op[c].key] = Absent]
    /\ op' = Forget([op EXCEPT ![c].at = "ended", ![c].out = Done], op[c].key)
    /\ UNCHANGED <<backend, version, calls, faults>>

(* The entries are read one after the other, for their digests; one that has gone *)
(* in the meantime fails the whole listing.                                       *)
LocalList(c) ==
    /\ Is("local") /\ op[c].at = "send" /\ op[c].kind = "list"
    /\ \/ /\ op[c].left = {}
          /\ End(c, Done)
       \/ \E k \in op[c].left :
             IF objs[k] = Absent THEN End(c, Error)
             ELSE op' = [op EXCEPT ![c].left = @ \ {k}, ![c].listed = @ \cup {k}]
    /\ UNCHANGED <<backend, objs, version, calls, faults>>

-----------------------------------------------------------------------------
Proceed(c) ==
    \/ MakeCollection(c) \/ Exchange(c) \/ Mishap(c) \/ Receive(c) \/ Return(c)
    \/ LocalFails(c) \/ LocalRead(c) \/ LocalCompare(c) \/ LocalRename(c)
    \/ LocalRemove(c) \/ LocalList(c)

Next == \E c \in Clients : Call(c) \/ Proceed(c)

Spec == Init /\ [][Next]_vars

-----------------------------------------------------------------------------
(* Every operation on the remote takes effect at one instant and its outcome tells *)
(* which: `put` replaces only the object its caller named and never claims more,   *)
(* `get` and `etag` return what was there, an error promises nothing.  Two devices *)
(* that write the same object, a lost reply and a stripped tag included, can thus  *)
(* never both be told that they replaced the same version.                         *)
Settled(o) == IF o.at = "ended" THEN o.out
              ELSE IF o.kind = "list" /\ o.reply.more THEN Done
              ELSE Reading(o.kind, o.reply)

Stage(o) ==
    CASE o.at = "idle"                                     -> "idle"
      [] o.at \in {"mkcol", "send", "rename"}              -> "open"
      [] o.at \in {"answered", "ended"} /\ Settled(o) = Error -> "failed"
      [] o.at = "answered" /\ o.kind = "list" /\ o.reply.more -> "open"
      [] OTHER                                             -> "done"

Promise == INSTANCE ConditionalStore WITH
    NoOutcome <- Error,
    call <- [c \in Clients |->
               [kind |-> op[c].kind, key |-> op[c].key, exp |-> op[c].exp, data |-> op[c].data,
                st |-> Stage(op[c]),
                out |-> IF Stage(op[c]) = "done" THEN Settled(op[c]) ELSE Error]]

KeepsPromise == Promise!Spec

(* A listing that succeeds names every object of ours that was there from its      *)
(* first page to its last, whatever came and went in between: a device that misses *)
(* one in a rebuild of the index would take it for deleted.  What a listing may    *)
(* leave out is what a WebDAV server named without its tag, and nothing else: the  *)
(* pages of S3 and the entries of a directory are complete without tags too.       *)
Listed(o)   == o.kind = "list" /\ o.at = "ended" /\ o.out = Done
LeftOut(o)  == IF Is("webdav") THEN o.bare ELSE {}

ListingComplete ==
    \A c \in Clients :
       Listed(op[c])
         => {k \in op[c].firm : ValidKey(k)} \ LeftOut(op[c]) \subseteq op[c].listed

(* A server without ETags is a configuration error that fails loud                 *)
(* (storage.rs:284-285): no listing succeeds that lost an entry for want of a tag. *)
UntaggedFailsLoud ==
    \A c \in Clients : Listed(op[c]) => {k \in LeftOut(op[c]) : ValidKey(k)} = {}

(* PutOutcome::Written carries the new tag of the object (storage.rs:90).          *)
WrittenTagIsNew ==
    [][\A c \in Clients :
         op[c].at = "answered" /\ op'[c].at = "ended" /\ op'[c].out = Written
           => op'[c].tag = op[c].reply.obj.tag]_vars

TypeOK ==
    /\ backend \in Backends
    /\ objs \in [Keys -> Object \cup {Absent}]
    /\ \A c \in Clients :
          /\ op[c].at \in {"idle", "mkcol", "send", "answered", "rename", "ended"}
          /\ op[c].out \in Object \cup {Absent, Written, Conflict, Done, Error}
          /\ op[c].listed \subseteq Keys /\ op[c].left \subseteq Keys
    /\ version \in 1..(MaxCalls + 2) /\ calls \in 0..MaxCalls /\ faults \in 0..MaxFaults
=============================================================================
