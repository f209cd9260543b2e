---------------------------- MODULE ConditionalStore ----------------------------
(***************************************************************************)
(* What `trait StorageBackend` promises its callers, whatever the backend: *)
(* a shared map from object keys to tagged blobs on which each operation   *)
(* takes effect at one instant between its call and its return.  A put     *)
(* replaces exactly the object its caller expected, and says so; an        *)
(* operation that ends in an error may or may not have taken effect.       *)
(***************************************************************************)
CONSTANTS
  Clients, Keys, Blobs, Tags,
  Absent, NoTag, NoBlob, NoKey,       \* nothing under a key, nothing given
  Written, Conflict, Done, NoOutcome  \* what an operation may say besides an object

VARIABLES objs,    \* the object under each key, [data, tag] or Absent
          call     \* the operation each client has open, and its outcome

Object == [data : Blobs, tag : Tags]

Idle == [kind |-> "none", key |-> NoKey, exp |-> NoTag, data |-> NoBlob,
         st |-> "idle", out |-> NoOutcome]

Init == /\ objs \in [Keys -> Object \cup {Absent}]
        /\ call = [c \in Clients |-> Idle]

(* PutOutcome::Written is due: nothing there and nothing expected, or the  *)
(* object whose tag the caller names.                                      *)
Meets(obj, exp) == IF exp = NoTag THEN obj = Absent
                                  ELSE obj # Absent /\ obj.tag = exp

Request == [kind : {"get", "etag", "put", "delete", "list"}, key : Keys \cup {NoKey},
            exp : Tags \cup {NoTag}, data : Blobs \cup {NoBlob},
            st : {"open"}, out : {NoOutcome}]

Open(c) ==
    /\ call[c].st = "idle"
    /\ call'[c] \in Request
    /\ call' = [call EXCEPT ![c] = call'[c]]
    /\ UNCHANGED objs

(* The one instant: what the operation does to the map and what it says.   *)
Happens(c, out) ==
    LET k == call[c].key IN
    \/ /\ call[c].kind = "get"
       /\ out = objs[k]
       /\ UNCHANGED objs
    \/ /\ call[c].kind = "etag"               \* a tag may be withheld
       /\ out \in {objs[k], Absent}
       /\ UNCHANGED objs
    \/ /\ call[c].kind = "put"
       /\ Meets(objs[k], call[c].exp)
       /\ out = Written
       /\ \E t \in Tags : objs' = [objs EXCEPT ![k] = [data |-> call[c].data, tag |-> t]]
    \/ /\ call[c].kind = "put"
       /\ ~ Meets(objs[k], call[c].exp)
       /\ out = Conflict
       /\ UNCHANGED objs
    \/ /\ call[c].kind = "delete"
       /\ out = Done
       /\ objs' = [objs EXCEPT ![k] = Absent]
    \/ /\ call[c].kind = "list"
       /\ out = Done
       /\ UNCHANGED objs

Outcomes == Object \cup {Absent, Written, Conflict, Done}

Take(c) ==
    /\ call[c].st = "open"
    /\ Happens(c, call'[c].out)
    /\ call' = [call EXCEPT ![c].st = "done", ![c].out = call'[c].out]

(* An error: before the instant, after it, or hiding it.                   *)
Fail(c) ==
    /\ call[c].st \in {"open", "done"}
    /\ \/ UNCHANGED objs
       \/ call[c].st = "open" /\ \E out \in Outcomes : Happens(c, out)
    /\ call' = [call EXCEPT ![c].st = "failed", ![c].out = NoOutcome]

Close(c) ==
    /\ call[c].st \in {"done", "failed"}
    /\ call' = [call EXCEPT ![c] = Idle]
    /\ UNCHANGED objs

Next == \E c \in Clients : Open(c) \/ Take(c) \/ Fail(c) \/ Close(c)

Spec == Init /\ [][Next]_<<objs, call>>
=============================================================================
