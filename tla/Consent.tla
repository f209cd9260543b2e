------------------------------ MODULE Consent ------------------------------
(***************************************************************************)
(* What the approval gates of the daemon promise for each request, without *)
(* registry, challenges, locks or threads: a request is served at once     *)
(* because a rule or the desktop itself answers for it, or somebody is     *)
(* asked, and then it is carried out only after a consent.                 *)
(***************************************************************************)
CONSTANT Call

VARIABLE stage  \* stage[c]: where the request of call c stands

Open     == {"asked", "granted", "refused"}
Stage    == Open \cup {"idle", "lapsed", "executed", "rejected"}

Init == stage = [c \in Call |-> "idle"]

Move(c, from, to) ==
  /\ stage[c] \in from
  /\ stage' = [stage EXCEPT ![c] = to]

\* A rule or the desktop answers for the request.
Serve(c) == Move(c, {"idle"}, "executed")

\* Somebody is asked; a rule operation in test mode is granted with that.
Ask(c) == \E to \in {"asked", "granted"} : Move(c, {"idle"}, to)

\* An answer, or another one before the first has been seen.
Decide(c) == \E to \in {"granted", "refused"} : Move(c, Open, to)

\* Nobody answered in time.
Lapse(c) == Move(c, {"asked"}, "lapsed")

\* The consent was given without knowing that the program has changed.
AskAgain(c) == Move(c, {"granted"}, "asked")

Execute(c) == Move(c, {"granted"}, "executed")

\* Refused, lapsed, or not possible any more.
Reject(c) == Move(c, {"idle", "granted", "refused", "lapsed"}, "rejected")

Next == \E c \in Call :
  Serve(c) \/ Ask(c) \/ Decide(c) \/ Lapse(c) \/ AskAgain(c)
    \/ Execute(c) \/ Reject(c)

Spec == Init /\ [][Next]_stage
=============================================================================
