--------------------------- MODULE CommandLine_proofs ---------------------------
(***************************************************************************)
(* Proofs about a command and what its daemon does with it, whatever other *)
(* command lines, daemons and systems do meanwhile, for any number of      *)
(* them.  What a command has reached is not in one place: part of it is in *)
(* the command (Good), part in the judge of its daemon (JudgeOfOne), in    *)
(* the digests it keeps (CacheRight) and the places it has yet to look at  *)
(* (Searching), part in the vault (BasesBelow), and part in what was       *)
(* decided for an earlier request (DirMeant).                              *)
(***************************************************************************)
EXTENDS CommandLine, WellFoundedInduction, TLAPS

-----------------------------------------------------------------------------
(***************************************************************************)
(* Shapes: records have their fields.                                      *)
(***************************************************************************)
ProcShape(r) ==
  r = [at |-> r.at, req |-> r.req, id |-> r.id, shown |-> r.shown, target |-> r.target,
       token |-> r.token, reply |-> r.reply, base |-> r.base, draft |-> r.draft, exit |-> r.exit,
       err |-> r.err, acted |-> r.acted, dir |-> r.dir, ran |-> r.ran, judged |-> r.judged,
       asked |-> r.asked, conf |-> r.conf]

DiskShape(r) == r = [json |-> r.json, file |-> r.file, made |-> r.made, pw |-> r.pw,
                     code |-> r.code, conf |-> r.conf]

DaemonShape(r) == r = [up |-> r.up, token |-> r.token, conf |-> r.conf, leaving |-> r.leaving,
                       lost |-> r.lost]

CallShape(r) ==
  r = [at |-> r.at, vault |-> r.vault, req |-> r.req, peer |-> r.peer, starter |-> r.starter,
       cwd |-> r.cwd, table |-> r.table, left |-> r.left, exe |-> r.exe, result |-> r.result,
       meta |-> r.meta, shown |-> r.shown, seen |-> r.seen, began |-> r.began]

ItemShape(r) == DOMAIN r = {"side", "kind", "rev", "deleted", "fields"}

ProcShapes == DOMAIN proc = Procs /\ \A p \in Procs : ProcShape(proc[p])

Shapes == ProcShapes /\ CallShape(call)

WorldShapes ==
  /\ DOMAIN disk = Vaults /\ \A v \in Vaults : DiskShape(disk[v])
  /\ DOMAIN daemon = Vaults /\ \A v \in Vaults : DaemonShape(daemon[v])

-----------------------------------------------------------------------------
(* The steps of a command with a request under way.                           *)
Sending == {"choose", "ensure", "token", "probe", "send", "judge", "prompt", "reply"}

(* The requests that change something.                                        *)
Acting == {"init", "unlock", "lock", "recover", "create", "update", "delete", "ruleadd",
           "ruleremove"}

(* The requests of a command that changes something.                          *)
Method(c, m) ==
  /\ c.verb \in Mutating \ {"add", "edit"} => m = c.verb
  /\ c.verb = "add" => m = "create"
  /\ c.verb = "edit" => m \in {"get", "update"}
  /\ m = "update" => c.verb = "edit"

(* What a command knows of itself.                                            *)
Good(c, r) ==
  /\ r.acted \in {0, 1}
  /\ r.acted = 1 => /\ r.at \in {"reply", "done"}
                    /\ r.at = "reply" => r.reply.err = "none" /\ r.req \in Acting
  /\ c.verb \in Mutating =>
       /\ r.at \in Sending \cup {"idle", "dir", "done"}
       /\ r.at = "reply" /\ r.reply.err = "none" => r.acted = 1 \/ r.req = "get"
       /\ r.at = "done" => /\ r.exit = 0 => r.acted = 1
                           /\ r.exit # 0 /\ r.err \notin Unsure => r.acted = 0
  /\ r.at \in Sending => Method(c, r.req)
  /\ r.at = "dir" => c.verb = "ruleadd"
  /\ r.at # "done" => r.exit = 0 /\ r.err = "none"
  /\ r.acted = 1 => Method(c, r.req)

AllGood == \A p \in Procs : Good(Line(p), proc[p])

(* A daemon judges one call at a time, and it is the one of a command that    *)
(* waits for it.                                                              *)
JudgeOfOne ==
  /\ \A p \in Procs : At(p, "judge") =>
       /\ ~IsIdle /\ call.vault = Side(p)
       /\ call.req.kind = "inject" <=> proc[p].req = "inject"
       /\ call.req.kind = "bind" => proc[p].req = "ruleadd"
  /\ \A p, q \in Procs : At(p, "judge") /\ At(q, "judge") => p = q

(* Only a command in WSL talks to another system's daemon.                    *)
Reachable(v) == v \in Vaults /\ (v # 0 => host.os = "linux")

Vaulted == \A p \in Procs : Reachable(Side(p))

CommandInv == Shapes /\ plan \in Plans /\ Vaulted /\ AllGood /\ JudgeOfOne

-----------------------------------------------------------------------------
(***************************************************************************)
(* What an edit that was carried out started from is behind what is stored. *)
(***************************************************************************)
ItemsShape == \A i \in DOMAIN items : ItemShape(items[i]) /\ items[i].rev \in Nat

Edits(p) == proc[p].req = "update" /\ proc[p].acted = 1

BasesBelow ==
  \A p \in Procs : Edits(p) =>
    /\ proc[p].id \in DOMAIN items
    /\ proc[p].base \in Nat /\ proc[p].base < items[proc[p].id].rev

ChainInv == ItemsShape /\ BasesBelow /\ EditsChain

-----------------------------------------------------------------------------
(* A daemon that runs has left its endpoint file, unless an exit took it.      *)
Announced ==
  WorldShapes /\ \A v \in Vaults : daemon[v].up => disk[v].json \/ daemon[v].lost

-----------------------------------------------------------------------------
(***************************************************************************)
(* The directory of a rule is spelled for the daemon that was meant then.  *)
(***************************************************************************)
Spelled(p) ==
  LET d == Line(p).dir
  IN /\ proc[p].shown \in Vaults
     /\ proc[p].shown = 0 => proc[p].dir = Native(d)
     /\ proc[p].shown # 0 => /\ host.os = "linux"
                             /\ proc[p].dir = IF Mounted(d) THEN Drive(d)
                                                            ELSE WslDir(host.distro, d)

DirMeant ==
  \A p \in Procs : Line(p).verb = "ruleadd" /\ Line(p).dir.kind = "existing" =>
    /\ proc[p].at \in Sending \/ proc[p].acted = 1 => Spelled(p)
    /\ proc[p].at \in {"judge", "prompt"} \/ proc[p].acted = 1 => ~Foreign(p)

-----------------------------------------------------------------------------
(***************************************************************************)
(* The digest cache is right about what a file that still looks so holds.  *)
(***************************************************************************)
Looking == {"hash", "infohash", "bindhash"}
OnExe   == {"stat", "info"} \cup Looking

FilesShape ==
  /\ clock \in Nat /\ files \in [Programs -> {NoFile} \cup
       [data : Contents, stamp : Nat, link : Programs \cup {NoPath}, exec : BOOLEAN]]
  /\ \A f \in Programs : files[f] # NoFile => files[f].stamp < clock
  /\ DOMAIN cache = Programs

(* A look that was taken before now.                                          *)
Taken(m) == m.stamp \in Nat /\ m.stamp < clock

CacheRight ==
  \A f \in Programs : cache[f].data # NoFile =>
    /\ Taken(cache[f].meta)
    /\ files[f] # NoFile /\ MetaOf(files[f]) = cache[f].meta => files[f].data = cache[f].data

(* A call looks at a program that is there to be looked at.                   *)
CallLooks ==
  /\ call.at = "resolve" => call.exe = NoPath
  /\ call.at = "judge" => call.exe \in Programs \cup {NoPath}
  /\ call.at \in OnExe => call.exe \in Programs
  /\ call.at \in Looking => Taken(call.meta)
  /\ call.at # "done" => call.shown = NoFile

(* What it may read, or find in the cache, the file held since the first look. *)
CallSees ==
  call.at \in {"hash", "bindhash"} =>
    /\ files[call.exe] # NoFile => files[call.exe].data \in call.seen
    /\ cache[call.exe].data # NoFile /\ cache[call.exe].meta = call.meta =>
         cache[call.exe].data \in call.seen

HashInv == FilesShape /\ CacheRight /\ CallLooks /\ CallSees /\ HashAnswersNow

-----------------------------------------------------------------------------
(***************************************************************************)
(* What the ways to go on with a command change of it.                     *)
(***************************************************************************)
(* Only the command p moves.                                                  *)
Only(p) == /\ DOMAIN proc' = Procs /\ ProcShape(proc'[p])
           /\ \A q \in Procs : q # p => proc'[q] = proc[q]

(* What a command is about, what it has asked and been told, and how far it is. *)
SameRequest(p) ==
  /\ proc'[p].id = proc[p].id /\ proc'[p].shown = proc[p].shown
  /\ proc'[p].target = proc[p].target /\ proc'[p].base = proc[p].base
  /\ proc'[p].dir = proc[p].dir /\ proc'[p].ran = proc[p].ran
  /\ proc'[p].judged = proc[p].judged

SameReq(p)   == proc'[p].req = proc[p].req
SameReply(p) == proc'[p].reply = proc[p].reply
SameDone(p)  == proc'[p].acted = proc[p].acted
SameEnd(p)   == proc'[p].exit = proc[p].exit /\ proc'[p].err = proc[p].err

(* A command that is set is the record it is set to, and no other moves.      *)
LEMMA SetFx ==
  ASSUME ProcShapes, NEW p \in Procs, NEW r, Set(p, r), ProcShape(r)
  PROVE  Only(p) /\ proc'[p] = r
  BY DEF ProcShapes, Set, Only

(* A command that ends with an exit code.                                      *)
LEMMA ExitsFx ==
  ASSUME ProcShapes, NEW p \in Procs, NEW code, Exits(p, code)
  PROVE  /\ Only(p) /\ SameRequest(p) /\ SameDone(p) /\ SameReq(p) /\ SameReply(p)
         /\ proc'[p].at = "done" /\ proc'[p].exit = code /\ proc'[p].err = proc[p].err
  <1>1. PICK r : r = [proc[p] EXCEPT !.at = "done", !.exit = code]
    OBVIOUS
  <1>2. ProcShape(proc[p])
    BY DEF ProcShapes
  <1>3. Set(p, r)
    BY <1>1 DEF Exits
  <1>4. /\ r.id = proc[p].id /\ r.shown = proc[p].shown /\ r.target = proc[p].target
        /\ r.base = proc[p].base /\ r.dir = proc[p].dir /\ r.ran = proc[p].ran
        /\ r.judged = proc[p].judged
        /\ r.at = "done" /\ r.exit = code /\ r.err = proc[p].err /\ r.acted = proc[p].acted
        /\ r.req = proc[p].req /\ r.reply = proc[p].reply
    BY <1>1, <1>2 DEF ProcShape
  <1>5. ProcShape(r)
    BY <1>1, <1>2 DEF ProcShape
  <1> QED
    BY <1>3, <1>4, <1>5, SetFx DEF SameRequest, SameDone, SameReq, SameReply

(* A command that ends with an error.                                          *)
LEMMA FailsFx ==
  ASSUME ProcShapes, NEW p \in Procs, NEW e, Fails(p, e)
  PROVE  /\ Only(p) /\ SameRequest(p) /\ SameDone(p) /\ SameReq(p) /\ SameReply(p)
         /\ proc'[p].at = "done" /\ proc'[p].exit = 1 /\ proc'[p].err = e
  <1>1. PICK r : r = [proc[p] EXCEPT !.at = "done", !.exit = 1, !.err = e]
    OBVIOUS
  <1>2. ProcShape(proc[p])
    BY DEF ProcShapes
  <1>3. Set(p, r)
    BY <1>1 DEF Fails
  <1>4. /\ r.id = proc[p].id /\ r.shown = proc[p].shown /\ r.target = proc[p].target
        /\ r.base = proc[p].base /\ r.dir = proc[p].dir /\ r.ran = proc[p].ran
        /\ r.judged = proc[p].judged
        /\ r.at = "done" /\ r.exit = 1 /\ r.err = e /\ r.acted = proc[p].acted
        /\ r.req = proc[p].req /\ r.reply = proc[p].reply
    BY <1>1, <1>2 DEF ProcShape
  <1>5. ProcShape(r)
    BY <1>1, <1>2 DEF ProcShape
  <1> QED
    BY <1>3, <1>4, <1>5, SetFx DEF SameRequest, SameDone, SameReq, SameReply

(* A command that goes on to a step.                                           *)
LEMMA GoesFx ==
  ASSUME ProcShapes, NEW p \in Procs, NEW at, Goes(p, at)
  PROVE  /\ Only(p) /\ SameRequest(p) /\ SameDone(p) /\ SameReq(p) /\ SameEnd(p) /\ SameReply(p)
         /\ proc'[p].at = at
  <1>1. PICK r : r = [proc[p] EXCEPT !.at = at]
    OBVIOUS
  <1>2. ProcShape(proc[p])
    BY DEF ProcShapes
  <1>3. Set(p, r)
    BY <1>1 DEF Goes
  <1>4. /\ r.id = proc[p].id /\ r.shown = proc[p].shown /\ r.target = proc[p].target
        /\ r.base = proc[p].base /\ r.dir = proc[p].dir /\ r.ran = proc[p].ran
        /\ r.judged = proc[p].judged
        /\ r.at = at /\ r.exit = proc[p].exit /\ r.err = proc[p].err /\ r.acted = proc[p].acted
        /\ r.req = proc[p].req /\ r.reply = proc[p].reply
    BY <1>1, <1>2 DEF ProcShape
  <1>5. ProcShape(r)
    BY <1>1, <1>2 DEF ProcShape
  <1> QED
    BY <1>3, <1>4, <1>5, SetFx DEF SameRequest, SameDone, SameReq, SameEnd, SameReply

(* A command that has another request.                                         *)
LEMMA AsksFx ==
  ASSUME ProcShapes, NEW p \in Procs, NEW method, Asks(p, method)
  PROVE  /\ Only(p) /\ SameRequest(p) /\ SameDone(p) /\ SameEnd(p) /\ SameReply(p)
         /\ proc'[p].at = "choose" /\ proc'[p].req = method
  <1>1. PICK r : r = [proc[p] EXCEPT !.at = "choose", !.req = method]
    OBVIOUS
  <1>2. ProcShape(proc[p])
    BY DEF ProcShapes
  <1>3. Set(p, r)
    BY <1>1 DEF Asks
  <1>4. /\ r.id = proc[p].id /\ r.shown = proc[p].shown /\ r.target = proc[p].target
        /\ r.base = proc[p].base /\ r.dir = proc[p].dir /\ r.ran = proc[p].ran
        /\ r.judged = proc[p].judged
        /\ r.at = "choose" /\ r.exit = proc[p].exit /\ r.err = proc[p].err /\ r.acted = proc[p].acted
        /\ r.req = method /\ r.reply = proc[p].reply
    BY <1>1, <1>2 DEF ProcShape
  <1>5. ProcShape(r)
    BY <1>1, <1>2 DEF ProcShape
  <1> QED
    BY <1>3, <1>4, <1>5, SetFx DEF SameRequest, SameDone, SameEnd, SameReply

(* A request that is answered and nothing else.                                *)
LEMMA AnswersFx ==
  ASSUME ProcShapes, NEW p \in Procs, NEW e, NEW val, Answers(p, e, val)
  PROVE  /\ Only(p) /\ SameRequest(p) /\ SameDone(p) /\ SameReq(p) /\ SameEnd(p)
         /\ proc'[p].at = "reply" /\ proc'[p].reply.err = e
  <1>1. PICK r : r = [proc[p] EXCEPT !.at = "reply", !.reply = [err |-> e, val |-> val]]
    OBVIOUS
  <1>2. ProcShape(proc[p])
    BY DEF ProcShapes
  <1>3. Set(p, r)
    BY <1>1 DEF Answers
  <1>4. /\ r.id = proc[p].id /\ r.shown = proc[p].shown /\ r.target = proc[p].target
        /\ r.base = proc[p].base /\ r.dir = proc[p].dir /\ r.ran = proc[p].ran
        /\ r.judged = proc[p].judged
        /\ r.at = "reply" /\ r.exit = proc[p].exit /\ r.err = proc[p].err /\ r.acted = proc[p].acted
        /\ r.req = proc[p].req /\ r.reply.err = e
    BY <1>1, <1>2 DEF ProcShape
  <1>5. ProcShape(r)
    BY <1>1, <1>2 DEF ProcShape
  <1> QED
    BY <1>3, <1>4, <1>5, SetFx DEF SameRequest, SameDone, SameReq, SameEnd

(* A request that is carried out.                                              *)
LEMMA ActsFx ==
  ASSUME ProcShapes, NEW p \in Procs, NEW val, Acts(p, val)
  PROVE  /\ Only(p) /\ SameRequest(p) /\ SameReq(p) /\ SameEnd(p)
         /\ proc'[p].at = "reply" /\ proc'[p].reply.err = "none" /\ proc'[p].acted = proc[p].acted + 1
  <1>1. PICK r : r = [proc[p] EXCEPT !.at = "reply", !.reply = [err |-> "none", val |-> val],
                                  !.acted = proc[p].acted + 1]
    OBVIOUS
  <1>2. ProcShape(proc[p])
    BY DEF ProcShapes
  <1>3. Set(p, r)
    BY <1>1 DEF Acts
  <1>4. /\ r.id = proc[p].id /\ r.shown = proc[p].shown /\ r.target = proc[p].target
        /\ r.base = proc[p].base /\ r.dir = proc[p].dir /\ r.ran = proc[p].ran
        /\ r.judged = proc[p].judged
        /\ r.at = "reply" /\ r.exit = proc[p].exit /\ r.err = proc[p].err
        /\ r.acted = proc[p].acted + 1 /\ r.req = proc[p].req /\ r.reply.err = "none"
    BY <1>1, <1>2 DEF ProcShape
  <1>5. ProcShape(r)
    BY <1>1, <1>2 DEF ProcShape
  <1> QED
    BY <1>3, <1>4, <1>5, SetFx DEF SameRequest, SameReq, SameEnd

(* A command that has a request for an item. *)
LEMMA FirstFx ==
  ASSUME ProcShapes, NEW p \in Procs, NEW m, NEW i,
         Set(p, [proc[p] EXCEPT !.at = "choose", !.req = m, !.id = i])
  PROVE  /\ Only(p) /\ proc'[p].shown = proc[p].shown /\ proc'[p].target = proc[p].target
         /\ proc'[p].base = proc[p].base /\ proc'[p].dir = proc[p].dir
         /\ proc'[p].ran = proc[p].ran /\ proc'[p].judged = proc[p].judged /\ SameReply(p)
         /\ SameDone(p) /\ SameEnd(p) /\ proc'[p].at = "choose" /\ proc'[p].req = m
         /\ proc'[p].id = i
  <1>1. PICK r : r = [proc[p] EXCEPT !.at = "choose", !.req = m, !.id = i]
    OBVIOUS
  <1>2. ProcShape(proc[p])
    BY DEF ProcShapes
  <1>3. Set(p, r)
    BY <1>1
  <1>4. /\ r.shown = proc[p].shown /\ r.target = proc[p].target /\ r.base = proc[p].base
        /\ r.dir = proc[p].dir /\ r.ran = proc[p].ran /\ r.judged = proc[p].judged
        /\ r.reply = proc[p].reply /\ r.acted = proc[p].acted /\ r.exit = proc[p].exit
        /\ r.err = proc[p].err /\ r.at = "choose" /\ r.req = m /\ r.id = i
    BY <1>1, <1>2 DEF ProcShape
  <1>5. ProcShape(r)
    BY <1>1, <1>2 DEF ProcShape
  <1> QED
    BY <1>3, <1>4, <1>5, SetFx DEF SameReply, SameDone, SameEnd

(* A command that knows whose settings it shows. *)
LEMMA LookedFx ==
  ASSUME ProcShapes, NEW p \in Procs, NEW n,
         Set(p, [proc[p] EXCEPT !.shown = Decide.side, !.req = FirstRequest(Line(p)), !.at = n])
  PROVE  /\ Only(p) /\ proc'[p].id = proc[p].id /\ proc'[p].target = proc[p].target
         /\ proc'[p].base = proc[p].base /\ proc'[p].dir = proc[p].dir
         /\ proc'[p].ran = proc[p].ran /\ proc'[p].judged = proc[p].judged /\ SameReply(p)
         /\ SameDone(p) /\ SameEnd(p) /\ proc'[p].shown = Decide.side
         /\ proc'[p].req = FirstRequest(Line(p)) /\ proc'[p].at = n
  <1>1. PICK r : r = [proc[p] EXCEPT !.shown = Decide.side, !.req = FirstRequest(Line(p)), !.at = n]
    OBVIOUS
  <1>2. ProcShape(proc[p])
    BY DEF ProcShapes
  <1>3. Set(p, r)
    BY <1>1
  <1>4. /\ r.id = proc[p].id /\ r.target = proc[p].target /\ r.base = proc[p].base
        /\ r.dir = proc[p].dir /\ r.ran = proc[p].ran /\ r.judged = proc[p].judged
        /\ r.reply = proc[p].reply /\ r.acted = proc[p].acted /\ r.exit = proc[p].exit
        /\ r.err = proc[p].err /\ r.shown = Decide.side /\ r.req = FirstRequest(Line(p))
        /\ r.at = n
    BY <1>1, <1>2 DEF ProcShape
  <1>5. ProcShape(r)
    BY <1>1, <1>2 DEF ProcShape
  <1> QED
    BY <1>3, <1>4, <1>5, SetFx DEF SameReply, SameDone, SameEnd

(* A command that has read the settings. *)
LEMMA HasConfFx ==
  ASSUME ProcShapes, NEW p \in Procs, NEW x,
         Set(p, [proc[p] EXCEPT !.at = "write", !.conf = x])
  PROVE  /\ Only(p) /\ SameRequest(p) /\ SameReq(p) /\ SameReply(p) /\ SameDone(p) /\ SameEnd(p)
         /\ proc'[p].at = "write"
  <1>1. PICK r : r = [proc[p] EXCEPT !.at = "write", !.conf = x]
    OBVIOUS
  <1>2. ProcShape(proc[p])
    BY DEF ProcShapes
  <1>3. Set(p, r)
    BY <1>1
  <1>4. /\ r.id = proc[p].id /\ r.shown = proc[p].shown /\ r.target = proc[p].target
        /\ r.base = proc[p].base /\ r.dir = proc[p].dir /\ r.ran = proc[p].ran
        /\ r.judged = proc[p].judged /\ r.req = proc[p].req /\ r.reply = proc[p].reply
        /\ r.acted = proc[p].acted /\ r.exit = proc[p].exit /\ r.err = proc[p].err
        /\ r.at = "write"
    BY <1>1, <1>2 DEF ProcShape
  <1>5. ProcShape(r)
    BY <1>1, <1>2 DEF ProcShape
  <1> QED
    BY <1>3, <1>4, <1>5, SetFx DEF SameRequest, SameReq, SameReply, SameDone, SameEnd

(* A command that has the directory of a rule. *)
LEMMA HasDirFx ==
  ASSUME ProcShapes, NEW p \in Procs, NEW d,
         Set(p, [proc[p] EXCEPT !.at = "choose", !.req = "ruleadd", !.dir = d, !.shown = Decide.side])
  PROVE  /\ Only(p) /\ proc'[p].id = proc[p].id /\ proc'[p].target = proc[p].target
         /\ proc'[p].base = proc[p].base /\ proc'[p].ran = proc[p].ran
         /\ proc'[p].judged = proc[p].judged /\ SameReply(p) /\ SameDone(p) /\ SameEnd(p)
         /\ proc'[p].at = "choose" /\ proc'[p].req = "ruleadd" /\ proc'[p].dir = d
         /\ proc'[p].shown = Decide.side
  <1>1. PICK r : r = [proc[p] EXCEPT !.at = "choose", !.req = "ruleadd", !.dir = d, !.shown = Decide.side]
    OBVIOUS
  <1>2. ProcShape(proc[p])
    BY DEF ProcShapes
  <1>3. Set(p, r)
    BY <1>1
  <1>4. /\ r.id = proc[p].id /\ r.target = proc[p].target /\ r.base = proc[p].base
        /\ r.ran = proc[p].ran /\ r.judged = proc[p].judged /\ r.reply = proc[p].reply
        /\ r.acted = proc[p].acted /\ r.exit = proc[p].exit /\ r.err = proc[p].err
        /\ r.at = "choose" /\ r.req = "ruleadd" /\ r.dir = d /\ r.shown = Decide.side
    BY <1>1, <1>2 DEF ProcShape
  <1>5. ProcShape(r)
    BY <1>1, <1>2 DEF ProcShape
  <1> QED
    BY <1>3, <1>4, <1>5, SetFx DEF SameReply, SameDone, SameEnd

(* A command that knows where its request goes. *)
LEMMA ChosenFx ==
  ASSUME ProcShapes, NEW p \in Procs, NEW n,
         Set(p, [proc[p] EXCEPT !.target = Decide, !.at = n])
  PROVE  /\ Only(p) /\ proc'[p].id = proc[p].id /\ proc'[p].shown = proc[p].shown
         /\ proc'[p].base = proc[p].base /\ proc'[p].dir = proc[p].dir
         /\ proc'[p].ran = proc[p].ran /\ proc'[p].judged = proc[p].judged /\ SameReq(p)
         /\ SameReply(p) /\ SameDone(p) /\ SameEnd(p) /\ proc'[p].target = Decide /\ proc'[p].at = n
  <1>1. PICK r : r = [proc[p] EXCEPT !.target = Decide, !.at = n]
    OBVIOUS
  <1>2. ProcShape(proc[p])
    BY DEF ProcShapes
  <1>3. Set(p, r)
    BY <1>1
  <1>4. /\ r.id = proc[p].id /\ r.shown = proc[p].shown /\ r.base = proc[p].base
        /\ r.dir = proc[p].dir /\ r.ran = proc[p].ran /\ r.judged = proc[p].judged
        /\ r.req = proc[p].req /\ r.reply = proc[p].reply /\ r.acted = proc[p].acted
        /\ r.exit = proc[p].exit /\ r.err = proc[p].err /\ r.target = Decide /\ r.at = n
    BY <1>1, <1>2 DEF ProcShape
  <1>5. ProcShape(r)
    BY <1>1, <1>2 DEF ProcShape
  <1> QED
    BY <1>3, <1>4, <1>5, SetFx DEF SameReq, SameReply, SameDone, SameEnd

(* A command that has read a token. *)
LEMMA HasTokenFx ==
  ASSUME ProcShapes, NEW p \in Procs, NEW x, NEW n,
         Set(p, [proc[p] EXCEPT !.token = x, !.at = n])
  PROVE  /\ Only(p) /\ SameRequest(p) /\ SameReq(p) /\ SameReply(p) /\ SameDone(p) /\ SameEnd(p)
         /\ proc'[p].at = n
  <1>1. PICK r : r = [proc[p] EXCEPT !.token = x, !.at = n]
    OBVIOUS
  <1>2. ProcShape(proc[p])
    BY DEF ProcShapes
  <1>3. Set(p, r)
    BY <1>1
  <1>4. /\ r.id = proc[p].id /\ r.shown = proc[p].shown /\ r.target = proc[p].target
        /\ r.base = proc[p].base /\ r.dir = proc[p].dir /\ r.ran = proc[p].ran
        /\ r.judged = proc[p].judged /\ r.req = proc[p].req /\ r.reply = proc[p].reply
        /\ r.acted = proc[p].acted /\ r.exit = proc[p].exit /\ r.err = proc[p].err /\ r.at = n
    BY <1>1, <1>2 DEF ProcShape
  <1>5. ProcShape(r)
    BY <1>1, <1>2 DEF ProcShape
  <1> QED
    BY <1>3, <1>4, <1>5, SetFx DEF SameRequest, SameReq, SameReply, SameDone, SameEnd

(* A request that waits for an answer. *)
LEMMA PromptedFx ==
  ASSUME ProcShapes, NEW p \in Procs, NEW x,
         Set(p, [proc[p] EXCEPT !.at = "prompt", !.asked = x])
  PROVE  /\ Only(p) /\ SameRequest(p) /\ SameReq(p) /\ SameReply(p) /\ SameDone(p) /\ SameEnd(p)
         /\ proc'[p].at = "prompt"
  <1>1. PICK r : r = [proc[p] EXCEPT !.at = "prompt", !.asked = x]
    OBVIOUS
  <1>2. ProcShape(proc[p])
    BY DEF ProcShapes
  <1>3. Set(p, r)
    BY <1>1
  <1>4. /\ r.id = proc[p].id /\ r.shown = proc[p].shown /\ r.target = proc[p].target
        /\ r.base = proc[p].base /\ r.dir = proc[p].dir /\ r.ran = proc[p].ran
        /\ r.judged = proc[p].judged /\ r.req = proc[p].req /\ r.reply = proc[p].reply
        /\ r.acted = proc[p].acted /\ r.exit = proc[p].exit /\ r.err = proc[p].err
        /\ r.at = "prompt"
    BY <1>1, <1>2 DEF ProcShape
  <1>5. ProcShape(r)
    BY <1>1, <1>2 DEF ProcShape
  <1> QED
    BY <1>3, <1>4, <1>5, SetFx DEF SameRequest, SameReq, SameReply, SameDone, SameEnd

(* An injection that is let through. *)
LEMMA LetThroughFx ==
  ASSUME ProcShapes, NEW p \in Procs, NEW x,
         Set(p, [proc[p] EXCEPT !.at = "reply", !.reply = [err |-> "none", val |-> x], !.judged = call.exe])
  PROVE  /\ Only(p) /\ proc'[p].id = proc[p].id /\ proc'[p].shown = proc[p].shown
         /\ proc'[p].target = proc[p].target /\ proc'[p].base = proc[p].base
         /\ proc'[p].dir = proc[p].dir /\ proc'[p].ran = proc[p].ran /\ SameReq(p)
         /\ SameDone(p) /\ SameEnd(p) /\ proc'[p].at = "reply" /\ proc'[p].reply.err = "none"
         /\ proc'[p].judged = call.exe
  <1>1. PICK r : r = [proc[p] EXCEPT !.at = "reply", !.reply = [err |-> "none", val |-> x], !.judged = call.exe]
    OBVIOUS
  <1>2. ProcShape(proc[p])
    BY DEF ProcShapes
  <1>3. Set(p, r)
    BY <1>1
  <1>4. /\ r.id = proc[p].id /\ r.shown = proc[p].shown /\ r.target = proc[p].target
        /\ r.base = proc[p].base /\ r.dir = proc[p].dir /\ r.ran = proc[p].ran
        /\ r.req = proc[p].req /\ r.acted = proc[p].acted /\ r.exit = proc[p].exit
        /\ r.err = proc[p].err /\ r.at = "reply" /\ r.reply.err = "none" /\ r.judged = call.exe
    BY <1>1, <1>2 DEF ProcShape
  <1>5. ProcShape(r)
    BY <1>1, <1>2 DEF ProcShape
  <1> QED
    BY <1>3, <1>4, <1>5, SetFx DEF SameReq, SameDone, SameEnd

(* A command that sends an edit. *)
LEMMA EditSentFx ==
  ASSUME ProcShapes, NEW p \in Procs, NEW b, NEW x,
         Set(p, [proc[p] EXCEPT !.at = "choose", !.req = "update", !.base = b, !.draft = x])
  PROVE  /\ Only(p) /\ proc'[p].id = proc[p].id /\ proc'[p].shown = proc[p].shown
         /\ proc'[p].target = proc[p].target /\ proc'[p].dir = proc[p].dir
         /\ proc'[p].ran = proc[p].ran /\ proc'[p].judged = proc[p].judged /\ SameReply(p)
         /\ SameDone(p) /\ SameEnd(p) /\ proc'[p].at = "choose" /\ proc'[p].req = "update"
         /\ proc'[p].base = b
  <1>1. PICK r : r = [proc[p] EXCEPT !.at = "choose", !.req = "update", !.base = b, !.draft = x]
    OBVIOUS
  <1>2. ProcShape(proc[p])
    BY DEF ProcShapes
  <1>3. Set(p, r)
    BY <1>1
  <1>4. /\ r.id = proc[p].id /\ r.shown = proc[p].shown /\ r.target = proc[p].target
        /\ r.dir = proc[p].dir /\ r.ran = proc[p].ran /\ r.judged = proc[p].judged
        /\ r.reply = proc[p].reply /\ r.acted = proc[p].acted /\ r.exit = proc[p].exit
        /\ r.err = proc[p].err /\ r.at = "choose" /\ r.req = "update" /\ r.base = b
    BY <1>1, <1>2 DEF ProcShape
  <1>5. ProcShape(r)
    BY <1>1, <1>2 DEF ProcShape
  <1> QED
    BY <1>3, <1>4, <1>5, SetFx DEF SameReply, SameDone, SameEnd

(* A command that has started a program. *)
LEMMA StartedFx ==
  ASSUME ProcShapes, NEW p \in Procs, NEW e,
         Set(p, [proc[p] EXCEPT !.at = "done", !.ran = e])
  PROVE  /\ Only(p) /\ proc'[p].id = proc[p].id /\ proc'[p].shown = proc[p].shown
         /\ proc'[p].target = proc[p].target /\ proc'[p].base = proc[p].base
         /\ proc'[p].dir = proc[p].dir /\ proc'[p].judged = proc[p].judged /\ SameReq(p)
         /\ SameReply(p) /\ SameDone(p) /\ SameEnd(p) /\ proc'[p].at = "done"
         /\ proc'[p].ran = e
  <1>1. PICK r : r = [proc[p] EXCEPT !.at = "done", !.ran = e]
    OBVIOUS
  <1>2. ProcShape(proc[p])
    BY DEF ProcShapes
  <1>3. Set(p, r)
    BY <1>1
  <1>4. /\ r.id = proc[p].id /\ r.shown = proc[p].shown /\ r.target = proc[p].target
        /\ r.base = proc[p].base /\ r.dir = proc[p].dir /\ r.judged = proc[p].judged
        /\ r.req = proc[p].req /\ r.reply = proc[p].reply /\ r.acted = proc[p].acted
        /\ r.exit = proc[p].exit /\ r.err = proc[p].err /\ r.at = "done" /\ r.ran = e
    BY <1>1, <1>2 DEF ProcShape
  <1>5. ProcShape(r)
    BY <1>1, <1>2 DEF ProcShape
  <1> QED
    BY <1>3, <1>4, <1>5, SetFx DEF SameReq, SameReply, SameDone, SameEnd

-----------------------------------------------------------------------------
(***************************************************************************)
(* What a command does on its own.                                         *)
(***************************************************************************)
(* What no command changes without its daemon.                                *)
Steady == /\ plan' = plan /\ items' = items /\ call' = call /\ rules' = rules
          /\ files' = files /\ clock' = clock /\ cache' = cache

(* A command goes on, and has done no more than before.                       *)
Onward(p) ==
  /\ Only(p) /\ SameDone(p) /\ Good(Line(p), proc'[p])
  /\ Reachable(proc'[p].target.side)
  /\ proc[p].at # "judge" /\ proc'[p].at \notin {"judge", "prompt"}
  /\ proc[p].at \in Sending => proc'[p].dir = proc[p].dir /\ proc'[p].shown = proc[p].shown
  /\ Line(p).verb = "ruleadd" /\ proc'[p].at \in Sending => proc[p].at \in Sending \cup {"dir"}
  /\ proc[p].acted = 1 => SameRequest(p) /\ SameReq(p) /\ proc'[p].at = "done"

(* What a command that changes something has been told.                       *)
LEMMA UnansweredGood ==
  ASSUME NEW c, NEW r, Good(c, r), c.verb \in Mutating, r.at = "reply", r.reply.err = "none"
  PROVE  r.acted = 1 \/ r.req = "get"
  BY DEF Good

(* A good command that has done nothing, after a step.                        *)
LEMMA GoodUndone ==
  ASSUME NEW c, NEW r, r.acted = 0, r.at \in Sending \ {"reply"}, Method(c, r.req),
         r.exit = 0, r.err = "none"
  PROVE  Good(c, r)
  <1>1. r.at \notin {"done", "dir", "reply"} /\ r.acted # 1 /\ r.acted \in {0, 1}
    BY DEF Sending
  <1> QED
    BY <1>1 DEF Good

(* The plan says where daemons may be and what may be typed.                  *)
LEMMA PlanFacts ==
  ASSUME plan \in Plans
  PROVE  /\ host.choice \in {"auto", "off", "exe"} /\ host.home \in Vaults /\ host.me \in Users
         /\ \A p \in Procs : Line(p).verb \in Verbs
         /\ \A p \in Procs : Line(p).verb = "ruleadd" => Line(p).dir.names \in Seq(Word)
  BY PlanAssumption DEF host, Line

(* A step of the command alone.                                               *)
LEMMA InsideFx == Inside => Steady /\ daemon' = daemon /\ disk' = disk
  BY DEF Inside, world, outside, authzVars, Steady

(* A step that fails, and changes nothing else.                               *)
LEMMA UnhurtFx == Unhurt => Steady /\ daemon' = daemon /\ disk' = disk
  BY DEF Unhurt, authzVars, Steady

(* A command that is cut off, or ends for want of an answer.                  *)
LEMMA FailsOnward ==
  ASSUME CommandInv, NEW p \in Procs, NEW e, Fails(p, e), proc[p].at # "judge",
         e \in Unsure \/ proc[p].acted = 0
  PROVE  Onward(p)
  <1>1. ProcShapes /\ Good(Line(p), proc[p]) /\ Reachable(Side(p))
    BY DEF CommandInv, Shapes, AllGood, Vaulted
  <1>2. /\ Only(p) /\ SameRequest(p) /\ SameDone(p) /\ SameReq(p)
        /\ proc'[p].at = "done" /\ proc'[p].exit = 1 /\ proc'[p].err = e
    BY <1>1, FailsFx
  <1> QED
    BY <1>1, <1>2 DEF Onward, Good, SameRequest, SameReq, SameDone, Side, Sending, Method, Mutating

(* A command that ends before its request was carried out.                    *)
LEMMA ExitsOnward ==
  ASSUME CommandInv, NEW p \in Procs, NEW code \in {0, 1, 2}, Exits(p, code),
         proc[p].at # "judge", proc[p].acted = 0,
         code = 0 => Line(p).verb \notin Mutating
  PROVE  Onward(p)
  <1>1. ProcShapes /\ Good(Line(p), proc[p]) /\ Reachable(Side(p))
    BY DEF CommandInv, Shapes, AllGood, Vaulted
  <1>2. /\ Only(p) /\ SameRequest(p) /\ SameDone(p) /\ SameReq(p)
        /\ proc'[p].at = "done" /\ proc'[p].exit = code /\ proc'[p].err = proc[p].err
    BY <1>1, ExitsFx
  <1> QED
    BY <1>1, <1>2 DEF Onward, Good, SameRequest, SameReq, SameDone, Side, Sending, Method

(* A command that goes on with the same request.                              *)
LEMMA GoesOnward ==
  ASSUME CommandInv, NEW p \in Procs, NEW at, Goes(p, at),
         proc[p].at \in Sending \ {"judge", "reply"}, at \in Sending \ {"judge", "prompt", "reply"}
  PROVE  Onward(p)
  <1>1. ProcShapes /\ Good(Line(p), proc[p]) /\ Reachable(Side(p))
    BY DEF CommandInv, Shapes, AllGood, Vaulted
  <1>2. /\ Only(p) /\ SameRequest(p) /\ SameDone(p) /\ SameReq(p) /\ SameEnd(p)
        /\ proc'[p].at = at
    BY <1>1, GoesFx
  <1> QED
    BY <1>1, <1>2 DEF Onward, Good, SameRequest, SameReq, SameDone, SameEnd, Side, Sending, Method

(* What only another command than one that changes something does.            *)
LocalSteps == {"look", "creds", "read", "write", "save", "copy", "sleep", "spawn"}

(* A command that changes nothing goes on.                                    *)
LEMMA ReaderOnward ==
  ASSUME CommandInv, NEW p \in Procs, Line(p).verb \notin Mutating, proc[p].acted = 0,
         proc[p].at # "judge",
         Only(p), SameDone(p), proc'[p].target = proc[p].target,
         proc[p].at \in Sending => proc'[p].dir = proc[p].dir /\ proc'[p].shown = proc[p].shown,
         proc'[p].at \in LocalSteps \cup {"choose", "done"},
         proc'[p].at # "done" => SameEnd(p) /\ proc[p].at # "done",
         proc'[p].at = "choose" => proc'[p].req # "update"
  PROVE  Onward(p)
  <1>1. ProcShapes /\ Good(Line(p), proc[p]) /\ Reachable(Side(p))
    BY DEF CommandInv, Shapes, AllGood, Vaulted
  <1>2. proc'[p].acted = 0 /\ Line(p).verb \notin {"edit", "add", "ruleadd"}
    BY DEF SameDone, Mutating
  <1>3. proc'[p].at \in Sending => Method(Line(p), proc'[p].req)
    BY <1>2 DEF Method, Sending, LocalSteps
  <1>4. proc'[p].at \notin {"judge", "prompt", "dir", "reply"}
    BY DEF LocalSteps
  <1>5. proc'[p].at # "done" => proc'[p].exit = 0 /\ proc'[p].err = "none"
    BY <1>1 DEF Good, SameEnd
  <1>6. Good(Line(p), proc'[p])
    <2>1. proc'[p].acted \in {0, 1} /\ proc'[p].acted # 1
      BY <1>2
    <2>2. ~(Line(p).verb \in Mutating)
      OBVIOUS
    <2>3. proc'[p].at # "dir"
      BY <1>4
    <2> QED
      BY <1>3, <1>5, <2>1, <2>2, <2>3 DEF Good
  <1> QED
    BY <1>1, <1>2, <1>4, <1>6 DEF Onward, Side

(* What is typed is refused, or becomes the first request.                    *)
LEMMA StartOnward ==
  ASSUME CommandInv, NEW p \in Procs, Start(p)
  PROVE  Onward(p) /\ Steady /\ daemon' = daemon /\ disk' = disk
  <1> DEFINE c == Line(p)
             i == IF "id" \in DOMAIN c THEN c.id ELSE NoItem
  <1>1. /\ ProcShapes /\ Good(c, proc[p]) /\ Reachable(Side(p)) /\ proc[p].at = "idle"
        /\ c.verb \in Verbs
    BY PlanFacts DEF CommandInv, Shapes, AllGood, Vaulted, Start, At
  <1>2. proc[p].acted = 0 /\ proc[p].exit = 0 /\ proc[p].err = "none"
    BY <1>1 DEF Good
  <1>3. Steady /\ daemon' = daemon /\ disk' = disk
    BY InsideFx DEF Start
  <1>4. \/ Exits(p, 1) \/ Exits(p, 2)
        \/ c.verb \in {"status", "configset", "configget"} /\ Goes(p, "look")
        \/ c.verb = "ruleadd" /\ Goes(p, "dir")
        \/ /\ c.verb \notin {"status", "configset", "configget", "ruleadd"}
           /\ Set(p, [proc[p] EXCEPT !.at = "choose", !.req = FirstRequest(c), !.id = i])
    BY DEF Start
  <1>5. ASSUME NEW code \in {1, 2}, Exits(p, code) PROVE Onward(p)
    <2>1. code \in {0, 1, 2} /\ code # 0 /\ proc[p].at # "judge"
      BY <1>1, <1>5
    <2> QED
      BY <1>2, <1>5, <2>1, ExitsOnward
  <1>6. CASE c.verb \in {"status", "configset", "configget"} /\ Goes(p, "look")
    <2>1. Only(p) /\ SameRequest(p) /\ SameDone(p) /\ SameEnd(p) /\ proc'[p].at = "look"
      BY <1>1, <1>6, GoesFx
    <2> QED
      BY <1>1, <1>2, <1>3, <1>6, <2>1
         DEF Onward, Good, SameRequest, SameDone, SameEnd, Side, Sending, Mutating
  <1>7. CASE c.verb = "ruleadd" /\ Goes(p, "dir")
    <2>1. Only(p) /\ SameRequest(p) /\ SameDone(p) /\ SameEnd(p) /\ proc'[p].at = "dir"
      BY <1>1, <1>7, GoesFx
    <2> QED
      BY <1>1, <1>2, <1>3, <1>7, <2>1
         DEF Onward, Good, SameRequest, SameDone, SameEnd, Side, Sending, Mutating
  <1>8. CASE /\ c.verb # "ruleadd"
             /\ Set(p, [proc[p] EXCEPT !.at = "choose", !.req = FirstRequest(c), !.id = i])
    <2>1. /\ Only(p) /\ SameDone(p) /\ SameEnd(p) /\ proc'[p].at = "choose"
          /\ proc'[p].req = FirstRequest(c) /\ proc'[p].target = proc[p].target
      BY <1>1, <1>8, FirstFx
    <2>2. Method(c, FirstRequest(c))
      BY <1>1 DEF Method, FirstRequest, Mutating, Verbs
    <2> QED
      BY <1>1, <1>2, <1>3, <1>8, <2>1, <2>2
         DEF Onward, Good, SameDone, SameEnd, Side, Sending
  <1> QED
    BY <1>3, <1>4, <1>5, <1>6, <1>7, <1>8

(* The steps of the commands that work on their own side.                     *)
LEMMA LocalStepsOnward ==
  ASSUME CommandInv, NEW p \in Procs,
         \/ Look(p) \/ Credentials(p) \/ ReadConf(p) \/ WriteConf(p)
         \/ Save(p) \/ Copy(p) \/ Wake(p) \/ Spawn(p)
  PROVE  Onward(p) /\ Steady /\ daemon' = daemon
  <1> DEFINE c == Line(p)
  <1>1. /\ ProcShapes /\ Good(c, proc[p]) /\ Reachable(Side(p)) /\ c.verb \in Verbs
    BY PlanFacts DEF CommandInv, Shapes, AllGood, Vaulted
  <1>2. proc[p].at \in LocalSteps
    BY DEF Look, Credentials, ReadConf, WriteConf, Save, Copy, Wake, Spawn, At, LocalSteps
  <1>3. c.verb \notin Mutating /\ proc[p].acted = 0
    BY <1>1, <1>2 DEF Good, Sending, LocalSteps
  <1>4. FirstRequest(c) # "update"
    BY <1>1 DEF FirstRequest, Verbs
  <1>5. Steady /\ daemon' = daemon
    BY InsideFx, UnhurtFx DEF Look, Credentials, ReadConf, WriteConf, Save, Copy, Wake, Spawn,
       Steady, authzVars, outside
  <1>6. ASSUME NEW code \in {0, 1, 2}, Exits(p, code) PROVE Onward(p)
    BY <1>2, <1>3, <1>6, ExitsOnward DEF LocalSteps
  <1>7. ASSUME Fails(p, "transport") PROVE Onward(p)
    BY <1>2, <1>7, FailsOnward DEF LocalSteps, Unsure
  <1>8. ASSUME NEW at \in LocalSteps, Goes(p, at) PROVE Onward(p)
    <2>1. Only(p) /\ SameRequest(p) /\ SameDone(p) /\ SameEnd(p) /\ proc'[p].at = at
      BY <1>1, <1>8, GoesFx
    <2> QED
      BY <1>1, <1>2, <1>3, <1>8, <2>1, ReaderOnward DEF SameRequest, LocalSteps, Sending
  <1>9. CASE Look(p)
    <2>1. ASSUME NEW n \in {"choose", "creds", "read"},
                 Set(p, [proc[p] EXCEPT !.shown = Decide.side, !.req = FirstRequest(c), !.at = n])
          PROVE  Onward(p)
      <3>1. /\ Only(p) /\ SameDone(p) /\ SameEnd(p) /\ proc'[p].target = proc[p].target
            /\ proc'[p].at = n /\ proc'[p].req = FirstRequest(c)
        BY <1>1, <2>1, LookedFx
      <3> QED
        BY <1>2, <1>3, <1>4, <2>1, <3>1, ReaderOnward DEF LocalSteps, Sending
    <2>2. \/ Fails(p, "transport") \/ Exits(p, 2)
          \/ \E n \in {"choose", "creds", "read"} :
               Set(p, [proc[p] EXCEPT !.shown = Decide.side, !.req = FirstRequest(c), !.at = n])
      BY <1>9 DEF Look
    <2> QED
      BY <1>4, <1>5, <1>6, <1>7, <2>1, <2>2
  <1>10. CASE Credentials(p)
    BY <1>5, <1>6, <1>8, <1>10 DEF Credentials, LocalSteps
  <1>11. CASE ReadConf(p)
    <2>1. \/ Set(p, [proc[p] EXCEPT !.at = "write", !.conf = disk[proc[p].shown].conf])
          \/ \E code \in {0, 1, 2} : Exits(p, code)
      BY <1>11 DEF ReadConf
    <2>2. CASE Set(p, [proc[p] EXCEPT !.at = "write", !.conf = disk[proc[p].shown].conf])
      <3>1. Only(p) /\ SameRequest(p) /\ SameDone(p) /\ SameEnd(p) /\ proc'[p].at = "write"
        BY <1>1, <2>2, HasConfFx
      <3> QED
        BY <1>2, <1>3, <1>5, <3>1, ReaderOnward DEF LocalSteps, SameRequest, Sending
    <2> QED
      BY <1>5, <1>6, <2>1, <2>2
  <1>12. CASE WriteConf(p) \/ Save(p) \/ Wake(p)
    BY <1>5, <1>6, <1>12 DEF WriteConf, Save, Wake
  <1>13. CASE Copy(p)
    BY <1>5, <1>6, <1>8, <1>13 DEF Copy, LocalSteps
  <1>14. CASE Spawn(p)
    <2>1. Exits(p, 1) \/ Set(p, [proc[p] EXCEPT !.at = "done", !.ran = Real(Spawned(c))])
      BY <1>14 DEF Spawn
    <2>2. CASE Set(p, [proc[p] EXCEPT !.at = "done", !.ran = Real(Spawned(c))])
      <3>1. Only(p) /\ SameDone(p) /\ proc'[p].target = proc[p].target /\ proc'[p].at = "done"
        BY <1>1, <2>2, StartedFx
      <3> QED
        BY <1>2, <1>3, <1>5, <3>1, ReaderOnward DEF LocalSteps, Sending
    <2> QED
      BY <1>5, <1>6, <2>1, <2>2
  <1> QED
    BY <1>9, <1>10, <1>11, <1>12, <1>13, <1>14

-----------------------------------------------------------------------------
(***************************************************************************)
(* Where a request goes.                                                   *)
(***************************************************************************)
(* The first of some vaults.                                                   *)
LEMMA LeastVault ==
  ASSUME NEW S, S \subseteq Nat, S # {}
  PROVE  \E v \in S : \A w \in S : v <= w
  <1> DEFINE R == {ss \in Nat \X Nat : ss[1] < ss[2]}
  <1>1. IsWellFoundedOn(OpToRel(<, Nat), Nat)
    BY NatLessThanWellFounded
  <1>2. IsWellFoundedOn(R, Nat)
    BY <1>1 DEF OpToRel
  <1>3. ASSUME NEW v \in Nat, NEW w \in Nat, <<w, v>> \notin R PROVE v <= w
    <2>1. <<w, v>> \in Nat \X Nat /\ <<w, v>>[1] = w /\ <<w, v>>[2] = v
      OBVIOUS
    <2>2. ~(w < v)
      BY <1>3, <2>1
    <2> QED
      BY <2>2
  <1> HIDE DEF R
  <1>4. PICK v \in S : \A w \in S : <<w, v>> \notin R
    BY <1>2, WFMin
  <1>5. \A w \in S : v <= w
    BY <1>3, <1>4
  <1> QED
    BY <1>5

(* The search finds a user with an endpoint file wherever there is one.        *)
LEMMA FoundFx ==
  /\ Found \in Users \cup {0}
  /\ Found = 0 => \A v \in Users : ~disk[v].json
  <1> DEFINE with == {v \in Users : disk[v].json}
  <1>1. with \subseteq Nat /\ 0 \notin Users
    BY CommandLineAssumption DEF Users
  <1>2. CASE with = {}
    BY <1>2 DEF Found
  <1>3. CASE with # {}
    <2>1. \E v \in with : \A w \in with : v <= w
      <3> HIDE DEF with
      <3> QED
        BY <1>1, <1>3, LeastVault
    <2>2. Found = CHOOSE v \in with : \A w \in with : v <= w
      BY <1>3 DEF Found
    <2>3. Found \in with
      BY <2>1, <2>2
    <2> QED
      BY <1>1, <2>3
  <1> QED
    BY <1>2, <1>3

(* What is decided is one of three ways, and a bridge leads to a Windows user. *)
LEMMA DecideFx ==
  ASSUME plan \in Plans
  PROVE  /\ Decide.kind \in {"local", "bridge", "fatal"} /\ Decide.side \in Vaults
         /\ Decide.kind # "bridge" => Decide.side = 0
         /\ Decide.kind = "bridge" => Decide.side \in Users /\ host.os = "linux"
         /\ Decide.kind = "local" =>
              \/ host.os # "linux" \/ host.choice = "off"
              \/ host.choice = "auto" /\ ~host.wsl
              \/ host.home = 0 /\ Found = 0
  <1> DEFINE data == IF host.home # 0 THEN host.home ELSE Found
  <1>1. /\ data \in Vaults /\ host.me \in Users /\ 0 \in Vaults
        /\ host.choice \in {"auto", "off", "exe"}
        /\ Users = Vaults \ {0}
    BY PlanFacts, FoundFx, CommandLineAssumption DEF Users
  <1>2. data = 0 <=> host.home = 0 /\ Found = 0
    OBVIOUS
  <1>3. \/ /\ Decide = Local
           /\ \/ host.os # "linux" \/ host.choice = "off"
              \/ host.choice = "auto" /\ ~host.wsl
              \/ data = 0
        \/ host.os = "linux" /\ data # 0 /\ Decide = Bridge(data, TRUE)
        \/ host.os = "linux" /\ Decide = Bridge(host.me, FALSE)
        \/ Decide = Fatal
    BY <1>1 DEF Decide, DecideInstalled
  <1> HIDE DEF data
  <1> QED
    BY <1>1, <1>2, <1>3 DEF Local, Bridge, Fatal

-----------------------------------------------------------------------------
(***************************************************************************)
(* A request on its way, and its answer.                                   *)
(***************************************************************************)
(* The directory of a rule is settled, or there is none.                       *)
LEMMA DirectoryOnward ==
  ASSUME CommandInv, NEW p \in Procs, Directory(p)
  PROVE  Onward(p) /\ Steady /\ daemon' = daemon /\ disk' = disk
  <1> DEFINE d == RuleDir(Line(p).dir, Decide.kind = "bridge")
  <1>1. /\ ProcShapes /\ Good(Line(p), proc[p]) /\ Reachable(Side(p))
        /\ proc[p].at = "dir"
    BY DEF CommandInv, Shapes, AllGood, Vaulted, Directory, At
  <1>2. Steady /\ daemon' = daemon /\ disk' = disk
    BY InsideFx DEF Directory
  <1>3. proc[p].acted = 0 /\ Line(p).verb = "ruleadd" /\ Line(p).verb \in Mutating
    BY <1>1 DEF Good, Mutating
  <1>4. \/ Exits(p, 1)
        \/ Set(p, [proc[p] EXCEPT !.at = "choose", !.req = "ruleadd", !.dir = d, !.shown = Decide.side])
    BY DEF Directory
  <1>5. CASE Exits(p, 1)
    <2>1. 1 \in {0, 1, 2} /\ 1 # 0 /\ proc[p].at # "judge"
      BY <1>1
    <2> QED
      BY <1>2, <1>3, <1>5, <2>1, ExitsOnward
  <1>6. CASE Set(p, [proc[p] EXCEPT !.at = "choose", !.req = "ruleadd", !.dir = d,
                                    !.shown = Decide.side])
    <2>1. /\ Only(p) /\ SameDone(p) /\ SameEnd(p) /\ proc'[p].at = "choose"
          /\ proc'[p].req = "ruleadd" /\ proc'[p].target = proc[p].target
      <3> HIDE DEF d
      <3> QED
        BY <1>1, <1>6, HasDirFx
    <2>2. Method(Line(p), "ruleadd")
      BY <1>3 DEF Method
    <2> QED
      BY <1>1, <1>2, <1>3, <2>1, <2>2 DEF Onward, Good, SameDone, SameEnd, Side, Sending
  <1> QED
    BY <1>4, <1>5, <1>6

(* A request on its way to a daemon is passed on, or is an error.              *)
LEMMA SendingOnward ==
  ASSUME CommandInv, NEW p \in Procs,
         Choose(p) \/ Ensure(p) \/ ReadToken(p) \/ Probe(p) \/ Unreachable(p)
  PROVE  Onward(p) /\ Steady
  <1>1. /\ ProcShapes /\ Good(Line(p), proc[p]) /\ Reachable(Side(p))
        /\ proc[p].at \in {"choose", "ensure", "token", "probe", "send"}
    BY DEF CommandInv, Shapes, AllGood, Vaulted, Choose, Ensure, ReadToken, Probe, Unreachable, At
  <1>2. Steady
    BY InsideFx, UnhurtFx DEF Choose, Ensure, ReadToken, Probe, Unreachable, Steady, authzVars,
       outside
  <1>3. proc[p].acted = 0
    BY <1>1 DEF Good
  <1>4. ASSUME NEW e, Fails(p, e) PROVE Onward(p)
    BY <1>1, <1>3, <1>4, FailsOnward
  <1>5. ASSUME NEW at \in {"token", "send"}, Goes(p, at) PROVE Onward(p)
    BY <1>1, <1>5, GoesOnward DEF Sending
  <1>6. CASE Choose(p)
    <2>1. ASSUME NEW n \in {"ensure", "token"},
                 Set(p, [proc[p] EXCEPT !.target = Decide, !.at = n])
          PROVE  Onward(p)
      <3>1. /\ Only(p) /\ SameDone(p) /\ SameEnd(p) /\ SameReq(p) /\ proc'[p].target = Decide
            /\ proc'[p].at = n /\ proc'[p].dir = proc[p].dir /\ proc'[p].shown = proc[p].shown
        BY <1>1, <2>1, ChosenFx
      <3>2. Reachable(Decide.side)
        BY DecideFx DEF CommandInv, Reachable
      <3> QED
        BY <1>1, <1>3, <3>1, <3>2 DEF Onward, Good, SameDone, SameEnd, SameReq, Sending
    <2>2. \/ Fails(p, "transport")
          \/ \E n \in {"ensure", "token"} : Set(p, [proc[p] EXCEPT !.target = Decide, !.at = n])
      BY <1>6 DEF Choose
    <2> QED
      BY <1>2, <1>4, <2>1, <2>2
  <1>7. CASE Ensure(p)
    BY <1>2, <1>4, <1>5, <1>7 DEF Ensure
  <1>8. CASE ReadToken(p)
    <2>1. \E x : \E n \in {"send", "probe"} : Set(p, [proc[p] EXCEPT !.token = x, !.at = n])
      BY <1>8 DEF ReadToken
    <2>2. PICK x : \E n \in {"send", "probe"} : Set(p, [proc[p] EXCEPT !.token = x, !.at = n])
      BY <2>1
    <2>3. PICK n \in {"send", "probe"} : Set(p, [proc[p] EXCEPT !.token = x, !.at = n])
      BY <2>2
    <2>4. /\ Only(p) /\ SameRequest(p) /\ SameReq(p) /\ SameDone(p) /\ SameEnd(p)
          /\ proc'[p].at = n
      BY <1>1, <2>3, HasTokenFx
    <2> QED
      BY <1>1, <1>2, <1>3, <2>4
         DEF Onward, Good, SameRequest, SameDone, SameEnd, SameReq, Side, Sending
  <1>9. CASE Probe(p)
    BY <1>2, <1>4, <1>5, <1>9 DEF Probe
  <1>10. CASE Unreachable(p)
    BY <1>2, <1>4, <1>10 DEF Unreachable
  <1> QED
    BY <1>6, <1>7, <1>8, <1>9, <1>10

(* An answer ends the command, or is what its next request is made of.         *)
LEMMA ReceiveOnward ==
  ASSUME CommandInv, NEW p \in Procs, Receive(p)
  PROVE  Onward(p) /\ Steady /\ daemon' = daemon /\ disk' = disk
  <1> DEFINE c == Line(p)
             r == proc[p].reply
             m == proc[p].req
  <1>1. /\ ProcShapes /\ Good(c, proc[p]) /\ Reachable(Side(p))
        /\ proc[p].at = "reply" /\ Method(c, m)
    BY DEF CommandInv, Shapes, AllGood, Vaulted, Receive, At, Good, Sending
  <1>2. Steady /\ daemon' = daemon /\ disk' = disk
    BY InsideFx DEF Receive
  <1>3. CASE proc[p].acted = 1
    <2>1. r.err = "none" /\ m \in Acting
      BY <1>1, <1>3 DEF Good
    <2>2. Exits(p, 0)
      BY <2>1 DEF Receive, Acting
    <2>3. /\ Only(p) /\ SameRequest(p) /\ SameDone(p) /\ SameReq(p)
          /\ proc'[p].at = "done" /\ proc'[p].exit = 0
      BY <1>1, <2>2, ExitsFx
    <2> QED
      BY <1>1, <1>2, <1>3, <2>3
         DEF Onward, Good, SameRequest, SameReq, SameDone, Side, Sending, Method
  <1>4. CASE proc[p].acted = 0 /\ c.verb \in Mutating
    <2>1. \/ Fails(p, r.err)
          \/ r.err = "none" /\ m = "get" /\ c.verb = "edit"
      <3>1. r.err # "none" => Fails(p, r.err)
        BY DEF Receive
      <3>2. r.err = "none" => m = "get"
        <4>1. r.err = "none" => proc[p].acted = 1 \/ m = "get"
          BY <1>1, <1>4, UnansweredGood
        <4> QED
          BY <1>4, <4>1
      <3>3. m = "get" => c.verb = "edit"
        BY <1>1, <1>4 DEF Method, Mutating
      <3> QED
        BY <3>1, <3>2, <3>3
    <2>2. CASE Fails(p, r.err)
      BY <1>1, <1>2, <1>4, <2>2, FailsOnward
    <2>3. CASE r.err = "none" /\ m = "get" /\ c.verb = "edit"
      <3> DEFINE b == IF c.expected # 0 THEN c.expected ELSE r.val.rev
                 x == Edited(r.val, c.changes)
      <3>1. EditWith(p, r.val)
        BY <2>3 DEF Receive
      <3>2. \/ Exits(p, 1)
            \/ Set(p, [proc[p] EXCEPT !.at = "choose", !.req = "update", !.base = b, !.draft = x])
        BY <3>1 DEF EditWith
      <3>3. CASE Exits(p, 1)
        <4>1. 1 \in {0, 1, 2} /\ 1 # 0 /\ proc[p].at # "judge"
          BY <1>1
        <4> QED
          BY <1>2, <1>4, <3>3, <4>1, ExitsOnward
      <3>4. CASE Set(p, [proc[p] EXCEPT !.at = "choose", !.req = "update", !.base = b, !.draft = x])
        <4>1. /\ Only(p) /\ SameDone(p) /\ SameEnd(p) /\ proc'[p].at = "choose"
              /\ proc'[p].req = "update" /\ proc'[p].target = proc[p].target
              /\ proc'[p].dir = proc[p].dir /\ proc'[p].shown = proc[p].shown
          <5> HIDE DEF b, x
          <5> QED
            BY <1>1, <3>4, EditSentFx
        <4>2. Method(c, "update")
          BY <2>3 DEF Method, Mutating
        <4> QED
          <5>1. /\ proc'[p].acted = 0 /\ proc'[p].exit = 0 /\ proc'[p].err = "none"
                /\ proc'[p].at \in Sending \ {"reply"} /\ c.verb # "ruleadd"
            BY <1>1, <1>4, <2>3, <4>1 DEF Good, SameDone, SameEnd, Sending
          <5>2. Good(c, proc'[p])
            BY <4>1, <4>2, <5>1, GoodUndone
          <5> QED
            BY <1>1, <1>2, <1>4, <2>3, <4>1, <5>1, <5>2 DEF Onward, Side, Sending
      <3> QED
        BY <3>2, <3>3, <3>4
    <2> QED
      BY <2>1, <2>2, <2>3
  <1>5. CASE proc[p].acted = 0 /\ c.verb \notin Mutating
    <2>1. ASSUME NEW code \in {0, 1, 2}, Exits(p, code) PROVE Onward(p)
      BY <1>1, <1>5, <2>1, ExitsOnward
    <2>2. ASSUME NEW e, Fails(p, e) PROVE Onward(p)
      BY <1>1, <1>5, <2>2, FailsOnward
    <2>3. ASSUME NEW at \in LocalSteps, Goes(p, at) PROVE Onward(p)
      <3>1. Only(p) /\ SameRequest(p) /\ SameDone(p) /\ SameEnd(p) /\ proc'[p].at = at
        BY <1>1, <2>3, GoesFx
      <3> QED
        BY <1>1, <1>5, <3>1, ReaderOnward DEF SameRequest, LocalSteps
    <2>4. ASSUME Asks(p, "verify") PROVE Onward(p)
      <3>1. /\ Only(p) /\ SameRequest(p) /\ SameDone(p) /\ SameEnd(p) /\ proc'[p].at = "choose"
            /\ proc'[p].req = "verify"
        BY <1>1, <2>4, AsksFx
      <3> QED
        BY <1>1, <1>5, <3>1, ReaderOnward DEF SameRequest
    <2>5. ASSUME NEW i, Set(p, [proc[p] EXCEPT !.at = "choose", !.req = "get", !.id = i])
          PROVE  Onward(p)
      <3>1. /\ Only(p) /\ SameDone(p) /\ SameEnd(p) /\ proc'[p].at = "choose"
            /\ proc'[p].req = "get" /\ proc'[p].target = proc[p].target
            /\ proc'[p].dir = proc[p].dir /\ proc'[p].shown = proc[p].shown
        BY <1>1, <2>5, FirstFx
      <3> QED
        BY <1>1, <1>5, <3>1, ReaderOnward
    <2>6. c.verb # "edit"
      BY <1>5 DEF Mutating
    <2>7. \/ Fails(p, r.err) \/ Resolved(p, r.val) \/ CopyFrom(p, r.val)
          \/ AuditAnswered(p, m, r.val) \/ Goes(p, "spawn") \/ Goes(p, "save")
          \/ Exits(p, 0) \/ Exits(p, 1)
      BY <2>6 DEF Receive
    <2>8. Resolved(p, r.val) => Onward(p)
      <3>1. ASSUME Resolved(p, r.val)
            PROVE  \/ Fails(p, "item.not_found") \/ Exits(p, 2)
                   \/ \E i : Set(p, [proc[p] EXCEPT !.at = "choose", !.req = "get", !.id = i])
        BY <3>1 DEF Resolved
      <3> QED
        BY <2>1, <2>2, <2>5, <3>1
    <2>9. CopyFrom(p, r.val) \/ AuditAnswered(p, m, r.val) => Onward(p)
      BY <2>1, <2>3, <2>4 DEF CopyFrom, AuditAnswered, LocalSteps
    <2> QED
      BY <1>2, <2>1, <2>2, <2>3, <2>7, <2>8, <2>9 DEF LocalSteps
  <1> QED
    BY <1>1, <1>3, <1>4, <1>5 DEF Good

(* A lost answer and a killed command.                                         *)
LEMMA CutOnward ==
  ASSUME CommandInv, NEW p \in Procs, Lose(p) \/ Kill(p)
  PROVE  Onward(p) /\ Steady /\ daemon' = daemon /\ disk' = disk
  <1>1. proc[p].at # "judge" /\ \E e \in Unsure : Fails(p, e)
    BY DEF Lose, Kill, AfterLoss, Broken, Unsure, At
  <1>2. Onward(p)
    BY <1>1, FailsOnward
  <1> QED
    BY <1>2, UnhurtFx DEF Lose, Kill

-----------------------------------------------------------------------------
(***************************************************************************)
(* What a daemon does with a request.                                      *)
(***************************************************************************)
(* What a command keeps while its daemon is at work.                           *)
Kept(p) ==
  /\ proc'[p].id = proc[p].id /\ proc'[p].shown = proc[p].shown
  /\ proc'[p].target = proc[p].target /\ proc'[p].base = proc[p].base
  /\ proc'[p].dir = proc[p].dir /\ proc'[p].ran = proc[p].ran

(* The command is served.                                                      *)
Served(p) ==
  /\ Only(p) /\ Kept(p) /\ SameReq(p) /\ proc[p].acted = 0
  /\ proc[p].at \in {"send", "judge", "prompt"}
  /\ Good(Line(p), proc'[p])

(* The request of a command that changes something is no injection.            *)
LEMMA MethodFx ==
  ASSUME NEW c, NEW m, Method(c, m), c.verb \in Mutating
  PROVE  /\ m \in {"get", "create", "update"} \cup (Mutating \ {"add", "edit"})
         /\ m \notin {"inject", "export", "list", "status", "audit", "verify", "sync", "rulelist"}
  BY DEF Method, Mutating

(* A request that is served has not been carried out yet.                      *)
LEMMA ToServe ==
  ASSUME CommandInv, NEW p \in Procs, proc[p].at \in {"send", "judge", "prompt"}
  PROVE  /\ ProcShapes /\ proc[p].acted = 0 /\ proc[p].exit = 0 /\ proc[p].err = "none"
         /\ Method(Line(p), proc[p].req)
  <1>1. ProcShapes /\ Good(Line(p), proc[p])
    BY DEF CommandInv, Shapes, AllGood
  <1> QED
    BY <1>1 DEF Good, Sending

(* An answer says that something was done only to a command that asks.         *)
LEMMA AnswersServed ==
  ASSUME CommandInv, NEW p \in Procs, proc[p].at \in {"send", "judge", "prompt"},
         NEW e, NEW val, Answers(p, e, val),
         Line(p).verb \in Mutating => e # "none" \/ proc[p].req = "get"
  PROVE  Served(p) /\ proc'[p].at = "reply" /\ proc'[p].acted = 0 /\ proc'[p].judged = proc[p].judged
  <1>1. /\ ProcShapes /\ proc[p].acted = 0 /\ proc[p].exit = 0 /\ proc[p].err = "none"
        /\ Method(Line(p), proc[p].req)
    BY ToServe
  <1>2. /\ Only(p) /\ SameRequest(p) /\ SameDone(p) /\ SameReq(p) /\ SameEnd(p)
        /\ proc'[p].at = "reply" /\ proc'[p].reply.err = e
    BY <1>1, AnswersFx
  <1>3. /\ proc'[p].acted = 0 /\ proc'[p].exit = 0 /\ proc'[p].err = "none"
        /\ Method(Line(p), proc'[p].req)
    BY <1>1, <1>2 DEF SameDone, SameEnd, SameReq
  <1>4. Good(Line(p), proc'[p])
    BY <1>2, <1>3 DEF Good, Sending, SameReq
  <1> QED
    BY <1>1, <1>2, <1>3, <1>4 DEF Served, Kept, SameRequest

(* A request is carried out once.                                              *)
LEMMA ActsServed ==
  ASSUME CommandInv, NEW p \in Procs, proc[p].at \in {"send", "judge", "prompt"},
         NEW val, Acts(p, val), proc[p].req \in Acting
  PROVE  Served(p) /\ proc'[p].at = "reply" /\ proc'[p].acted = 1 /\ proc'[p].judged = proc[p].judged
  <1>1. /\ ProcShapes /\ proc[p].acted = 0 /\ proc[p].exit = 0 /\ proc[p].err = "none"
        /\ Method(Line(p), proc[p].req)
    BY ToServe
  <1>2. /\ Only(p) /\ SameRequest(p) /\ SameReq(p) /\ SameEnd(p) /\ proc'[p].at = "reply"
        /\ proc'[p].reply.err = "none" /\ proc'[p].acted = proc[p].acted + 1
    BY <1>1, ActsFx
  <1>3. /\ proc'[p].acted = 1 /\ proc'[p].exit = 0 /\ proc'[p].err = "none"
        /\ Method(Line(p), proc'[p].req) /\ proc'[p].req \in Acting
    BY <1>1, <1>2 DEF SameEnd, SameReq
  <1>4. Good(Line(p), proc'[p])
    BY <1>2, <1>3 DEF Good, Sending
  <1> QED
    BY <1>1, <1>2, <1>3, <1>4 DEF Served, Kept, SameRequest

(* A refusal is an answer.                                                     *)
LEMMA RefusesServed ==
  ASSUME CommandInv, NEW p \in Procs, proc[p].at \in {"send", "judge", "prompt"}, Refuses(p)
  PROVE  Served(p) /\ proc'[p].at = "reply" /\ proc'[p].acted = 0 /\ proc'[p].judged = proc[p].judged
  <1>1. CASE proc[p].req = "inject"
    <2>1. Answers(p, "none", FALSE)
      BY <1>1 DEF Refuses
    <2>2. PICK val : val = FALSE
      OBVIOUS
    <2>3. Answers(p, "none", val)
      BY <2>1, <2>2
    <2>4. Line(p).verb \notin Mutating
      BY <1>1, ToServe, MethodFx
    <2> QED
      BY <2>3, <2>4, AnswersServed
  <1>2. CASE proc[p].req # "inject"
    <2>1. Answers(p, "authz.denied", 0) /\ "authz.denied" # "none"
      BY <1>2 DEF Refuses
    <2> QED
      BY <2>1, AnswersServed
  <1> QED
    BY <1>1, <1>2

(* A request that waits is still to be carried out.                            *)
LEMMA WaitsServed ==
  ASSUME CommandInv, NEW p \in Procs, proc[p].at \in {"send", "judge", "prompt"},
         Only(p), SameRequest(p), SameReq(p), SameDone(p), SameEnd(p),
         proc'[p].at \in {"judge", "prompt"}
  PROVE  Served(p)
  <1>1. /\ ProcShapes /\ proc[p].acted = 0 /\ proc[p].exit = 0 /\ proc[p].err = "none"
        /\ Method(Line(p), proc[p].req)
    BY ToServe
  <1>2. /\ proc'[p].acted = 0 /\ proc'[p].exit = 0 /\ proc'[p].err = "none"
        /\ Method(Line(p), proc'[p].req) /\ proc'[p].at \in Sending \ {"reply"}
    BY <1>1 DEF SameDone, SameEnd, SameReq, Sending
  <1>3. Good(Line(p), proc'[p])
    BY <1>2, GoodUndone
  <1> QED
    BY <1>1, <1>2, <1>3 DEF Served, Kept, SameRequest

-----------------------------------------------------------------------------
(***************************************************************************)
(* What is carried out.                                                    *)
(***************************************************************************)
(* Nothing that was stored is lost, and versions only rise.                    *)
Grows ==
  /\ ItemsShape'
  /\ \A i \in DOMAIN items : i \in DOMAIN items' /\ items[i].rev <= items'[i].rev

(* An edit that is carried out replaces the version it started from.           *)
Replaces(p) ==
  proc[p].req = "update" /\ proc'[p].acted = 1 =>
    /\ proc[p].id \in DOMAIN items /\ items[proc[p].id].rev = proc[p].base
    /\ items'[proc[p].id].rev = items[proc[p].id].rev + 1

(* Where nothing is changed nothing is lost.                                   *)
LEMMA SameGrows == ASSUME ItemsShape, items' = items PROVE Grows
  BY DEF Grows, ItemsShape, ItemShape

(* An item of which fields other than its version change, or whose version     *)
(* rises.                                                                      *)
LEMMA ItemGrows ==
  ASSUME ItemsShape, NEW i \in DOMAIN items, NEW x, ItemShape(x), x.rev \in Nat,
         items[i].rev <= x.rev, items' = [items EXCEPT ![i] = x]
  PROVE  Grows /\ items'[i] = x
  BY DEF Grows, ItemsShape, ItemShape

(* Item put with a new identity.                                               *)
LEMMA CreateFx ==
  ASSUME CommandInv, ItemsShape, NEW p \in Procs, proc[p].at \in {"judge", "prompt"},
         proc[p].req = "create", Create(p)
  PROVE  Served(p) /\ proc'[p].at = "reply" /\ Grows /\ proc'[p].judged = proc[p].judged
  <1>1. PICK i : i = CHOOSE j \in Free : TRUE
    OBVIOUS
  <1>2. PICK x : x = [side |-> Side(p), kind |-> Line(p).kind, rev |-> 1, deleted |-> FALSE,
                      fields |-> Line(p).draft]
    OBVIOUS
  <1>3. /\ Free # {} /\ Acts(p, i)
        /\ items' = [j \in DOMAIN items \cup {i} |-> IF j = i THEN x ELSE items[j]]
    BY <1>1, <1>2 DEF Create
  <1>4. i \notin DOMAIN items
    BY <1>1, <1>3 DEF Free
  <1>5. ItemShape(x) /\ x.rev \in Nat
    BY <1>2 DEF ItemShape
  <1>6. Grows
    BY <1>3, <1>4, <1>5 DEF Grows, ItemsShape, ItemShape
  <1>7. proc[p].req \in Acting
    BY DEF Acting
  <1> QED
    BY <1>3, <1>6, <1>7, ActsServed

(* Item put with the version it started from.                                  *)
LEMMA UpdateFx ==
  ASSUME CommandInv, ItemsShape, NEW p \in Procs, proc[p].at \in {"judge", "prompt"},
         proc[p].req = "update", Update(p)
  PROVE  /\ Served(p) /\ proc'[p].at = "reply" /\ Grows /\ Replaces(p)
         /\ proc'[p].judged = proc[p].judged
  <1> DEFINE i == proc[p].id
  <1>1. CASE ~Exists(p) \/ Conflict(i, proc[p].base)
    <2>1. PICK e \in {"item.not_found", "item.conflict"} : Answers(p, e, 0)
      BY <1>1 DEF Update
    <2>2. items' = items /\ e # "none"
      BY <1>1 DEF Update
    <2>3. /\ Served(p) /\ proc'[p].at = "reply" /\ proc'[p].acted = 0
          /\ proc'[p].judged = proc[p].judged
      BY <2>1, <2>2, AnswersServed
    <2> QED
      BY <2>2, <2>3, SameGrows DEF Replaces
  <1>2. CASE Exists(p) /\ ~Conflict(i, proc[p].base)
    <2>1. PICK x : x = [items[i] EXCEPT !.rev = items[i].rev + 1, !.deleted = FALSE,
                                        !.fields = proc[p].draft]
      OBVIOUS
    <2>2. /\ i \in DOMAIN items /\ ItemShape(items[i]) /\ items[i].rev \in Nat
          /\ proc[p].base = items[i].rev
      BY <1>2 DEF Exists, ItemsShape, Conflict
    <2>3. Acts(p, i) /\ items' = [items EXCEPT ![i].rev = items[i].rev + 1, ![i].deleted = FALSE,
                                               ![i].fields = proc[p].draft]
      BY <1>2 DEF Update
    <2>4. items' = [items EXCEPT ![i] = x]
      BY <2>1, <2>2, <2>3
    <2>5. ItemShape(x) /\ x.rev = items[i].rev + 1
      BY <2>1, <2>2 DEF ItemShape
    <2>6. Grows /\ items'[i] = x
      <3>1. items[i].rev <= x.rev /\ x.rev \in Nat
        BY <2>2, <2>5
      <3> QED
        BY <2>2, <2>4, <2>5, <3>1, ItemGrows
    <2>7. proc[p].req \in Acting
      BY DEF Acting
    <2>8. Served(p) /\ proc'[p].at = "reply" /\ proc'[p].judged = proc[p].judged
      BY <2>3, <2>7, ActsServed
    <2> QED
      BY <2>2, <2>5, <2>6, <2>8 DEF Replaces
  <1> QED
    BY <1>1, <1>2

(* Item delete.                                                                *)
LEMMA DeleteFx ==
  ASSUME CommandInv, ItemsShape, NEW p \in Procs, proc[p].at \in {"judge", "prompt"},
         proc[p].req = "delete", Delete(p)
  PROVE  Served(p) /\ proc'[p].at = "reply" /\ Grows /\ proc'[p].judged = proc[p].judged
  <1> DEFINE i == proc[p].id
  <1>1. CASE ~Exists(p)
    <2>1. Answers(p, "item.not_found", 0) /\ "item.not_found" # "none" /\ items' = items
      BY <1>1 DEF Delete
    <2> QED
      BY <2>1, AnswersServed, SameGrows
  <1>2. CASE Exists(p)
    <2>1. i \in DOMAIN items /\ ItemShape(items[i]) /\ items[i].rev \in Nat
      BY <1>2 DEF Exists, ItemsShape
    <2>2. Acts(p, i)
      BY <1>2 DEF Delete
    <2>3. Grows
      <3>1. PICK x : x = [items[i] EXCEPT !.rev = items[i].rev + 1, !.deleted = TRUE]
        OBVIOUS
      <3>2. ItemShape(x) /\ x.rev \in Nat /\ items[i].rev <= x.rev
        BY <2>1, <3>1 DEF ItemShape
      <3>3. CASE items' = items
        BY <3>3, SameGrows
      <3>4. CASE items' = [items EXCEPT ![i].rev = items[i].rev + 1, ![i].deleted = TRUE]
        <4>1. items' = [items EXCEPT ![i] = x]
          BY <2>1, <3>1, <3>4
        <4> QED
          BY <2>1, <3>2, <4>1, ItemGrows
      <3> QED
        BY <1>2, <3>3, <3>4 DEF Delete
    <2>4. proc[p].req \in Acting
      BY DEF Acting
    <2> QED
      BY <2>2, <2>3, <2>4, ActsServed
  <1> QED
    BY <1>1, <1>2

(* What is carried out once a rule or an answer lets it.                       *)
LEMMA ExecuteFx ==
  ASSUME CommandInv, ItemsShape, NEW p \in Procs, proc[p].at \in {"judge", "prompt"}, Execute(p)
  PROVE  /\ Served(p) /\ proc'[p].at = "reply" /\ Grows /\ Replaces(p)
         /\ proc'[p].judged = proc[p].judged
  <1>1. CASE proc[p].req \in ReadMethods
    <2>1. Disclose(p) /\ items' = items
      BY <1>1 DEF Execute, ReadMethods
    <2>2. PICK e : \E val : Answers(p, e, val)
      BY <2>1 DEF Disclose
    <2>3. PICK val : Answers(p, e, val)
      BY <2>2
    <2>4. Line(p).verb \in Mutating => proc[p].req = "get"
      BY <1>1, ToServe, MethodFx DEF ReadMethods
    <2>5. /\ Served(p) /\ proc'[p].at = "reply" /\ proc'[p].acted = 0
          /\ proc'[p].judged = proc[p].judged
      BY <2>3, <2>4, AnswersServed
    <2> QED
      BY <2>1, <2>5, SameGrows DEF Replaces
  <1>2. CASE proc[p].req = "create"
    BY <1>2, CreateFx DEF Execute, ReadMethods, Replaces
  <1>3. CASE proc[p].req = "update"
    BY <1>3, UpdateFx DEF Execute, ReadMethods
  <1>4. CASE proc[p].req = "delete"
    BY <1>4, DeleteFx DEF Execute, ReadMethods, Replaces
  <1>5. CASE proc[p].req = "ruleadd"
    <2>1. Acts(p, 0) /\ items' = items /\ proc[p].req \in Acting
      BY <1>5 DEF Execute, ReadMethods, AddRule, Acting
    <2> QED
      BY <1>5, <2>1, ActsServed, SameGrows DEF Replaces
  <1>6. CASE proc[p].req = "ruleremove"
    <2>1. /\ Acts(p, 0) \/ Answers(p, "item.not_found", 0)
          /\ items' = items /\ proc[p].req \in Acting /\ "item.not_found" # "none"
      BY <1>6 DEF Execute, ReadMethods, RemoveRule, Acting
    <2> QED
      BY <1>6, <2>1, ActsServed, AnswersServed, SameGrows DEF Replaces
  <1> QED
    BY <1>1, <1>2, <1>3, <1>4, <1>5, <1>6 DEF Execute

-----------------------------------------------------------------------------
(***************************************************************************)
(* The judge of a daemon.                                                  *)
(***************************************************************************)
(* A call has begun, and has looked at nothing.                                *)
Begun ==
  /\ call.at \in {"done", "bindstat", "resolve", "judge"} /\ call.shown = NoFile
  /\ call.at \in {"resolve", "judge"} => call.exe = NoPath

(* A call that begins is about the request it is given.                        *)
LEMMA BeginFx ==
  ASSUME NEW v, NEW req, NEW peer, NEW table, Begin(v, req, peer, table)
  PROVE  /\ IsIdle /\ CallShape(call') /\ call'.vault = v /\ call'.req = req /\ Begun'
         /\ rules' = rules /\ files' = files /\ clock' = clock /\ cache' = cache
  <1>1. /\ IsIdle /\ CallShape(call') /\ call'.vault = v /\ call'.req = req
        /\ rules' = rules /\ files' = files /\ clock' = clock /\ cache' = cache
    BY DEF Begin, NoCall, CallShape
  <1>2. /\ call'.at \in {"done", "bindstat", "resolve", "judge"} /\ call'.shown = NoFile
        /\ call'.at \in {"resolve", "judge"} => req.kind # "bind"
        /\ req.kind # "bind" => call'.exe = NoPath
    BY DEF Begin, NoCall
  <1> QED
    BY <1>1, <1>2 DEF Begun

(* A call that goes on is about the same request.                              *)
LEMMA EvaluateFx ==
  ASSUME CallShape(call), Evaluate
  PROVE  /\ CallShape(call') /\ call'.vault = call.vault /\ call'.req = call.req
         /\ call.at # "idle" /\ call'.at # "idle"
  <1>1. CASE Resolve
    BY <1>1 DEF Resolve, CallShape
  <1>2. CASE JudgeStep
    BY <1>2 DEF JudgeStep, Finished, CallShape
  <1>3. CASE Stat
    BY <1>3 DEF Stat, Finished, CallShape
  <1>4. CASE Hash
    BY <1>4 DEF Hash, Finished, CallShape
  <1>5. CASE Info
    BY <1>5 DEF Info, Finished, CallShape
  <1>6. CASE InfoHash
    BY <1>6 DEF InfoHash, Finished, CallShape
  <1>7. CASE BindStat
    BY <1>7 DEF BindStat, CallShape
  <1>8. CASE BindHash
    BY <1>8 DEF BindHash, CallShape
  <1> QED
    BY <1>1, <1>2, <1>3, <1>4, <1>5, <1>6, <1>7, <1>8 DEF Evaluate

(* The request of the command becomes the call of its daemon.                  *)
Handed(p) ==
  /\ IsIdle /\ proc'[p].at = "judge" /\ CallShape(call') /\ Begun'
  /\ call'.vault = Side(p)
  /\ call'.req.kind = "inject" <=> proc[p].req = "inject"
  /\ call'.req.kind = "bind" => proc[p].req = "ruleadd"

(* What a daemon does with the request leaves the others alone.                *)
LEMMA ServedInv ==
  ASSUME CommandInv, NEW p \in Procs, Served(p), plan' = plan,
         \/ call' = call /\ proc[p].at # "judge" /\ proc'[p].at # "judge"
         \/ Handed(p)
         \/ call' = NoCall /\ proc[p].at = "judge" /\ proc'[p].at # "judge"
  PROVE  CommandInv'
  <1>1. ProcShapes /\ CallShape(call) /\ Vaulted /\ AllGood /\ JudgeOfOne /\ plan \in Plans
    BY DEF CommandInv, Shapes
  <1>2. /\ \A q \in Procs : q # p => proc'[q] = proc[q]
        /\ DOMAIN proc' = Procs /\ ProcShape(proc'[p]) /\ proc'[p].target = proc[p].target
        /\ proc'[p].req = proc[p].req /\ Good(Line(p), proc'[p])
    BY DEF Served, Only, Kept, SameReq
  <1>3. ProcShapes'
    BY <1>1, <1>2 DEF ProcShapes
  <1>4. CallShape(call')
    BY <1>1 DEF Handed, NoCall, CallShape
  <1>5. Vaulted'
    BY <1>1, <1>2 DEF Vaulted, Side, Reachable, host, Steady
  <1>6. AllGood'
    BY <1>1, <1>2 DEF AllGood, Line
  <1>7. JudgeOfOne'
    <2>1. CASE call' = call /\ proc[p].at # "judge" /\ proc'[p].at # "judge"
      BY <1>1, <1>2, <2>1 DEF JudgeOfOne, At, IsIdle, Side
    <2>2. CASE Handed(p)
      <3>1. \A q \in Procs : proc[q].at # "judge"
        BY <1>1, <2>2 DEF JudgeOfOne, At, Handed
      <3> QED
        BY <1>2, <2>2, <3>1 DEF JudgeOfOne, At, IsIdle, Side, Handed, Begun
    <2>3. CASE call' = NoCall /\ proc[p].at = "judge" /\ proc'[p].at # "judge"
      <3>1. \A q \in Procs : q # p => proc[q].at # "judge"
        BY <1>1, <2>3 DEF JudgeOfOne, At
      <3> QED
        BY <1>2, <2>3, <3>1 DEF JudgeOfOne, At
    <2> QED
      BY <2>1, <2>2, <2>3
  <1> QED
    BY <1>1, <1>3, <1>4, <1>5, <1>6, <1>7 DEF CommandInv, Shapes

(* A command that goes on leaves the others alone.                             *)
LEMMA OnwardInv ==
  ASSUME CommandInv, NEW p \in Procs, Onward(p), Steady
  PROVE  CommandInv'
  <1>1. ProcShapes /\ CallShape(call) /\ Vaulted /\ AllGood /\ JudgeOfOne /\ plan \in Plans
    BY DEF CommandInv, Shapes
  <1>2. /\ \A q \in Procs : q # p => proc'[q] = proc[q]
        /\ DOMAIN proc' = Procs /\ ProcShape(proc'[p]) /\ Reachable(proc'[p].target.side)
        /\ Good(Line(p), proc'[p]) /\ proc[p].at # "judge" /\ proc'[p].at # "judge"
    BY DEF Onward, Only
  <1>3. ProcShapes'
    BY <1>1, <1>2 DEF ProcShapes
  <1>4. Vaulted'
    BY <1>1, <1>2 DEF Vaulted, Side, Reachable, host, Steady
  <1>5. AllGood'
    BY <1>1, <1>2 DEF AllGood, Line, Steady
  <1>6. JudgeOfOne'
    BY <1>1, <1>2 DEF JudgeOfOne, At, IsIdle, Side, Steady
  <1> QED
    BY <1>1, <1>3, <1>4, <1>5, <1>6 DEF CommandInv, Shapes, Steady

-----------------------------------------------------------------------------
(***************************************************************************)
(* The steps of a daemon.                                                  *)
(***************************************************************************)
(* What no request changes.                                                    *)
Still == plan' = plan /\ files' = files /\ clock' = clock /\ cache' = cache

(* The session, the vault as a whole, and what is only read.                   *)
LEMMA ServeAtOnce ==
  ASSUME CommandInv, ItemsShape, NEW p \in Procs,
         \/ ServeStatus(p) \/ ServeInit(p) \/ ServeUnlock(p) \/ ServeLock(p) \/ ServeRecover(p)
         \/ ServeSession(p)
  PROVE  /\ Served(p) /\ Still /\ call' = call /\ Grows /\ Replaces(p)
         /\ proc[p].at = "send" /\ proc'[p].at = "reply" /\ proc'[p].judged = proc[p].judged
         /\ proc[p].req \notin {"ruleadd", "update"}
  <1>1. /\ proc[p].at = "send"
        /\ proc[p].req \notin {"ruleadd", "update"}
    BY DEF ServeStatus, ServeInit, ServeUnlock, ServeLock, ServeRecover, ServeSession, Ready, At
  <1>2. Still /\ call' = call
    BY InsideFx DEF ServeStatus, ServeInit, ServeUnlock, ServeLock, ServeRecover, ServeSession,
       Still, Steady, outside, authzVars
  <1>3. Grows
    <2>1. CASE items' = items
      BY <2>1, SameGrows
    <2>2. CASE \E v : items' = [i \in DOMAIN items |-> IF items[i].side = v
                                  THEN [items[i] EXCEPT !.side = NoVault] ELSE items[i]]
      BY <2>2 DEF Grows, ItemsShape, ItemShape
    <2> QED
      BY <2>1, <2>2, InsideFx
         DEF ServeStatus, ServeInit, ServeUnlock, ServeLock, ServeRecover, ServeSession, Steady,
             outside
  <1>4. \/ \E e, val : Answers(p, e, val) /\ (e # "none" \/ Line(p).verb \notin Mutating)
        \/ \E val : Acts(p, val) /\ proc[p].req \in Acting
    <2>1. CASE ServeStatus(p)
      <3>1. proc[p].req = "status" /\ Answers(p, "none", 0)
        BY <2>1 DEF ServeStatus, Ready
      <3>2. Line(p).verb \notin Mutating
        BY <1>1, <3>1, ToServe, MethodFx
      <3> QED
        BY <3>1, <3>2
    <2>2. CASE ServeInit(p)
      <3>1. proc[p].req = "init"
        BY <2>2 DEF ServeInit, Ready
      <3> QED
        BY <2>2, <3>1 DEF ServeInit, Acting
    <2>3. CASE ServeUnlock(p)
      <3>1. proc[p].req = "unlock" /\ "vault.invalid" # "none"
        BY <2>3 DEF ServeUnlock, Ready
      <3> QED
        BY <2>3, <3>1 DEF ServeUnlock, Acting
    <2>4. CASE ServeLock(p)
      BY <2>4 DEF ServeLock, Ready, Acting
    <2>5. CASE ServeRecover(p)
      <3>1. proc[p].req = "recover"
        BY <2>5 DEF ServeRecover, Ready
      <3> QED
        BY <2>5, <3>1 DEF ServeRecover, Acting
    <2>6. CASE ServeSession(p)
      <3>1. proc[p].req \in {"list", "audit", "verify", "sync", "rulelist"}
        BY <2>6 DEF ServeSession, Ready
      <3>2. Line(p).verb \notin Mutating
        BY <1>1, <3>1, ToServe, MethodFx
      <3>3. \E e, val : Answers(p, e, val)
        BY <2>6 DEF ServeSession
      <3> QED
        BY <3>2, <3>3
    <2> QED
      BY <2>1, <2>2, <2>3, <2>4, <2>5, <2>6
  <1>5. Served(p) /\ proc'[p].at = "reply" /\ proc'[p].judged = proc[p].judged
    <2>1. ASSUME NEW e, NEW val, Answers(p, e, val), e # "none" \/ Line(p).verb \notin Mutating
          PROVE  Served(p) /\ proc'[p].at = "reply" /\ proc'[p].judged = proc[p].judged
      BY <1>1, <2>1, AnswersServed
    <2>2. ASSUME NEW val, Acts(p, val), proc[p].req \in Acting
          PROVE  Served(p) /\ proc'[p].at = "reply" /\ proc'[p].judged = proc[p].judged
      BY <1>1, <2>2, ActsServed
    <2> QED
      BY <1>4, <2>1, <2>2
  <1> QED
    BY <1>1, <1>2, <1>3, <1>5 DEF Replaces

(* A request that has to pass a gate is refused, asks somebody or is judged.   *)
LEMMA ServeGatedFx ==
  ASSUME CommandInv, ItemsShape, NEW p \in Procs, ServeGated(p)
  PROVE  /\ Served(p) /\ Still /\ items' = items /\ proc[p].at = "send" /\ proc'[p].acted = 0
         /\ proc'[p].judged = proc[p].judged
         /\ \/ call' = call /\ proc'[p].at \in {"reply", "prompt"}
            \/ Handed(p) /\ Begin(Side(p), Asked(p), Peer(p), Table(p))
         /\ proc[p].req = "ruleadd" /\ proc'[p].at \in {"judge", "prompt"} => ~Foreign(p)
  <1> DEFINE v == Side(p)
             m == proc[p].req
  <1>1. proc[p].at = "send" /\ m \in Gated /\ IsIdle /\ ProcShapes
    BY ToServe DEF ServeGated, Ready, At
  <1>2. Still /\ items' = items
    BY DEF ServeGated, Still, world, outside, authzVars, Begin
  <1>3. \/ /\ call' = call
           /\ \/ \E e \in {"session.invalid", "item.not_found", "other"} : Answers(p, e, 0)
              \/ Refuses(p)
              \/ /\ Set(p, [proc[p] EXCEPT !.at = "prompt", !.asked = "unlock"])
                 /\ Admitted(p) /\ ~IsOpen(v)
        \/ /\ Begin(v, Asked(p), Peer(p), Table(p)) /\ Goes(p, "judge")
           /\ ~(m = "ruleadd" /\ Foreign(p))
    BY DEF ServeGated, authzVars
  <1>4. CASE call' = call /\ \E e \in {"session.invalid", "item.not_found", "other"} : Answers(p, e, 0)
    <2>1. PICK e : Answers(p, e, 0) /\ e # "none"
      BY <1>4
    <2>2. /\ Served(p) /\ proc'[p].at = "reply" /\ proc'[p].acted = 0
          /\ proc'[p].judged = proc[p].judged
      BY <1>1, <2>1, AnswersServed
    <2> QED
      BY <1>1, <1>2, <1>4, <2>2
  <1>5. CASE call' = call /\ Refuses(p)
    <2>1. /\ Served(p) /\ proc'[p].at = "reply" /\ proc'[p].acted = 0
          /\ proc'[p].judged = proc[p].judged
      BY <1>1, <1>5, RefusesServed
    <2> QED
      BY <1>1, <1>2, <1>5, <2>1
  <1>6. CASE /\ call' = call /\ Set(p, [proc[p] EXCEPT !.at = "prompt", !.asked = "unlock"])
             /\ Admitted(p) /\ ~IsOpen(v)
    <2>1. /\ Only(p) /\ SameRequest(p) /\ SameReq(p) /\ SameDone(p) /\ SameEnd(p)
          /\ proc'[p].at = "prompt"
      BY <1>1, <1>6, PromptedFx
    <2>2. Served(p)
      BY <1>1, <2>1, WaitsServed
    <2>3. m # "ruleadd"
      BY <1>6 DEF Admitted, ReadMethods, SessionOk
    <2>4. proc'[p].acted = 0 /\ proc'[p].judged = proc[p].judged
      BY <1>1, <2>1, ToServe DEF SameDone, SameRequest
    <2> QED
      BY <1>1, <1>2, <1>6, <2>1, <2>2, <2>3, <2>4
  <1>7. CASE /\ Begin(v, Asked(p), Peer(p), Table(p)) /\ Goes(p, "judge")
             /\ ~(m = "ruleadd" /\ Foreign(p))
    <2>1. /\ Only(p) /\ SameRequest(p) /\ SameReq(p) /\ SameDone(p) /\ SameEnd(p)
          /\ proc'[p].at = "judge"
      BY <1>1, <1>7, GoesFx
    <2>2. Served(p)
      BY <1>1, <2>1, WaitsServed
    <2>3. Asked(p).kind = "inject" <=> m = "inject"
      BY <1>1 DEF Asked, Gated, ReadMethods, WriteMethods, RuleMethods
    <2>4. Asked(p).kind # "bind"
      BY <1>1 DEF Asked, Gated, ReadMethods, WriteMethods, RuleMethods
    <2>5. PICK a : a = Asked(p)
      OBVIOUS
    <2>6. PICK peer : peer = Peer(p)
      OBVIOUS
    <2>7. PICK table : table = Table(p)
      OBVIOUS
    <2>8. Begin(v, a, peer, table)
      BY <1>7, <2>5, <2>6, <2>7
    <2>9. /\ CallShape(call') /\ call'.vault = v /\ call'.req = a /\ Begun'
      BY <2>8, BeginFx
    <2>10. Handed(p)
      BY <1>1, <2>1, <2>3, <2>4, <2>5, <2>9 DEF Handed
    <2>11. proc'[p].acted = 0 /\ proc'[p].judged = proc[p].judged
      BY <1>1, <2>1, ToServe DEF SameDone, SameRequest
    <2> QED
      BY <1>1, <1>2, <1>7, <2>1, <2>2, <2>10, <2>11
  <1> QED
    BY <1>3, <1>4, <1>5, <1>6, <1>7

(* The end of a judgement.                                                     *)
LEMMA JudgedFx ==
  ASSUME CommandInv, ItemsShape, NEW p \in Procs, Judged(p)
  PROVE  /\ Served(p) /\ Still /\ call' = NoCall /\ Grows /\ Replaces(p)
         /\ proc[p].at = "judge" /\ proc'[p].at \in {"reply", "prompt"}
         /\ \/ proc'[p].judged = proc[p].judged
            \/ /\ proc'[p].judged = call.exe /\ proc'[p].at = "reply"
               /\ proc[p].req = "inject" /\ call.at = "done"
  <1>1. /\ proc[p].at = "judge" /\ call' = NoCall /\ ProcShapes /\ call.at = "done"
        /\ call.req.kind = "inject" <=> proc[p].req = "inject"
        /\ call.req.kind = "bind" => proc[p].req = "ruleadd"
    BY DEF Judged, At, CommandInv, Shapes, JudgeOfOne
  <1>2. Still
    BY DEF Judged, Aside, Still
  <1>3. proc[p].at \in {"judge", "prompt"} /\ proc[p].at \in {"send", "judge", "prompt"}
    BY <1>1
  <1>4. CASE call.req.kind = "bind"
    <2>1. /\ Acts(p, 0) \/ Answers(p, "other", 0)
          /\ items' = items /\ "other" # "none" /\ proc[p].req \in Acting
      BY <1>1, <1>4 DEF Judged, Acting
    <2>2. Served(p) /\ proc'[p].at = "reply" /\ proc'[p].judged = proc[p].judged
      BY <1>3, <2>1, ActsServed, AnswersServed
    <2> QED
      BY <1>1, <1>2, <1>4, <2>1, <2>2, SameGrows DEF Replaces
  <1>5. CASE Refuses(p) /\ items' = items
    <2>1. /\ Served(p) /\ proc'[p].at = "reply" /\ proc'[p].acted = 0
          /\ proc'[p].judged = proc[p].judged
      BY <1>3, <1>5, RefusesServed
    <2> QED
      BY <1>1, <1>2, <1>5, <2>1, SameGrows DEF Replaces
  <1>6. CASE Set(p, [proc[p] EXCEPT !.at = "prompt", !.asked = "open"]) /\ items' = items
    <2>1. /\ Only(p) /\ SameRequest(p) /\ SameReq(p) /\ SameDone(p) /\ SameEnd(p)
          /\ proc'[p].at = "prompt"
      BY <1>1, <1>6, PromptedFx
    <2>2. Served(p)
      BY <1>3, <2>1, WaitsServed
    <2>3. proc'[p].acted = 0 /\ proc'[p].judged = proc[p].judged
      BY <2>1, <2>2 DEF SameDone, Served, SameRequest
    <2> QED
      BY <1>1, <1>2, <1>6, <2>1, <2>2, <2>3, SameGrows DEF Replaces
  <1>7. CASE /\ Set(p, [proc[p] EXCEPT !.at = "reply", !.reply = [err |-> "none", val |-> TRUE],
                                       !.judged = call.exe])
             /\ items' = items /\ call.req.kind = "inject"
    <2>1. PICK x : x = TRUE
      OBVIOUS
    <2>2. Set(p, [proc[p] EXCEPT !.at = "reply", !.reply = [err |-> "none", val |-> x],
                                 !.judged = call.exe])
      BY <1>7, <2>1
    <2>3. /\ Only(p) /\ Kept(p) /\ SameReq(p) /\ SameDone(p) /\ SameEnd(p)
          /\ proc'[p].at = "reply" /\ proc'[p].reply.err = "none"
          /\ proc'[p].judged = call.exe
      BY <1>1, <2>2, LetThroughFx DEF Kept
    <2>4. proc[p].acted = 0 /\ proc[p].exit = 0 /\ proc[p].err = "none" /\ proc[p].req = "inject"
      BY <1>1, <1>3, <1>7, ToServe
    <2>5. Line(p).verb \notin Mutating
      BY <1>3, <2>4, ToServe, MethodFx
    <2>6. /\ proc'[p].acted = 0 /\ proc'[p].exit = 0 /\ proc'[p].err = "none"
          /\ Method(Line(p), proc'[p].req)
      BY <1>3, <2>3, <2>4, ToServe DEF SameDone, SameEnd, SameReq
    <2>7. Good(Line(p), proc'[p])
      BY <2>3, <2>5, <2>6 DEF Good, Sending
    <2> QED
      BY <1>1, <1>2, <1>3, <1>7, <2>3, <2>4, <2>6, <2>7, SameGrows DEF Replaces, Served
  <1>8. CASE Execute(p)
    BY <1>1, <1>2, <1>3, <1>8, ExecuteFx
  <1> QED
    BY <1>4, <1>5, <1>6, <1>7, <1>8 DEF Judged

(* Somebody agrees.                                                            *)
LEMMA ApproveFx ==
  ASSUME CommandInv, ItemsShape, NEW p \in Procs, Approve(p)
  PROVE  /\ Served(p) /\ Still /\ Grows /\ Replaces(p)
         /\ \/ call' = call /\ proc'[p].at = "reply"
            \/ Handed(p) /\ proc[p].req = "ruleadd"
         /\ proc[p].at = "prompt" /\ proc'[p].judged = proc[p].judged
  <1>1. proc[p].at = "prompt" /\ IsIdle
    BY DEF Approve, At
  <1>2. ProcShapes /\ proc[p].acted = 0
    BY <1>1, ToServe
  <1>3. Still
    BY DEF Approve, Aside, Still
  <1>4. CASE Answers(p, "session.invalid", 0) /\ items' = items /\ call' = call
    <2>1. "session.invalid" # "none"
      OBVIOUS
    <2>2. /\ Served(p) /\ proc'[p].at = "reply" /\ proc'[p].acted = 0
          /\ proc'[p].judged = proc[p].judged
      BY <1>1, <1>4, <2>1, AnswersServed
    <2> QED
      BY <1>1, <1>3, <1>4, <2>2, SameGrows DEF Replaces
  <1>5. ASSUME NEW a, a.kind = "bind", NEW peer, NEW table, Begin(Side(p), a, peer, table),
               Goes(p, "judge"), items' = items, proc[p].req = "ruleadd"
        PROVE  /\ Served(p) /\ Grows /\ Replaces(p) /\ Handed(p)
               /\ proc'[p].judged = proc[p].judged
    <2>1. /\ Only(p) /\ SameRequest(p) /\ SameReq(p) /\ SameDone(p) /\ SameEnd(p)
          /\ proc'[p].at = "judge"
      BY <1>2, <1>5, GoesFx
    <2>2. Served(p)
      BY <1>1, <2>1, WaitsServed
    <2>3. /\ CallShape(call') /\ call'.vault = Side(p) /\ call'.req = a /\ Begun'
      BY <1>5, BeginFx
    <2>4. Handed(p)
      BY <1>1, <1>5, <2>1, <2>3 DEF Handed
    <2> QED
      BY <1>5, <2>1, <2>2, <2>4, SameGrows DEF Replaces, SameRequest
  <1>6. CASE /\ Begin(Side(p), [kind |-> "bind", exe |-> Line(p).print,
                                dir |-> Canonical(proc[p].dir), keys |-> Line(p).optKeys],
                      Peer(p), Table(p))
             /\ Goes(p, "judge") /\ items' = items /\ proc[p].req = "ruleadd"
    <2>1. PICK a : a = [kind |-> "bind", exe |-> Line(p).print,
                        dir |-> Canonical(proc[p].dir), keys |-> Line(p).optKeys]
      OBVIOUS
    <2>2. PICK peer : peer = Peer(p)
      OBVIOUS
    <2>3. PICK table : table = Table(p)
      OBVIOUS
    <2>4. a.kind = "bind" /\ Begin(Side(p), a, peer, table)
      BY <1>6, <2>1, <2>2, <2>3
    <2> QED
      BY <1>1, <1>3, <1>5, <1>6, <2>4
  <1>7. CASE Execute(p) /\ call' = call
    <2>1. proc[p].at \in {"judge", "prompt"}
      BY <1>1
    <2> QED
      BY <1>1, <1>3, <1>7, <2>1, ExecuteFx
  <1> QED
    BY <1>4, <1>6, <1>7 DEF Approve

(* Nobody agrees.                                                              *)
LEMMA DeclinedFx ==
  ASSUME CommandInv, ItemsShape, NEW p \in Procs, Declined(p)
  PROVE  /\ Served(p) /\ Still /\ items' = items /\ call' = call /\ proc'[p].at = "reply"
         /\ proc[p].at = "prompt" /\ proc'[p].acted = 0 /\ proc'[p].judged = proc[p].judged
  <1>1. proc[p].at = "prompt" /\ Still /\ items' = items /\ call' = call
    BY InsideFx DEF Declined, At, Still, Steady
  <1>2. Refuses(p)
    BY DEF Declined
  <1> QED
    BY <1>1, <1>2, RefusesServed

-----------------------------------------------------------------------------
(***************************************************************************)
(* What happens meanwhile.                                                 *)
(***************************************************************************)
(* What a daemon that goes leaves of the commands it was serving.              *)
Cut(v) ==
  /\ DOMAIN proc' = Procs
  /\ \A q \in Procs :
       \/ proc'[q] = proc[q] /\ (proc[q].at \in {"judge", "prompt"} => Side(q) # v)
       \/ /\ proc[q].at \in {"judge", "prompt"} /\ Side(q) = v
          /\ ProcShape(proc'[q]) /\ Kept(q) /\ SameReq(q) /\ SameDone(q)
          /\ proc'[q].judged = proc[q].judged
          /\ proc'[q].at = "done" /\ proc'[q].exit = 1 /\ proc'[q].err \in Unsure

(* A daemon that goes cuts off what it was serving, and nothing else.          *)
LEMMA DropsFx ==
  ASSUME CommandInv, NEW v \in Vaults, NEW cleansUp, Drops(v, cleansUp)
  PROVE  Cut(v) /\ call' = IF call.vault = v THEN NoCall ELSE call
  <1>1. /\ DOMAIN proc' = Procs
        /\ \A q \in Procs : proc'[q] =
             IF proc[q].at \in {"judge", "prompt"} /\ Side(q) = v
               THEN [proc[q] EXCEPT !.at = "done", !.exit = 1, !.err = Broken(q)] ELSE proc[q]
        /\ call' = IF call.vault = v THEN NoCall ELSE call
    BY DEF Drops
  <1>2. ASSUME NEW q \in Procs
        PROVE  \/ proc'[q] = proc[q] /\ (proc[q].at \in {"judge", "prompt"} => Side(q) # v)
               \/ /\ proc[q].at \in {"judge", "prompt"} /\ Side(q) = v
                  /\ ProcShape(proc'[q]) /\ Kept(q) /\ SameReq(q) /\ SameDone(q)
                  /\ proc'[q].judged = proc[q].judged
                  /\ proc'[q].at = "done" /\ proc'[q].exit = 1 /\ proc'[q].err \in Unsure
    <2>1. CASE ~(proc[q].at \in {"judge", "prompt"} /\ Side(q) = v)
      BY <1>1, <2>1
    <2>2. CASE proc[q].at \in {"judge", "prompt"} /\ Side(q) = v
      <3>1. PICK e : e = Broken(q)
        OBVIOUS
      <3>2. e \in Unsure
        BY <3>1 DEF Broken, Unsure
      <3>3. PICK r : r = [proc[q] EXCEPT !.at = "done", !.exit = 1, !.err = e]
        OBVIOUS
      <3>4. proc'[q] = r
        BY <1>1, <2>2, <3>1, <3>3
      <3>5. ProcShape(proc[q])
        BY DEF CommandInv, Shapes, ProcShapes
      <3>6. /\ r.id = proc[q].id /\ r.shown = proc[q].shown /\ r.target = proc[q].target
            /\ r.base = proc[q].base /\ r.dir = proc[q].dir /\ r.ran = proc[q].ran
            /\ r.judged = proc[q].judged /\ r.req = proc[q].req /\ r.acted = proc[q].acted
            /\ r.at = "done" /\ r.exit = 1 /\ r.err = e
        BY <3>3, <3>5 DEF ProcShape
      <3>7. ProcShape(r)
        BY <3>3, <3>5 DEF ProcShape
      <3> QED
        BY <2>2, <3>2, <3>4, <3>6, <3>7 DEF Kept, SameReq, SameDone
    <2> QED
      BY <2>1, <2>2
  <1> QED
    BY <1>1, <1>2 DEF Cut

(* What was cut off may have been carried out or not.                          *)
LEMMA CutInv ==
  ASSUME CommandInv, NEW v \in Vaults, Cut(v), plan' = plan,
         call' = IF call.vault = v THEN NoCall ELSE call
  PROVE  CommandInv'
  <1>1. ProcShapes /\ CallShape(call) /\ Vaulted /\ AllGood /\ JudgeOfOne /\ plan \in Plans
    BY DEF CommandInv, Shapes
  <1>2. ProcShapes'
    BY <1>1 DEF Cut, ProcShapes
  <1>3. CallShape(call')
    BY <1>1 DEF NoCall, CallShape
  <1>4. Vaulted'
    BY <1>1 DEF Vaulted, Side, Reachable, host, Cut, Kept
  <1>5. ASSUME NEW q \in Procs PROVE Good(Line(q), proc'[q])
    <2>1. Good(Line(q), proc[q])
      BY <1>1 DEF AllGood
    <2>2. CASE proc'[q] = proc[q]
      BY <2>1, <2>2
    <2>3. CASE /\ proc[q].at \in {"judge", "prompt"} /\ SameReq(q) /\ SameDone(q)
               /\ proc'[q].at = "done" /\ proc'[q].exit = 1 /\ proc'[q].err \in Unsure
      <3>1. proc'[q].acted = 0
        BY <2>1, <2>3 DEF Good, SameDone
      <3> QED
        BY <2>3, <3>1 DEF Good, Sending
    <2> QED
      BY <2>2, <2>3 DEF Cut
  <1>6. AllGood'
    BY <1>5 DEF AllGood, Line
  <1>7. JudgeOfOne'
    <2>1. ASSUME NEW q \in Procs, proc'[q].at = "judge"
          PROVE  proc'[q] = proc[q] /\ Side(q) # v
      BY <2>1 DEF Cut
    <2>2. ASSUME NEW q \in Procs, proc'[q].at = "judge"
          PROVE  call' = call /\ proc[q].at = "judge" /\ proc'[q] = proc[q]
      <3>1. proc'[q] = proc[q] /\ Side(q) # v
        BY <2>1, <2>2
      <3>2. call.vault = Side(q)
        BY <1>1, <2>2, <3>1 DEF JudgeOfOne, At
      <3> QED
        BY <2>2, <3>1, <3>2
    <2> QED
      BY <1>1, <2>2 DEF JudgeOfOne, At, IsIdle, Side
  <1> QED
    BY <1>1, <1>2, <1>3, <1>4, <1>6, <1>7 DEF CommandInv, Shapes

(* A step of a judge, or of no command.                                        *)
Others ==
  /\ proc' = proc /\ plan' = plan /\ items' = items
  /\ \/ call' = call
     \/ /\ CallShape(call') /\ call'.vault = call.vault /\ call'.req = call.req
        /\ call.at # "idle" <=> call'.at # "idle"

(* It leaves every command as it is.                                           *)
LEMMA OthersInv ==
  ASSUME CommandInv, Others
  PROVE  CommandInv'
  <1>1. ProcShapes /\ CallShape(call) /\ Vaulted /\ AllGood /\ JudgeOfOne /\ plan \in Plans
    BY DEF CommandInv, Shapes
  <1>2. ProcShapes' /\ CallShape(call') /\ plan' \in Plans
    BY <1>1 DEF Others, ProcShapes
  <1>3. Vaulted' /\ AllGood'
    BY <1>1 DEF Others, Vaulted, AllGood, Side, Reachable, host, Line
  <1>4. JudgeOfOne'
    BY <1>1 DEF Others, JudgeOfOne, At, IsIdle, Side
  <1> QED
    BY <1>2, <1>3, <1>4 DEF CommandInv, Shapes

-----------------------------------------------------------------------------
(***************************************************************************)
(* Every step is one of a command, of its daemon, or of neither.           *)
(***************************************************************************)
(* A rule is judged only where its directory means something.                  *)
Admits(p) ==
  proc[p].at = "send" /\ proc[p].req = "ruleadd"
    /\ (proc'[p].at \in {"judge", "prompt"} \/ proc'[p].acted = 1) => ~Foreign(p)

Passed(p) ==
  \/ call' = call /\ proc[p].at # "judge" /\ proc'[p].at # "judge"
  \/ Handed(p)
  \/ call' = NoCall /\ proc[p].at = "judge" /\ proc'[p].at # "judge"

ByCommand(p) ==
  /\ Onward(p) /\ Steady
  /\ proc[p].at = "dir" => Directory(p) \/ proc'[p].at = "done"
ByDaemon(p)  == Served(p) /\ Still /\ Grows /\ Replaces(p) /\ Admits(p) /\ Passed(p)
ByLoss(v)    == /\ Cut(v) /\ plan' = plan /\ items' = items
                /\ call' = IF call.vault = v THEN NoCall ELSE call

(* The steps of a command on its own.                                          *)
LEMMA ClientSteps ==
  ASSUME CommandInv, NEW p \in Procs, Client(p) \/ Lose(p) \/ Kill(p)
  PROVE  Onward(p) /\ Steady
  BY StartOnward, LocalStepsOnward, DirectoryOnward, SendingOnward, ReceiveOnward, CutOnward
     DEF Client

(* The steps of a daemon for a command.                                        *)
LEMMA DaemonSteps ==
  ASSUME CommandInv, ItemsShape, NEW p \in Procs, Serve(p) \/ Declined(p) \/ Approve(p)
  PROVE  ByDaemon(p)
  <1>1. CASE \/ ServeStatus(p) \/ ServeInit(p) \/ ServeUnlock(p) \/ ServeLock(p)
             \/ ServeRecover(p) \/ ServeSession(p)
    BY <1>1, ServeAtOnce DEF ByDaemon, Admits, Passed
  <1>2. CASE ServeGated(p)
    BY <1>2, ServeGatedFx, SameGrows DEF ByDaemon, Admits, Passed, Replaces
  <1>3. CASE Judged(p)
    BY <1>3, JudgedFx DEF ByDaemon, Admits, Passed
  <1>4. CASE Declined(p)
    BY <1>4, DeclinedFx, SameGrows DEF ByDaemon, Admits, Passed, Replaces
  <1>5. CASE Approve(p)
    BY <1>5, ApproveFx DEF ByDaemon, Admits, Passed
  <1> QED
    BY <1>1, <1>2, <1>3, <1>4, <1>5 DEF Serve

(* The steps of neither.                                                       *)
LEMMA OtherSteps ==
  ASSUME CommandInv,
         \/ \E v \in Vaults : DesktopStart(v) \/ CleansUp(v) \/ DesktopQuits(v) \/ IdleLock(v) \/ DesktopSave(v)
         \/ Judging \/ Replaced \/ AllDone \/ UNCHANGED vars
  PROVE  Others
  <1>1. CallShape(call)
    BY DEF CommandInv, Shapes
  <1>2. CASE \/ \E v \in Vaults : DesktopStart(v) \/ CleansUp(v) \/ DesktopQuits(v) \/ IdleLock(v) \/ DesktopSave(v)
             \/ AllDone \/ UNCHANGED vars
    BY <1>2 DEF Others, DesktopStart, CleansUp, DesktopQuits, IdleLock, DesktopSave, AllDone, vars, world, outside, authzVars
  <1>3. CASE Judging
    BY <1>1, <1>3, EvaluateFx DEF Others, Judging, world, outside
  <1>4. CASE Replaced
    <2>1. \E x : call' = [call EXCEPT !.seen = x]
      BY <1>4 DEF Replaced, Disturb, Touch
    <2>2. proc' = proc /\ plan' = plan /\ items' = items
      BY <1>4 DEF Replaced, world, outside
    <2> QED
      BY <1>1, <2>1, <2>2 DEF Others, CallShape
  <1> QED
    BY <1>2, <1>3, <1>4

(* A daemon goes.                                                              *)
LEMMA LossSteps ==
  ASSUME CommandInv, NEW v \in Vaults, OrderlyStop(v) \/ Crash(v)
  PROVE  ByLoss(v)
  <1>1. (Drops(v, TRUE) \/ Drops(v, FALSE)) /\ plan' = plan /\ items' = items
    BY DEF OrderlyStop, Crash
  <1> QED
    BY <1>1, DropsFx DEF ByLoss

(* So the invariant is kept, and so is what follows from the kind of a step.   *)
LEMMA NextSteps ==
  ASSUME CommandInv, ItemsShape, [Next]_vars
  PROVE  \/ \E p \in Procs : ByCommand(p) \/ ByDaemon(p)
         \/ \E v \in Vaults : ByLoss(v)
         \/ Others
  <1>1. ASSUME NEW p \in Procs, Step(p) \/ Approve(p) \/ Lose(p) \/ Kill(p)
        PROVE  ByCommand(p) \/ ByDaemon(p)
    <2>1. CASE Client(p) \/ Lose(p) \/ Kill(p)
      <3>1. Onward(p) /\ Steady
        BY <2>1, ClientSteps
      <3>2. CASE proc[p].at # "dir"
        BY <3>1, <3>2 DEF ByCommand
      <3>3. CASE Kill(p) /\ proc[p].at = "dir"
        <4>1. Fails(p, "killed") /\ ProcShapes
          BY <3>3 DEF Kill, CommandInv, Shapes
        <4>2. proc'[p].at = "done"
          BY <4>1, FailsFx
        <4> QED
          BY <3>1, <4>2 DEF ByCommand
      <3> QED
        BY <2>1, <3>1, <3>2, <3>3
           DEF ByCommand, Client, Lose, Start, Look, Credentials, ReadConf, WriteConf, Choose,
               Ensure, ReadToken, Probe, Unreachable, Receive, Save, Copy, Wake, Spawn, At
    <2>2. CASE Serve(p) \/ Declined(p) \/ Approve(p)
      BY <2>2, DaemonSteps
    <2> QED
      BY <1>1, <2>1, <2>2 DEF Step
  <1> QED
    BY <1>1, LossSteps, OtherSteps DEF Next

-----------------------------------------------------------------------------
(***************************************************************************)
(* A command that changes something tells the truth about it.              *)
(***************************************************************************)
(* At the start nobody has asked for anything.                                 *)
LEMMA InitInv == Init => CommandInv /\ ItemsShape
  <1> SUFFICES ASSUME Init PROVE CommandInv /\ ItemsShape
    OBVIOUS
  <1>1. plan \in Plans /\ items = plan.items /\ call = NoCall
    BY DEF Init
  <1>2. \A p \in Procs : proc[p] = NoProc /\ DOMAIN proc = Procs
    BY DEF Init
  <1>3. DOMAIN proc = Procs
    BY DEF Init
  <1>4. PICK r : r = NoProc
    OBVIOUS
  <1>5. /\ ProcShape(r) /\ r.at = "idle" /\ r.exit = 0 /\ r.err = "none" /\ r.acted = 0
        /\ r.target.side = 0 /\ r.req = "none"
    BY <1>4 DEF NoProc, ProcShape, Local
  <1>6. \A c : Good(c, r)
    BY <1>5 DEF Good, Sending
  <1>7. Shapes
    BY <1>1, <1>2, <1>3, <1>4, <1>5 DEF Shapes, ProcShapes, NoCall, CallShape
  <1>8. Vaulted /\ AllGood /\ JudgeOfOne
    BY <1>2, <1>4, <1>5, <1>6, CommandLineAssumption
       DEF Vaulted, Reachable, Side, AllGood, JudgeOfOne, At
  <1>9. ItemsShape
    BY <1>1, PlanAssumption DEF ItemsShape, ItemShape
  <1> QED
    BY <1>1, <1>7, <1>8, <1>9 DEF CommandInv

(* Every step keeps it.                                                        *)
LEMMA NextInv ==
  ASSUME CommandInv, ItemsShape, [Next]_vars
  PROVE  CommandInv' /\ ItemsShape'
  <1>1. ASSUME NEW p \in Procs, ByCommand(p) PROVE CommandInv' /\ ItemsShape'
    BY <1>1, OnwardInv DEF ByCommand, Steady, ItemsShape, ItemShape
  <1>2. ASSUME NEW p \in Procs, ByDaemon(p) PROVE CommandInv' /\ ItemsShape'
    BY <1>2, ServedInv DEF ByDaemon, Still, Passed, Grows
  <1>3. ASSUME NEW v \in Vaults, ByLoss(v) PROVE CommandInv' /\ ItemsShape'
    BY <1>3, CutInv DEF ByLoss, ItemsShape, ItemShape
  <1>4. CASE Others
    BY <1>4, OthersInv DEF Others, ItemsShape, ItemShape
  <1> QED
    BY <1>1, <1>2, <1>3, <1>4, NextSteps

(* What a command and the judge of its daemon know of each other holds in      *)
(* every state: a judge is at work on the request of one command that waits    *)
(* for it, and nothing is asked of it after it was carried out.                *)
THEOREM CommandsKeepTrack == Spec => [](CommandInv /\ ItemsShape)
  <1>1. Init => CommandInv /\ ItemsShape
    BY InitInv
  <1>2. CommandInv /\ ItemsShape /\ [Next]_vars => (CommandInv /\ ItemsShape)'
    BY NextInv
  <1> QED
    BY <1>1, <1>2, PTL DEF Spec

(* It says enough of a command that has ended.                                 *)
LEMMA InvAcked == CommandInv => AckedOnce
  <1> SUFFICES ASSUME CommandInv, NEW p \in Procs, Ended(p), Line(p).verb \in Mutating
               PROVE  /\ proc[p].exit = 0 => proc[p].acted = 1
                      /\ proc[p].exit # 0 /\ proc[p].err \notin Unsure => proc[p].acted = 0
                      /\ proc[p].acted <= 1
    BY DEF AckedOnce
  <1>1. Good(Line(p), proc[p]) /\ proc[p].at = "done"
    BY DEF CommandInv, AllGood, Ended, At
  <1> QED
    BY <1>1 DEF Good

(* Exit 0 of `lk` means that the request was carried out, once; any other end  *)
(* but a broken connection that it was not, for any number of commands, daemons *)
(* that come and go, answers that are lost and prompts (rpc_via_bridge and     *)
(* rpc_local of client.rs never repeat a request they are unsure of).          *)
THEOREM EndsTellTheTruth == Spec => []AckedOnce
  BY CommandsKeepTrack, InvAcked, PTL

-----------------------------------------------------------------------------
(***************************************************************************)
(* Edits of one item follow one another.                                   *)
(***************************************************************************)
(* An edit that was carried out is behind what is stored, whatever happens.    *)
LEMMA NextChain ==
  ASSUME CommandInv, ChainInv, [Next]_vars
  PROVE  ChainInv'
  <1>1. ItemsShape /\ BasesBelow /\ EditsChain
    BY DEF ChainInv
  <1>2. ItemsShape'
    BY <1>1, NextInv
  <1>3. CASE \/ \E p \in Procs : ByCommand(p)
             \/ \E v \in Vaults : ByLoss(v)
             \/ Others
    <2>1. \A q \in Procs : Edits(q)' =>
            Edits(q) /\ proc'[q].id = proc[q].id /\ proc'[q].base = proc[q].base
      <3>1. ASSUME NEW p \in Procs, ByCommand(p), NEW q \in Procs, Edits(q)'
            PROVE  Edits(q) /\ proc'[q].id = proc[q].id /\ proc'[q].base = proc[q].base
        <4>1. CASE q # p
          BY <3>1, <4>1 DEF ByCommand, Onward, Only, Edits
        <4>2. CASE q = p
          BY <3>1, <4>2 DEF ByCommand, Onward, SameDone, SameReq, SameRequest, Edits
        <4> QED
          BY <4>1, <4>2
      <3>2. ASSUME NEW v \in Vaults, ByLoss(v), NEW q \in Procs, Edits(q)'
            PROVE  Edits(q) /\ proc'[q].id = proc[q].id /\ proc'[q].base = proc[q].base
        BY <3>2 DEF ByLoss, Cut, Kept, SameReq, SameDone, Edits
      <3>3. ASSUME Others, NEW q \in Procs, Edits(q)'
            PROVE  Edits(q) /\ proc'[q].id = proc[q].id /\ proc'[q].base = proc[q].base
        BY <3>3 DEF Others, Edits
      <3> QED
        BY <1>3, <3>1, <3>2, <3>3
    <2>2. items' = items
      BY <1>3 DEF ByCommand, Steady, ByLoss, Others
    <2>3. BasesBelow'
      BY <1>1, <2>1, <2>2 DEF BasesBelow
    <2>4. EditsChain'
      BY <1>1, <2>1 DEF EditsChain, Edits
    <2> QED
      BY <1>2, <2>3, <2>4 DEF ChainInv
  <1>4. ASSUME NEW p \in Procs, ByDaemon(p) PROVE ChainInv'
    <2>1. /\ \A q \in Procs : q # p => proc'[q] = proc[q]
          /\ proc'[p].id = proc[p].id /\ proc'[p].base = proc[p].base /\ proc'[p].req = proc[p].req
          /\ Grows /\ Replaces(p)
      BY <1>4 DEF ByDaemon, Served, Only, Kept, SameReq
    <2>2. ASSUME NEW q \in Procs, q # p, Edits(q)'
          PROVE  /\ proc'[q].id \in DOMAIN items /\ proc[q].base \in Nat
                 /\ proc'[q].base < items[proc'[q].id].rev
                 /\ proc'[q].id \in DOMAIN items' /\ proc'[q].base < items'[proc'[q].id].rev
      <3>1. proc'[q] = proc[q] /\ Edits(q)
        BY <2>1, <2>2 DEF Edits
      <3>2. /\ proc[q].id \in DOMAIN items /\ proc[q].base \in Nat
            /\ proc[q].base < items[proc[q].id].rev
        BY <1>1, <3>1 DEF BasesBelow
      <3>3. /\ proc[q].id \in DOMAIN items' /\ items[proc[q].id].rev <= items'[proc[q].id].rev
            /\ items[proc[q].id].rev \in Nat /\ items'[proc[q].id].rev \in Nat
        BY <1>1, <1>2, <2>1, <3>2 DEF Grows, ItemsShape
      <3> QED
        BY <3>1, <3>2, <3>3
    <2>3. ASSUME Edits(p)'
          PROVE  /\ proc'[p].id \in DOMAIN items /\ items[proc'[p].id].rev = proc'[p].base
                 /\ proc'[p].base \in Nat /\ proc'[p].id \in DOMAIN items'
                 /\ proc'[p].base < items'[proc'[p].id].rev
      <3>1. /\ proc[p].id \in DOMAIN items /\ items[proc[p].id].rev = proc[p].base
            /\ items'[proc[p].id].rev = items[proc[p].id].rev + 1
        BY <2>1, <2>3 DEF Replaces, Edits
      <3>2. items[proc[p].id].rev \in Nat /\ proc[p].id \in DOMAIN items'
        BY <1>1, <2>1, <3>1 DEF ItemsShape, Grows
      <3> QED
        BY <2>1, <3>1, <3>2
    <2>4. BasesBelow'
      <3>1. ASSUME NEW q \in Procs, Edits(q)'
            PROVE  /\ proc'[q].id \in DOMAIN items' /\ proc'[q].base \in Nat
                   /\ proc'[q].base < items'[proc'[q].id].rev
        BY <2>1, <2>2, <2>3, <3>1
      <3> QED
        BY <3>1 DEF BasesBelow
    <2>5. EditsChain'
      <3>1. ASSUME NEW q \in Procs, NEW r \in Procs, q # r, Edits(q)', Edits(r)',
                   proc'[q].id = proc'[r].id
            PROVE  proc'[q].base # proc'[r].base
        <4>1. CASE q # p /\ r # p
          BY <1>1, <2>1, <3>1, <4>1 DEF EditsChain, Edits
        <4>2. CASE q = p
          BY <2>2, <2>3, <2>1, <3>1, <4>2
        <4>3. CASE r = p
          BY <2>2, <2>3, <2>1, <3>1, <4>3
        <4> QED
          BY <4>1, <4>2, <4>3
      <3> QED
        BY <3>1 DEF EditsChain, Edits
    <2> QED
      BY <1>2, <2>4, <2>5 DEF ChainInv
  <1> QED
    BY <1>1, <1>3, <1>4, NextSteps

(* Two edits of an item that were both carried out started from different      *)
(* versions, in whatever order their commands, the prompts and the daemons     *)
(* go on (expected_revision of item.put): none undoes another unseen.          *)
THEOREM EditsFollowOneAnother == Spec => []EditsChain
  <1>1. Init => CommandInv /\ ChainInv
    BY InitInv DEF Init, ChainInv, BasesBelow, EditsChain, Edits, NoProc
  <1>2. CommandInv /\ ChainInv /\ [Next]_vars => (CommandInv /\ ChainInv)'
    BY NextInv, NextChain DEF ChainInv
  <1>3. CommandInv /\ ChainInv => EditsChain
    BY DEF ChainInv
  <1> QED
    BY <1>1, <1>2, <1>3, PTL DEF Spec

-----------------------------------------------------------------------------
(***************************************************************************)
(* A daemon that runs is not passed over.                                  *)
(***************************************************************************)
(* The files of one vault change, or its daemon.                               *)
LEMMA EntryAnnounced ==
  ASSUME Announced, NEW v, NEW x, NEW y,
         v \in Vaults => DiskShape(x) /\ DaemonShape(y) /\ (y.up => x.json \/ y.lost),
         (disk' = disk /\ x = disk[v]) \/ disk' = [disk EXCEPT ![v] = x],
         (daemon' = daemon /\ y = daemon[v]) \/ daemon' = [daemon EXCEPT ![v] = y]
  PROVE  Announced'
  <1>1. DOMAIN disk' = Vaults /\ DOMAIN daemon' = Vaults
    BY DEF Announced, WorldShapes
  <1>2. ASSUME NEW w \in Vaults
        PROVE  /\ DiskShape(disk'[w]) /\ DaemonShape(daemon'[w])
               /\ daemon'[w].up => disk'[w].json \/ daemon'[w].lost
    <2>1. CASE w = v
      <3>1. disk'[w] = x /\ daemon'[w] = y
        BY <2>1 DEF Announced, WorldShapes
      <3> QED
        BY <2>1, <3>1
    <2>2. CASE w # v
      <3>1. disk'[w] = disk[w] /\ daemon'[w] = daemon[w]
        BY <2>2 DEF Announced, WorldShapes
      <3> QED
        BY <3>1 DEF Announced, WorldShapes
    <2> QED
      BY <2>1, <2>2
  <1> QED
    BY <1>1, <1>2 DEF Announced, WorldShapes

(* What may be written of a daemon that does not start.                        *)
LEMMA KeepsAnnounced ==
  ASSUME Announced, NEW v \in Vaults, NEW x, NEW y, DiskShape(x), DaemonShape(y),
         x.json = disk[v].json, y.up = daemon[v].up, y.lost = daemon[v].lost,
         (disk' = disk /\ x = disk[v]) \/ disk' = [disk EXCEPT ![v] = x],
         (daemon' = daemon /\ y = daemon[v]) \/ daemon' = [daemon EXCEPT ![v] = y]
  PROVE  Announced'
  <1>1. y.up => x.json \/ y.lost
    BY DEF Announced
  <1> QED
    BY <1>1, EntryAnnounced

(* The session of a daemon ends or begins.                                     *)
LEMMA TokenAnnounced ==
  ASSUME Announced, NEW v \in Vaults, NEW t, NEW x, DiskShape(x), x.json = disk[v].json,
         (disk' = disk /\ x = disk[v]) \/ disk' = [disk EXCEPT ![v] = x],
         daemon' = [daemon EXCEPT ![v].token = t]
  PROVE  Announced'
  <1>1. PICK y : y = [daemon[v] EXCEPT !.token = t]
    OBVIOUS
  <1>2. DaemonShape(daemon[v])
    BY DEF Announced, WorldShapes
  <1>3. DaemonShape(y) /\ y.up = daemon[v].up /\ y.lost = daemon[v].lost
    BY <1>1, <1>2 DEF DaemonShape
  <1>4. daemon' = [daemon EXCEPT ![v] = y]
    BY <1>1
  <1> QED
    BY <1>3, <1>4, KeepsAnnounced

(* What a daemon does for a command.                                           *)
LEMMA ServeAnnounced ==
  ASSUME CommandInv, Announced, NEW p \in Procs, Serve(p) \/ Declined(p) \/ Approve(p)
  PROVE  Announced'
  <1> DEFINE v == Side(p)
             c == Line(p)
  <1>1. /\ v \in Vaults /\ DiskShape(disk[v]) /\ DaemonShape(daemon[v])
    BY DEF CommandInv, Vaulted, Reachable, Announced, WorldShapes
  <1>2. ASSUME disk' = disk, daemon' = daemon PROVE Announced'
    BY <1>2 DEF Announced, WorldShapes
  <1>3. CASE ServeInit(p)
    <2>1. PICK old : old = IF c.force THEN [disk[v] EXCEPT !.file = 0] ELSE disk[v]
      OBVIOUS
    <2>2. DiskShape(old) /\ old.json = disk[v].json
      BY <1>1, <2>1 DEF DiskShape
    <2>3. PICK y : y = IF c.force THEN [daemon[v] EXCEPT !.token = 0] ELSE daemon[v]
      OBVIOUS
    <2>4. DaemonShape(y) /\ y.up = daemon[v].up /\ y.lost = daemon[v].lost
      BY <1>1, <2>3 DEF DaemonShape
    <2>5. (daemon' = daemon /\ y = daemon[v]) \/ daemon' = [daemon EXCEPT ![v] = y]
      BY <1>3, <2>3 DEF ServeInit
    <2>6. \/ disk' = [disk EXCEPT ![v] = old]
          \/ disk' = [disk EXCEPT ![v] = [old EXCEPT !.made = TRUE, !.pw = c.pw,
                                                     !.code = old.code + 1]]
      BY <1>3, <2>1 DEF ServeInit
    <2>7. CASE disk' = [disk EXCEPT ![v] = old]
      BY <1>1, <2>2, <2>4, <2>5, <2>7, KeepsAnnounced
    <2>8. CASE disk' = [disk EXCEPT ![v] = [old EXCEPT !.made = TRUE, !.pw = c.pw,
                                                       !.code = old.code + 1]]
      <3>1. PICK x : x = [old EXCEPT !.made = TRUE, !.pw = c.pw, !.code = old.code + 1]
        OBVIOUS
      <3>2. DiskShape(x) /\ x.json = disk[v].json
        BY <2>2, <3>1 DEF DiskShape
      <3>3. disk' = [disk EXCEPT ![v] = x]
        BY <2>8, <3>1
      <3> QED
        BY <1>1, <2>4, <2>5, <3>2, <3>3, KeepsAnnounced
    <2> QED
      BY <2>6, <2>7, <2>8
  <1>4. ASSUME NEW f, NEW t, disk' = [disk EXCEPT ![v].file = f],
               daemon' = [daemon EXCEPT ![v].token = t]
        PROVE  Announced'
    <2>1. PICK x : x = [disk[v] EXCEPT !.file = f]
      OBVIOUS
    <2>2. DiskShape(x) /\ x.json = disk[v].json
      BY <1>1, <2>1 DEF DiskShape
    <2>3. disk' = [disk EXCEPT ![v] = x]
      BY <1>4, <2>1
    <2> QED
      BY <1>1, <1>4, <2>2, <2>3, TokenAnnounced
  <1>5. CASE ServeUnlock(p)
    BY <1>2, <1>4, <1>5 DEF ServeUnlock
  <1>6. CASE ServeLock(p)
    BY <1>4, <1>6 DEF ServeLock, Locks
  <1>7. CASE ServeRecover(p)
    <2>1. /\ daemon' = [daemon EXCEPT ![v].token = 0]
          /\ \/ disk' = [disk EXCEPT ![v].file = 0]
             \/ disk' = [disk EXCEPT ![v] = [disk[v] EXCEPT !.file = 0, !.pw = c.pw,
                                                            !.code = c.code + 1]]
      BY <1>7 DEF ServeRecover
    <2>2. CASE disk' = [disk EXCEPT ![v].file = 0]
      BY <1>4, <2>1, <2>2
    <2>3. CASE disk' = [disk EXCEPT ![v] = [disk[v] EXCEPT !.file = 0, !.pw = c.pw,
                                                           !.code = c.code + 1]]
      <3>1. PICK x : x = [disk[v] EXCEPT !.file = 0, !.pw = c.pw, !.code = c.code + 1]
        OBVIOUS
      <3>2. DiskShape(x) /\ x.json = disk[v].json
        BY <1>1, <3>1 DEF DiskShape
      <3>3. disk' = [disk EXCEPT ![v] = x]
        BY <2>3, <3>1
      <3> QED
        BY <1>1, <2>1, <3>2, <3>3, TokenAnnounced
    <2> QED
      BY <2>1, <2>2, <2>3
  <1>8. CASE \/ ServeStatus(p) \/ ServeSession(p) \/ ServeGated(p) \/ Judged(p)
             \/ Declined(p) \/ Approve(p)
    BY <1>2, <1>8, InsideFx
       DEF ServeStatus, ServeSession, ServeGated, Judged, Declined, Approve, Aside, world
  <1> QED
    BY <1>3, <1>5, <1>6, <1>7, <1>8 DEF Serve

(* A daemon starts.                                                            *)
LEMMA StartAnnounced ==
  ASSUME Announced, NEW v,
         daemon' = [daemon EXCEPT ![v] = Started(v)],
         disk' = [disk EXCEPT ![v].json = TRUE]
  PROVE  Announced'
  <1>1. PICK x : x = [disk[v] EXCEPT !.json = TRUE]
    OBVIOUS
  <1>2. PICK y : y = Started(v)
    OBVIOUS
  <1>3. v \in Vaults => DiskShape(x) /\ DaemonShape(y) /\ (y.up => x.json \/ y.lost)
    <2>1. v \in Vaults => DiskShape(disk[v]) /\ DaemonShape(daemon[v])
      BY DEF Announced, WorldShapes
    <2>2. DiskShape(disk[v]) => DiskShape(x) /\ x.json = TRUE
      BY <1>1 DEF DiskShape
    <2>3. DaemonShape(daemon[v]) => DaemonShape(y)
      BY <1>2 DEF DaemonShape, Started
    <2> QED
      BY <2>1, <2>2, <2>3
  <1>4. disk' = [disk EXCEPT ![v] = x] /\ daemon' = [daemon EXCEPT ![v] = y]
    BY <1>1, <1>2
  <1> QED
    BY <1>3, <1>4, EntryAnnounced

(* A daemon goes, or has its session or its settings changed.                  *)
LEMMA VaultAnnounced ==
  ASSUME Announced, NEW v \in Vaults,
         \/ OrderlyStop(v) \/ Crash(v) \/ CleansUp(v) \/ DesktopQuits(v)
         \/ IdleLock(v) \/ DesktopSave(v) \/ DesktopStart(v)
  PROVE  Announced'
  <1>1. DiskShape(disk[v]) /\ DaemonShape(daemon[v])
    BY DEF Announced, WorldShapes
  <1>2. CASE OrderlyStop(v) \/ Crash(v)
    <2>1. PICK y : /\ DaemonShape(y) /\ y.up = FALSE
                   /\ daemon' = [daemon EXCEPT ![v] = y]
      <3>1. PICK cleansUp : Drops(v, cleansUp)
        BY <1>2 DEF OrderlyStop, Crash
      <3>2. PICK y : y = [daemon[v] EXCEPT !.up = FALSE, !.token = 0, !.lost = FALSE,
                                           !.leaving = daemon[v].leaving \/ cleansUp]
        OBVIOUS
      <3>3. DaemonShape(y) /\ y.up = FALSE
        BY <1>1, <3>2 DEF DaemonShape
      <3>4. daemon' = [daemon EXCEPT ![v] = y]
        BY <3>1, <3>2 DEF Drops, Announced, WorldShapes
      <3> QED
        BY <3>3, <3>4
    <2>2. PICK x : x = disk[v]
      OBVIOUS
    <2>3. disk' = disk
      BY <1>2 DEF OrderlyStop, Crash
    <2> QED
      BY <1>1, <2>1, <2>2, <2>3, EntryAnnounced
  <1>6. CASE CleansUp(v) \/ DesktopQuits(v)
    <2>1. PICK x : x = [disk[v] EXCEPT !.json = FALSE, !.file = 0]
      OBVIOUS
    <2>2. DiskShape(x) /\ disk' = [disk EXCEPT ![v] = x]
      BY <1>1, <1>6, <2>1 DEF DiskShape, CleansUp, DesktopQuits, Unannounced, Announced, WorldShapes
    <2>3. PICK y : y = IF CleansUp(v) THEN [daemon[v] EXCEPT !.leaving = FALSE, !.lost = daemon[v].up]
                                      ELSE [daemon[v] EXCEPT !.token = 0, !.lost = TRUE]
      OBVIOUS
    <2>4. DaemonShape(y) /\ (y.up => y.lost)
      BY <1>1, <2>3 DEF DaemonShape
    <2>5. daemon' = [daemon EXCEPT ![v] = y]
      BY <1>6, <2>3 DEF CleansUp, DesktopQuits, Announced, WorldShapes
    <2> QED
      BY <2>2, <2>4, <2>5, EntryAnnounced
  <1>3. CASE IdleLock(v)
    <2>1. PICK x : x = [disk[v] EXCEPT !.file = 0]
      OBVIOUS
    <2>2. DiskShape(x) /\ x.json = disk[v].json
      BY <1>1, <2>1 DEF DiskShape
    <2>3. disk' = [disk EXCEPT ![v] = x] /\ daemon' = [daemon EXCEPT ![v].token = 0]
      BY <1>3, <2>1 DEF IdleLock, Locks
    <2> QED
      BY <2>2, <2>3, TokenAnnounced
  <1>4. CASE DesktopSave(v)
    <2>1. PICK conf : conf = [daemon[v].conf EXCEPT !.lock = 15 - daemon[v].conf.lock]
      OBVIOUS
    <2>2. PICK x : x = [disk[v] EXCEPT !.conf = conf]
      OBVIOUS
    <2>3. PICK y : y = [daemon[v] EXCEPT !.conf = conf]
      OBVIOUS
    <2>4. /\ DiskShape(x) /\ x.json = disk[v].json
          /\ DaemonShape(y) /\ y.up = daemon[v].up /\ y.lost = daemon[v].lost
      BY <1>1, <2>2, <2>3 DEF DiskShape, DaemonShape
    <2>5. disk' = [disk EXCEPT ![v] = x] /\ daemon' = [daemon EXCEPT ![v] = y]
      BY <1>4, <2>1, <2>2, <2>3 DEF DesktopSave
    <2> QED
      BY <2>4, <2>5, KeepsAnnounced
  <1>5. CASE DesktopStart(v)
    BY <1>5, StartAnnounced DEF DesktopStart
  <1> QED
    BY <1>2, <1>3, <1>4, <1>5, <1>6

(* What a command does on its own.                                             *)
LEMMA ClientAnnounced ==
  ASSUME Announced, NEW p \in Procs, Client(p) \/ Lose(p) \/ Kill(p)
  PROVE  Announced'
  <1>1. ASSUME disk' = disk, daemon' = daemon PROVE Announced'
    BY <1>1 DEF Announced, WorldShapes
  <1>2. CASE Inside \/ Unhurt
    BY <1>1, <1>2, InsideFx, UnhurtFx
  <1>3. CASE Credentials(p) \/ Copy(p) \/ Wake(p)
    BY <1>1, <1>3, InsideFx, UnhurtFx DEF Credentials, Copy, Wake
  <1>4. CASE WriteConf(p)
    <2> DEFINE v == proc[p].shown
               conf == [proc[p].conf EXCEPT !.url = Line(p).url]
    <2>1. Unhurt \/ (disk' = [disk EXCEPT ![v].conf = conf] /\ daemon' = daemon)
      BY <1>4 DEF WriteConf
    <2>2. CASE disk' = [disk EXCEPT ![v].conf = conf] /\ daemon' = daemon
      <3> HIDE DEF conf
      <3>1. PICK x : x = [disk[v] EXCEPT !.conf = conf]
        OBVIOUS
      <3>2. PICK y : y = daemon[v]
        OBVIOUS
      <3>3. disk' = [disk EXCEPT ![v] = x]
        BY <2>2, <3>1
      <3>4. v \in Vaults => DiskShape(x) /\ DaemonShape(y) /\ (y.up => x.json \/ y.lost)
        BY <3>1, <3>2 DEF Announced, WorldShapes, DiskShape
      <3> QED
        BY <2>2, <3>2, <3>3, <3>4, EntryAnnounced
    <2> QED
      BY <1>2, <2>1, <2>2
  <1>5. CASE Ensure(p)
    <2>1. \/ Inside \/ Unhurt
          \/ /\ daemon' = [daemon EXCEPT ![0] = Started(0)]
             /\ disk' = [disk EXCEPT ![0].json = TRUE]
      BY <1>5 DEF Ensure
    <2>2. CASE /\ daemon' = [daemon EXCEPT ![0] = Started(0)]
               /\ disk' = [disk EXCEPT ![0].json = TRUE]
      BY <2>2, StartAnnounced
    <2> QED
      BY <1>2, <2>1, <2>2
  <1> QED
    BY <1>2, <1>3, <1>4, <1>5
       DEF Client, Start, Look, ReadConf, Directory, Choose, ReadToken, Probe, Unreachable,
           Receive, Save, Spawn, Lose, Kill

(* Whatever happens.                                                           *)
LEMMA NextAnnounced ==
  ASSUME CommandInv, Announced, [Next]_vars
  PROVE  Announced'
  <1>1. ASSUME disk' = disk, daemon' = daemon PROVE Announced'
    BY <1>1 DEF Announced, WorldShapes
  <1>2. ASSUME NEW p \in Procs, Step(p) \/ Approve(p) \/ Lose(p) \/ Kill(p) PROVE Announced'
    BY <1>2, ClientAnnounced, ServeAnnounced DEF Step
  <1>3. CASE Judging \/ Replaced \/ AllDone \/ UNCHANGED vars
    BY <1>1, <1>3 DEF Judging, Replaced, AllDone, vars, world
  <1> QED
    BY <1>2, <1>3, VaultAnnounced DEF Next

(* At the start a daemon that runs has written its endpoint file.              *)
LEMMA InitAnnounced == Init => Announced
  <1> SUFFICES ASSUME Init PROVE Announced
    OBVIOUS
  <1>1. /\ plan \in Plans
        /\ \A v \in Vaults :
             /\ daemon[v] = [up |-> plan.start[v].up, token |-> IF plan.start[v].open THEN 1 ELSE 0,
                             conf |-> plan.conf, leaving |-> FALSE, lost |-> FALSE]
             /\ disk[v] = [json |-> plan.start[v].json, file |-> IF plan.start[v].open THEN 1 ELSE 0,
                           made |-> plan.start[v].made, pw |-> "old", code |-> 0, conf |-> plan.conf]
        /\ DOMAIN daemon = Vaults /\ DOMAIN disk = Vaults
    BY DEF Init
  <1>2. \A v \in Vaults : plan.start[v].up => plan.start[v].json
    BY <1>1, PlanAssumption
  <1>3. ASSUME NEW v \in Vaults
        PROVE  DiskShape(disk[v]) /\ DaemonShape(daemon[v]) /\ (daemon[v].up => disk[v].json)
    BY <1>1, <1>2 DEF DiskShape, DaemonShape
  <1> QED
    BY <1>1, <1>3 DEF Announced, WorldShapes

(* A command turns to the daemon of its own system only by a decision that     *)
(* finds no Windows user with an endpoint file, or was told not to look.       *)
LEMMA TurnsMeant ==
  ASSUME CommandInv, ItemsShape, Announced, [Next]_vars, NEW p \in Procs, Turns(p)
  PROVE  Meant(\A v \in Users : daemon[v].up => daemon[v].lost)
  <1>1. /\ ProcShapes /\ plan \in Plans /\ proc[p].at = "choose" /\ proc'[p].at = "ensure"
        /\ Good(Line(p), proc[p]) /\ proc[p].acted = 0
    BY DEF CommandInv, Shapes, AllGood, Turns, At, Good
  <1>2. CASE Choose(p)
    <2>1. CASE Set(p, [proc[p] EXCEPT !.target = Decide,
                                      !.at = IF Decide.kind = "local" THEN "ensure" ELSE "token"])
      <3>1. PICK n : n = IF Decide.kind = "local" THEN "ensure" ELSE "token"
        OBVIOUS
      <3>2. proc'[p].at = n
        BY <1>1, <2>1, <3>1, ChosenFx
      <3>3. Decide.kind = "local"
        BY <1>1, <3>1, <3>2
      <3>4. Found = 0 => \A v \in Users : daemon[v].up => daemon[v].lost
        BY FoundFx DEF Announced, Users
      <3> QED
        BY <1>1, <3>3, <3>4, DecideFx DEF Meant
    <2>2. CASE Fails(p, "transport")
      BY <1>1, <2>2, FailsFx
    <2> QED
      BY <1>2, <2>1, <2>2 DEF Choose
  <1>3. CASE ~Choose(p)
    <2>1. ASSUME NEW q \in Procs, ByDaemon(q) PROVE FALSE
      BY <1>1, <2>1 DEF ByDaemon, Served, Only
    <2>2. ASSUME NEW v \in Vaults, ByLoss(v) PROVE FALSE
      BY <1>1, <2>2 DEF ByLoss, Cut
    <2>3. ~Others
      BY <1>1 DEF Others
    <2>4. ASSUME NEW q \in Procs, q # p, Client(q) \/ Lose(q) \/ Kill(q) PROVE FALSE
      BY <1>1, <2>4, ClientSteps DEF Onward, Only
    <2>5. ~Kill(p) /\ ~Lose(p)
      <3>1. ASSUME Kill(p) PROVE FALSE
        BY <1>1, <3>1, FailsFx DEF Kill
      <3> QED
        BY <1>1, <3>1 DEF Lose, At
    <2>6. ~Client(p)
      BY <1>1, <1>3
         DEF Client, Start, Look, Credentials, ReadConf, WriteConf, Directory, Ensure, ReadToken,
             Probe, Unreachable, Receive, Save, Copy, Wake, Spawn, At
    <2> QED
      BY <2>1, <2>2, <2>3, <2>4, <2>5, <2>6, DaemonSteps, LossSteps, OtherSteps DEF Next, Step
  <1> QED
    BY <1>2, <1>3

(* In WSL, a Windows daemon that runs, and whose endpoint file no exit, its    *)
(* own or a late one of the daemon before, has taken, is never passed over for *)
(* a local one, at any request of any command, however daemons come and go and *)
(* whatever was decided before (decide_with and find_windows_install of        *)
(* bridge_backend.rs).                                                         *)
THEOREM RunningIsNeverPassedOver == Spec => RunningNeverPassedOver
  <1>1. Init => CommandInv /\ ItemsShape /\ Announced
    BY InitInv, InitAnnounced
  <1>2. CommandInv /\ ItemsShape /\ Announced /\ [Next]_vars
        => (CommandInv /\ ItemsShape /\ Announced)'
    BY NextInv, NextAnnounced
  <1>3. CommandInv /\ ItemsShape /\ Announced /\ [Next]_vars
        => [\A p \in Procs : Turns(p) => Meant(\A v \in Users : daemon[v].up => daemon[v].lost)]_vars
    BY TurnsMeant
  <1> QED
    BY <1>1, <1>2, <1>3, PTL DEF Spec, RunningNeverPassedOver

-----------------------------------------------------------------------------
(***************************************************************************)
(* A rule covers the directory it was added for.                           *)
(***************************************************************************)
(* Where the rule is told of, and for whom it is spelled.                      *)
LEMMA DirectorySpells ==
  ASSUME CommandInv, NEW p \in Procs, Directory(p), proc'[p].at # "done",
         Line(p).dir.kind = "existing"
  PROVE  Spelled(p)'
  <1> DEFINE d == Line(p).dir
             r == RuleDir(d, Decide.kind = "bridge")
  <1>1. /\ ProcShapes /\ plan \in Plans /\ plan' = plan
    BY InsideFx DEF CommandInv, Shapes, Directory, Steady
  <1>2. ~Exits(p, 1)
    BY <1>1, ExitsFx
  <1>3. /\ r # NoDir
        /\ Set(p, [proc[p] EXCEPT !.at = "choose", !.req = "ruleadd", !.dir = r,
                                  !.shown = Decide.side])
    BY <1>2 DEF Directory
  <1>4. proc'[p].dir = r /\ proc'[p].shown = Decide.side
    <2> HIDE DEF r
    <2> QED
      BY <1>1, <1>3, HasDirFx
  <1>5. r = IF Decide.kind = "bridge" THEN BridgedDir(d) ELSE Native(d)
    BY DEF RuleDir
  <1>6. CASE Decide.kind = "bridge"
    <2>1. r = IF Mounted(d) THEN Drive(d) ELSE WslDir(host.distro, d)
      BY <1>3, <1>5, <1>6 DEF BridgedDir, Confirmed, ResolveWsl
    <2>2. Decide.side \in Users /\ host.os = "linux" /\ Decide.side # 0 /\ Decide.side \in Vaults
      BY <1>1, <1>6, DecideFx DEF Users
    <2> QED
      BY <1>1, <1>4, <2>1, <2>2 DEF Spelled, host, Line, Mounted, Drive, WslDir, Distro, Posix
  <1>7. CASE Decide.kind # "bridge"
    <2>1. r = Native(d) /\ Decide.side = 0 /\ 0 \in Vaults
      BY <1>1, <1>5, <1>7, DecideFx
    <2> QED
      BY <1>1, <1>4, <2>1 DEF Spelled, host, Line, Native, Posix, Mounted
  <1> QED
    BY <1>6, <1>7

(* What the directory of a rule is spelled for stays what it was.              *)
LEMMA SpelledKept ==
  ASSUME NEW p, plan' = plan, proc'[p].dir = proc[p].dir, proc'[p].shown = proc[p].shown
  PROVE  Spelled(p) => Spelled(p)'
  BY DEF Spelled, Line, host, Native, Posix, Mounted, Drive, WslDir, Distro

(* And so does what its daemon makes of it.                                    *)
LEMMA ForeignKept ==
  ASSUME NEW p, plan' = plan, proc'[p].dir = proc[p].dir, proc'[p].target = proc[p].target
  PROVE  ~Foreign(p) => ~Foreign(p)'
  BY DEF Foreign, SystemOf, Side, host

(* A command that adds a rule knows for whom it has spelled the directory.     *)
LEMMA NextDir ==
  ASSUME CommandInv, ItemsShape, DirMeant, [Next]_vars
  PROVE  DirMeant'
  <1> SUFFICES ASSUME NEW p \in Procs,
                      (Line(p).verb = "ruleadd" /\ Line(p).dir.kind = "existing")'
               PROVE  /\ proc'[p].at \in Sending \/ proc'[p].acted = 1 => Spelled(p)'
                      /\ proc'[p].at \in {"judge", "prompt"} \/ proc'[p].acted = 1 => ~Foreign(p)'
    BY DEF DirMeant
  <1>1. plan' = plan
    BY NextSteps DEF ByCommand, ByDaemon, ByLoss, Others, Steady, Still
  <1>2. /\ Line(p).verb = "ruleadd" /\ Line(p).dir.kind = "existing" /\ Line(p).verb \in Mutating
        /\ Good(Line(p), proc[p])
    BY <1>1 DEF Line, CommandInv, AllGood, Mutating
  <1>3. /\ proc[p].at \in Sending \/ proc[p].acted = 1 => Spelled(p)
        /\ proc[p].at \in {"judge", "prompt"} \/ proc[p].acted = 1 => ~Foreign(p)
    BY <1>2 DEF DirMeant
  <1>4. ASSUME proc'[p].dir = proc[p].dir, proc'[p].shown = proc[p].shown,
               proc'[p].target = proc[p].target, proc'[p].acted = proc[p].acted,
               proc'[p].at = proc[p].at \/ proc'[p].at = "done"
        PROVE  /\ proc'[p].at \in Sending \/ proc'[p].acted = 1 => Spelled(p)'
               /\ proc'[p].at \in {"judge", "prompt"} \/ proc'[p].acted = 1 => ~Foreign(p)'
    <2>1. "done" \notin Sending
      BY DEF Sending
    <2> QED
      BY <1>1, <1>3, <1>4, <2>1, SpelledKept, ForeignKept
  <1>5. CASE proc'[p] = proc[p]
    BY <1>4, <1>5
  <1>6. CASE ByCommand(p)
    <2>1. Onward(p) /\ (proc[p].at = "dir" => Directory(p) \/ proc'[p].at = "done")
      BY <1>6 DEF ByCommand
    <2>2. CASE proc[p].acted = 1
      <3>1. proc'[p].at = "done" /\ SameRequest(p) /\ SameDone(p)
        BY <2>1, <2>2 DEF Onward
      <3> QED
        BY <1>4, <3>1 DEF SameRequest, SameDone
    <2>3. CASE proc[p].acted # 1
      <3>1. proc'[p].acted # 1 /\ proc'[p].at \notin {"judge", "prompt"}
        BY <2>1, <2>3 DEF Onward, SameDone
      <3>2. CASE proc'[p].at \in Sending
        <4>1. proc[p].at \in Sending \cup {"dir"} /\ proc'[p].at # "done"
          BY <1>2, <2>1, <3>2 DEF Onward, Sending
        <4>2. CASE proc[p].at \in Sending
          <5>1. proc'[p].dir = proc[p].dir /\ proc'[p].shown = proc[p].shown
            BY <2>1, <4>2 DEF Onward
          <5> QED
            BY <1>1, <1>3, <3>1, <4>2, <5>1, SpelledKept
        <4>3. CASE proc[p].at = "dir"
          BY <1>2, <2>1, <3>1, <4>1, <4>3, DirectorySpells
        <4> QED
          BY <4>1, <4>2, <4>3
      <3> QED
        BY <3>1, <3>2
    <2> QED
      BY <2>2, <2>3
  <1>7. CASE ByDaemon(p)
    <2>1. /\ proc[p].at \in {"send", "judge", "prompt"} /\ proc[p].at \in Sending
          /\ proc'[p].dir = proc[p].dir /\ proc'[p].shown = proc[p].shown
          /\ proc'[p].target = proc[p].target /\ Admits(p)
      BY <1>7 DEF ByDaemon, Served, Kept, Sending
    <2>2. Spelled(p)'
      BY <1>1, <1>3, <2>1, SpelledKept
    <2>3. proc[p].req = "ruleadd"
      BY <1>2, <2>1 DEF Good, Method
    <2>4. proc'[p].at \in {"judge", "prompt"} \/ proc'[p].acted = 1 => ~Foreign(p)
      BY <1>3, <2>1, <2>3 DEF Admits
    <2> QED
      BY <1>1, <2>1, <2>2, <2>4, ForeignKept
  <1>8. ASSUME NEW v \in Vaults, ByLoss(v)
        PROVE  /\ proc'[p].at \in Sending \/ proc'[p].acted = 1 => Spelled(p)'
               /\ proc'[p].at \in {"judge", "prompt"} \/ proc'[p].acted = 1 => ~Foreign(p)'
    <2>1. \/ proc'[p] = proc[p]
          \/ Kept(p) /\ SameDone(p) /\ proc'[p].at = "done"
      BY <1>8 DEF ByLoss, Cut
    <2> QED
      BY <1>4, <1>5, <2>1 DEF Kept, SameDone
  <1>9. \/ proc'[p] = proc[p] \/ ByCommand(p) \/ ByDaemon(p)
        \/ \E v \in Vaults : ByLoss(v)
    BY NextSteps DEF ByCommand, ByDaemon, Onward, Served, Only, Others
  <1> QED
    BY <1>5, <1>6, <1>7, <1>8, <1>9

(* The whole of a sequence.                                                    *)
LEMMA WholeSeq ==
  ASSUME NEW S, NEW s \in Seq(S)
  PROVE  Len(s) \in 0..Len(s) /\ SubSeq(s, 1, Len(s)) = s
  OBVIOUS

(* A directory lies within itself, however it is spelled.                      *)
LEMMA WithinItself ==
  ASSUME NEW a, NEW b, NEW S, NEW s \in Seq(S), a.names = s, b.names = s,
         Root(a) = Root(b)
  PROVE  Within(a, b)
  <1>1. Len(s) \in 0..Len(s) /\ SubSeq(s, 1, Len(s)) = s
    BY WholeSeq
  <1> QED
    BY <1>1 DEF Within

(* The names of a directory, of the mount and of a distribution.               *)
LEMMA NamesSeq ==
  ASSUME NEW d, d.names \in Seq(Word), NEW w
  PROVE  \E S : /\ d.names \in Seq(S) /\ Posix(d).names \in Seq(S)
                /\ <<Distro(w)>> \o Posix(d).names \in Seq(S)
  <1> DEFINE S == Word \cup {MountWord, Distro(w)}
  <1>1. d.names \in Seq(S) /\ MountWord \in S /\ Distro(w) \in S
    OBVIOUS
  <1> HIDE DEF S
  <1>2. Posix(d).names \in Seq(S)
    BY <1>1 DEF Posix
  <1>3. <<Distro(w)>> \o Posix(d).names \in Seq(S)
    BY <1>1, <1>2
  <1> QED
    BY <1>1, <1>2, <1>3

(* The directory it was spelled for is where the caller is seen.               *)
LEMMA SpelledCovers ==
  ASSUME CommandInv, NEW p \in Procs, Spelled(p), ~Foreign(p), Line(p).verb = "ruleadd",
         host.own = host.distro, proc[p].shown = 0 \/ Side(p) # 0
  PROVE  Covers(p)
  <1> DEFINE d == Line(p).dir
  <1>1. d.names \in Seq(Word) /\ Reachable(Side(p))
    BY PlanFacts DEF CommandInv, Vaulted
  <1>2. PICK S : /\ d.names \in Seq(S) /\ Posix(d).names \in Seq(S)
                 /\ <<Distro(host.own)>> \o Posix(d).names \in Seq(S)
    BY <1>1, NamesSeq
  <1>3. CASE proc[p].shown = 0
    <2>1. proc[p].dir = Native(d)
      BY <1>3 DEF Spelled
    <2>2. Side(p) = 0
      BY <1>1, <2>1 DEF Reachable, Foreign, SystemOf, Native, Posix
    <2>3. CASE host.os # "windows"
      <3>1. PICK x : x = Posix(d)
        OBVIOUS
      <3>2. x.form = "posix" /\ x.names \in Seq(S)
        BY <1>2, <3>1 DEF Posix
      <3>3. Canonical(x) = x
        BY <3>2 DEF Canonical, WslUnc
      <3>4. proc[p].dir = x /\ SeenFrom(Side(p), d) = x
        BY <2>1, <2>2, <2>3, <3>1 DEF Native, SeenFrom
      <3> QED
        BY <3>2, <3>3, <3>4, WithinItself DEF Covers
    <2>4. CASE host.os = "windows"
      <3>1. PICK x : x = [form |-> "verbatim", names |-> d.names]
        OBVIOUS
      <3>2. PICK y : y = [x EXCEPT !.form = "drive"]
        OBVIOUS
      <3>3. /\ Canonical(x) = y /\ x.names \in Seq(S) /\ y.names = x.names
            /\ Root(x) = Root(y)
        BY <1>2, <3>1, <3>2 DEF Canonical, WslUnc, Root
      <3>4. proc[p].dir = x /\ SeenFrom(Side(p), d) = x
        BY <2>1, <2>2, <2>4, <3>1 DEF Native, SeenFrom
      <3> QED
        BY <3>3, <3>4, WithinItself DEF Covers
    <2> QED
      BY <2>3, <2>4
  <1>4. CASE proc[p].shown # 0
    <2>1. Side(p) # 0
      BY <1>4
    <2>2. CASE Mounted(d)
      <3>1. PICK x : x = Drive(d)
        OBVIOUS
      <3>2. x.form = "drive" /\ x.names \in Seq(S) /\ Canonical(x) = x
        BY <1>2, <3>1 DEF Drive, Canonical, WslUnc
      <3>3. proc[p].dir = x /\ SeenFrom(Side(p), d) = x
        BY <1>4, <2>1, <2>2, <3>1 DEF Spelled, SeenFrom
      <3> QED
        BY <3>2, <3>3, WithinItself DEF Covers
    <2>3. CASE ~Mounted(d)
      <3>1. PICK x : x = WslDir(host.distro, d)
        OBVIOUS
      <3>2. PICK y : y = [form |-> "wsl.localhost", names |-> <<Distro(host.own)>> \o Posix(d).names]
        OBVIOUS
      <3>3. /\ Canonical(x) = x /\ x.names \in Seq(S) /\ y.names = x.names
            /\ Root(x) = Root(y)
        BY <1>2, <3>1, <3>2 DEF WslDir, Canonical, WslUnc, Root
      <3>4. proc[p].dir = x /\ SeenFrom(Side(p), d) = y
        BY <1>4, <2>1, <2>3, <3>1, <3>2 DEF Spelled, SeenFrom
      <3> QED
        BY <3>3, <3>4, WithinItself DEF Covers
    <2> QED
      BY <2>2, <2>3
  <1> QED
    BY <1>3, <1>4

(* A rule that `lk rule add` reports as stored for a directory that exists     *)
(* covers whoever works in it, as the daemon that got the rule sees them, even *)
(* where the request went to another daemon than the one the directory was     *)
(* spelled for, unless the bridge was gone between the two (cmd_rule_add_inner *)
(* of main.rs, the checks of rule_add_begin).                                  *)
THEOREM RulesCoverTheirDirs == Spec => []RuleCoversItsDir
  <1>1. Init => CommandInv /\ ItemsShape /\ DirMeant
    BY InitInv DEF Init, DirMeant, NoProc, Sending
  <1>2. CommandInv /\ ItemsShape /\ DirMeant /\ [Next]_vars
        => (CommandInv /\ ItemsShape /\ DirMeant)'
    BY NextInv, NextDir
  <1>3. CommandInv /\ DirMeant => RuleCoversItsDir
    <2> SUFFICES ASSUME CommandInv, DirMeant, NEW p \in Procs, Added(p),
                        proc[p].shown = 0 \/ Side(p) # 0
                 PROVE  Covers(p)
      BY DEF RuleCoversItsDir
    <2>1. /\ proc[p].at = "done" /\ Line(p).verb = "ruleadd" /\ proc[p].exit = 0
          /\ Line(p).dir.kind = "existing" /\ host.own = host.distro
      BY DEF Added, Ended, At
    <2>2. proc[p].acted = 1
      BY <2>1 DEF CommandInv, AllGood, Good, Mutating
    <2> QED
      BY <2>1, <2>2, SpelledCovers DEF DirMeant
  <1> QED
    BY <1>1, <1>2, <1>3, PTL DEF Spec

-----------------------------------------------------------------------------
(***************************************************************************)
(* A digest that lets somebody through is of what the program held.        *)
(***************************************************************************)
(* Layer 3 lets nobody through by itself.                                      *)
LEMMA UnmatchedDenies == ~Settled(Unmatched).allowed /\ ~Settled(NeedsApproval).allowed
  BY DEF Settled, Unmatched, Prompt, NeedsApproval, Denied

(* Files and cache stay, and so does what is known of them.                    *)
LEMMA CacheKept ==
  ASSUME FilesShape, CacheRight, files' = files, clock' = clock, cache' = cache
  PROVE  FilesShape' /\ CacheRight'
  BY DEF FilesShape, CacheRight, MetaOf, Taken

(* Where the judge has nothing to do with programs.                            *)
LEMMA CallKept ==
  ASSUME HashInv, files' = files, clock' = clock, cache' = cache,
         call' = call \/ call' = NoCall
  PROVE  HashInv'
  <1>1. FilesShape' /\ CacheRight'
    BY CacheKept DEF HashInv
  <1>2. CASE call' = call
    BY <1>1, <1>2 DEF HashInv, CallLooks, Taken, CallSees, HashAnswersNow
  <1>3. CASE call' = NoCall
    <2>1. call'.at = "idle" /\ call'.shown = NoFile
      BY <1>3 DEF NoCall
    <2> QED
      BY <1>1, <2>1 DEF HashInv, CallLooks, Taken, CallSees, HashAnswersNow, OnExe, Looking
  <1> QED
    BY <1>2, <1>3

(* A call begins before it has looked at anything.                             *)
LEMMA BegunHash ==
  ASSUME HashInv, files' = files, clock' = clock, cache' = cache, Begun'
  PROVE  HashInv'
  <1>1. FilesShape' /\ CacheRight'
    BY CacheKept DEF HashInv
  <1> QED
    BY <1>1 DEF HashInv, CallLooks, CallSees, HashAnswersNow, OnExe, Looking, Begun

(* A call that ends without a digest, or not in favour of the request.         *)
LEMMA EndsHash ==
  ASSUME FilesShape', CacheRight', NEW r, CallShape(call), call' = Finished(r),
         call.shown = NoFile \/ ~Settled(r).allowed
  PROVE  HashInv'
  <1>1. call'.at = "done" /\ call'.shown = call.shown /\ call'.result = Settled(r)
    BY DEF Finished, CallShape
  <1> QED
    BY <1>1 DEF HashInv, CallLooks, Taken, CallSees, HashAnswersNow, OnExe, Looking

(* What is found is a program.                                                 *)
LEMMA RealProgram == ASSUME NEW f, FilesShape, IsFile(f) PROVE Real(f) \in Programs
  BY DEF IsFile, Real, FilesShape

(* The digest that is found, and what is filed.                                *)
LEMMA DigestFx ==
  ASSUME FilesShape, CacheRight, NEW f \in Programs, NEW m, Taken(m),
         files' = files, clock' = clock, cache' = Filed(f, m)
  PROVE  /\ FilesShape' /\ CacheRight'
         /\ Digest(f, m) # NoFile =>
              \/ cache[f].data = Digest(f, m) /\ cache[f].meta = m
              \/ files[f] # NoFile /\ files[f].data = Digest(f, m)
  <1>1. CASE Digest(f, m) = NoFile
    BY <1>1, CacheKept DEF Filed
  <1>2. CASE Digest(f, m) # NoFile
    <2>1. PICK x : x = [meta |-> m, data |-> Digest(f, m)]
      OBVIOUS
    <2>2. x.meta = m /\ x.data = Digest(f, m) /\ cache' = [cache EXCEPT ![f] = x]
      BY <1>2, <2>1 DEF Filed
    <2>3. FilesShape'
      BY <2>2 DEF FilesShape
    <2>4. /\ cache'[f] = x
          /\ \A g \in Programs : g # f => cache'[g] = cache[g]
      BY <2>2 DEF FilesShape
    <2>5. \/ cache[f].data = Digest(f, m) /\ cache[f].meta = m
          \/ files[f] # NoFile /\ files[f].data = Digest(f, m)
      BY <1>2 DEF Digest, CachedFor
    <2>6. files[f] # NoFile /\ MetaOf(files[f]) = m => files[f].data = Digest(f, m)
      BY <1>2, <2>5 DEF CacheRight
    <2>7. CacheRight'
      BY <2>2, <2>4, <2>6 DEF CacheRight, MetaOf, Taken
    <2> QED
      BY <1>2, <2>3, <2>5, <2>7
  <1> QED
    BY <1>1, <1>2

(* Each step of a call.                                                        *)
LEMMA EvaluateHash ==
  ASSUME HashInv, CallShape(call), Evaluate
  PROVE  HashInv'
  <1>1. FilesShape /\ CacheRight /\ CallLooks /\ CallSees /\ files' = files /\ clock' = clock
    BY DEF HashInv, Evaluate, Resolve, JudgeStep, Stat, Hash, Info, InfoHash, BindStat, BindHash
  <1>2. ASSUME cache' = cache PROVE FilesShape' /\ CacheRight'
    BY <1>1, <1>2, CacheKept
  <1>3. CASE Resolve
    <2>1. FilesShape' /\ CacheRight' /\ call.exe = NoPath /\ call.shown = NoFile
      BY <1>1, <1>2, <1>3 DEF Resolve, CallLooks
    <2>2. /\ call'.at \in {"resolve", "judge"} /\ call'.shown = NoFile
          /\ call'.exe \in Programs \cup {NoPath}
          /\ call'.at = "resolve" => call'.exe = NoPath
      BY <1>1, <1>3, <2>1, RealProgram DEF Resolve, CallShape
    <2> QED
      BY <2>1, <2>2 DEF HashInv, CallLooks, Taken, CallSees, HashAnswersNow, OnExe, Looking
  <1>4. CASE JudgeStep
    <2>1. /\ FilesShape' /\ CacheRight' /\ call.exe \in Programs \cup {NoPath}
          /\ call.shown = NoFile
      BY <1>1, <1>2, <1>4 DEF JudgeStep, CallLooks
    <2>2. \/ \E r : call' = Finished(r)
          \/ /\ call.exe # NoPath
             /\ \E r : call' = [call EXCEPT !.result = r, !.at = "stat"]
                       \/ call' = [call EXCEPT !.result = r, !.at = "info"]
      BY <1>4 DEF JudgeStep
    <2>3. CASE \E r : call' = Finished(r)
      BY <2>1, <2>3, EndsHash
    <2>4. CASE /\ call.exe # NoPath
               /\ \E r : call' = [call EXCEPT !.result = r, !.at = "stat"]
                         \/ call' = [call EXCEPT !.result = r, !.at = "info"]
      <3>1. call'.at \in {"stat", "info"} /\ call'.exe \in Programs /\ call'.shown = NoFile
        BY <2>1, <2>4 DEF CallShape
      <3> QED
        BY <2>1, <3>1 DEF HashInv, CallLooks, Taken, CallSees, HashAnswersNow, OnExe, Looking
    <2> QED
      BY <2>2, <2>3, <2>4
  <1>5. CASE Stat
    <2>1. /\ FilesShape' /\ CacheRight' /\ call.exe \in Programs /\ call.shown = NoFile
          /\ cache' = cache
      BY <1>1, <1>2, <1>5 DEF Stat, CallLooks, OnExe
    <2>2. CASE files[call.exe] = NoFile
      BY <1>5, <2>1, <2>2, EndsHash DEF Stat
    <2>3. CASE files[call.exe] # NoFile
      <3>1. /\ call'.at \in {"hash", "info"} /\ call'.exe = call.exe /\ call'.shown = NoFile
            /\ call'.meta = MetaOf(files[call.exe]) /\ call'.seen = {files[call.exe].data}
        BY <1>5, <2>1, <2>3 DEF Stat, CallShape, Now
      <3>2. Taken(call'.meta)
        BY <1>1, <2>1, <2>3, <3>1 DEF FilesShape, MetaOf, Taken
      <3>3. cache[call.exe].data # NoFile /\ cache[call.exe].meta = call'.meta =>
              cache[call.exe].data = files[call.exe].data
        BY <1>1, <2>1, <2>3, <3>1 DEF CacheRight
      <3> QED
        BY <1>1, <2>1, <3>1, <3>2, <3>3
           DEF HashInv, CallLooks, Taken, CallSees, HashAnswersNow, OnExe, Looking
    <2> QED
      BY <2>2, <2>3
  <1>6. CASE Hash
    <2>1. /\ call.exe \in Programs /\ Taken(call.meta) /\ call.shown = NoFile
          /\ cache' = Filed(call.exe, call.meta)
      BY <1>1, <1>6 DEF Hash, CallLooks, OnExe, Looking
    <2>2. PICK d : d = Digest(call.exe, call.meta)
      OBVIOUS
    <2>3. /\ FilesShape' /\ CacheRight'
          /\ d # NoFile => \/ cache[call.exe].data = d /\ cache[call.exe].meta = call.meta
                           \/ files[call.exe] # NoFile /\ files[call.exe].data = d
      BY <1>1, <2>1, <2>2, DigestFx
    <2>4. d # NoFile => d \in call.seen
      BY <1>1, <1>6, <2>3 DEF CallSees, Hash
    <2>5. \/ call' = Finished(Unmatched)
          \/ d # NoFile /\ call' = [Finished(call.result) EXCEPT !.shown = d]
          \/ call' = [call EXCEPT !.at = "info"]
      BY <1>6, <2>2 DEF Hash
    <2>6. CASE call' = Finished(Unmatched)
      BY <2>1, <2>3, <2>6, EndsHash
    <2>7. CASE d # NoFile /\ call' = [Finished(call.result) EXCEPT !.shown = d]
      <3>1. call'.at = "done" /\ call'.shown = d /\ call'.seen = call.seen
        BY <2>7 DEF Finished, CallShape
      <3> QED
        BY <2>3, <2>4, <2>7, <3>1 DEF HashInv, CallLooks, Taken, CallSees, HashAnswersNow, OnExe, Looking
    <2>8. CASE call' = [call EXCEPT !.at = "info"]
      <3>1. call'.at = "info" /\ call'.exe = call.exe /\ call'.shown = NoFile
        BY <2>1, <2>8 DEF CallShape
      <3> QED
        BY <2>1, <2>3, <3>1 DEF HashInv, CallLooks, Taken, CallSees, HashAnswersNow, OnExe, Looking
    <2> QED
      BY <2>5, <2>6, <2>7, <2>8
  <1>7. CASE Info
    <2>1. /\ FilesShape' /\ CacheRight' /\ call.exe \in Programs /\ call.shown = NoFile
      BY <1>1, <1>2, <1>7 DEF Info, CallLooks, OnExe
    <2>2. CASE files[call.exe] = NoFile
      BY <1>7, <2>1, <2>2, EndsHash DEF Info
    <2>3. CASE files[call.exe] # NoFile
      <3>1. /\ call'.at = "infohash" /\ call'.exe = call.exe /\ call'.shown = NoFile
            /\ call'.meta = MetaOf(files[call.exe])
        BY <1>7, <2>1, <2>3 DEF Info, CallShape
      <3>2. Taken(call'.meta)
        BY <1>1, <2>1, <2>3, <3>1 DEF FilesShape, MetaOf, Taken
      <3> QED
        BY <1>1, <2>1, <3>1, <3>2 DEF HashInv, CallLooks, Taken, CallSees, HashAnswersNow, OnExe, Looking
    <2> QED
      BY <2>2, <2>3
  <1>8. CASE InfoHash
    <2>1. /\ call.exe \in Programs /\ Taken(call.meta)
          /\ cache' = Filed(call.exe, call.meta)
      BY <1>1, <1>8 DEF InfoHash, CallLooks, OnExe, Looking
    <2>2. FilesShape' /\ CacheRight'
      BY <1>1, <2>1, DigestFx
    <2>3. call'.at = "done" /\ call'.result = Settled(Unmatched)
      BY <1>8 DEF InfoHash, Finished, CallShape
    <2> QED
      BY <2>2, <2>3, UnmatchedDenies
         DEF HashInv, CallLooks, Taken, CallSees, HashAnswersNow, OnExe, Looking
  <1>9. CASE BindStat
    <2>1. FilesShape' /\ CacheRight' /\ call.shown = NoFile /\ cache' = cache
      BY <1>1, <1>2, <1>9 DEF BindStat, CallLooks
    <2>2. PICK f : f = Real(call.exe)
      OBVIOUS
    <2>3. CASE ~IsFile(f)
      <3>1. call'.at = "done" /\ call'.shown = NoFile
        BY <1>9, <2>1, <2>2, <2>3 DEF BindStat, CallShape
      <3> QED
        BY <2>1, <3>1 DEF HashInv, CallLooks, Taken, CallSees, HashAnswersNow, OnExe, Looking
    <2>4. CASE IsFile(f)
      <3>1. f \in Programs /\ files[f] # NoFile
        BY <1>1, <2>4 DEF IsFile, FilesShape
      <3>2. /\ call'.at = "bindhash" /\ call'.exe = f /\ call'.shown = NoFile
            /\ call'.meta = MetaOf(files[f]) /\ call'.seen = {files[f].data}
        BY <1>9, <2>1, <2>2, <2>4, <3>1 DEF BindStat, CallShape, Now
      <3>3. Taken(call'.meta)
        BY <1>1, <3>1, <3>2 DEF FilesShape, MetaOf, Taken
      <3>4. cache[f].data # NoFile /\ cache[f].meta = call'.meta => cache[f].data = files[f].data
        BY <1>1, <3>1, <3>2 DEF CacheRight
      <3> QED
        BY <1>1, <2>1, <3>1, <3>2, <3>3, <3>4
           DEF HashInv, CallLooks, Taken, CallSees, HashAnswersNow, OnExe, Looking
    <2> QED
      BY <2>3, <2>4
  <1>10. CASE BindHash
    <2>1. call.exe \in Programs /\ Taken(call.meta) /\ call.shown = NoFile
      BY <1>1, <1>10 DEF BindHash, CallLooks, OnExe, Looking
    <2>2. PICK d : d = IF call.meta.size <= Threshold THEN Digest(call.exe, call.meta)
                       ELSE IF files[call.exe] = NoFile THEN NoFile ELSE files[call.exe].data
      OBVIOUS
    <2>3. /\ cache' = cache \/ (cache' = Filed(call.exe, call.meta)
                                /\ d = Digest(call.exe, call.meta))
          /\ call'.at = "done"
          /\ d = NoFile => call'.shown = NoFile
          /\ d # NoFile => call'.shown = d /\ call'.seen = call.seen
      BY <1>10, <2>1, <2>2 DEF BindHash, CallShape
    <2>4. FilesShape' /\ CacheRight'
      BY <1>1, <1>2, <2>1, <2>3, DigestFx
    <2>5. d # NoFile => \/ cache[call.exe].data = d /\ cache[call.exe].meta = call.meta
                        \/ files[call.exe] # NoFile /\ files[call.exe].data = d
      BY <2>2 DEF Digest, CachedFor
    <2>6. d # NoFile => d \in call.seen
      BY <1>1, <1>10, <2>5 DEF CallSees, BindHash
    <2> QED
      BY <2>3, <2>4, <2>6 DEF HashInv, CallLooks, Taken, CallSees, HashAnswersNow, OnExe, Looking
  <1> QED
    BY <1>3, <1>4, <1>5, <1>6, <1>7, <1>8, <1>9, <1>10 DEF Evaluate

(* A program is replaced, and looks otherwise than before.                     *)
LEMMA TouchHash ==
  ASSUME HashInv, CallShape(call), NEW f \in Programs, NEW new, Touch(f, new),
         \/ new = NoFile
         \/ \E d \in Contents : new = [data |-> d, stamp |-> clock, link |-> NoPath, exec |-> TRUE]
  PROVE  HashInv'
  <1>1. FilesShape /\ CacheRight /\ CallLooks /\ CallSees /\ HashAnswersNow
    BY DEF HashInv
  <1>2. /\ files' = [files EXCEPT ![f] = new] /\ clock' = clock + 1 /\ cache' = cache
        /\ call'.at = call.at /\ call'.exe = call.exe /\ call'.meta = call.meta
        /\ call'.shown = call.shown /\ call'.result = call.result
        /\ call'.seen = IF f = call.exe /\ new # NoFile THEN call.seen \cup {new.data}
                                                        ELSE call.seen
    BY DEF Touch, CallShape
  <1>3. /\ files'[f] = new /\ \A g \in Programs : g # f => files'[g] = files[g]
        /\ clock \in Nat
        /\ new # NoFile => /\ new.stamp = clock
                           /\ new \in [data : Contents, stamp : Nat, link : Programs \cup {NoPath},
                                       exec : BOOLEAN]
    <2>1. /\ files \in [Programs -> {NoFile} \cup
                [data : Contents, stamp : Nat, link : Programs \cup {NoPath}, exec : BOOLEAN]]
          /\ clock \in Nat
      BY <1>1 DEF FilesShape
    <2>2. files'[f] = new /\ \A g \in Programs : g # f => files'[g] = files[g]
      BY <1>2, <2>1
    <2>3. ASSUME new # NoFile
          PROVE  /\ new.stamp = clock
                 /\ new \in [data : Contents, stamp : Nat, link : Programs \cup {NoPath},
                             exec : BOOLEAN]
      <3>1. PICK d \in Contents : new = [data |-> d, stamp |-> clock, link |-> NoPath, exec |-> TRUE]
        BY <2>3
      <3> QED
        BY <2>1, <3>1
    <2> QED
      BY <2>1, <2>2, <2>3
  <1>4. FilesShape'
    <2>1. \A g \in Programs : files'[g] # NoFile => files'[g].stamp < clock + 1
      BY <1>1, <1>3 DEF FilesShape
    <2> QED
      BY <1>1, <1>2, <1>3, <2>1 DEF FilesShape
  <1>5. CacheRight'
    <2> SUFFICES ASSUME NEW g \in Programs, cache[g].data # NoFile
                 PROVE  /\ Taken(cache[g].meta)'
                        /\ files'[g] # NoFile /\ MetaOf(files'[g]) = cache[g].meta
                             => files'[g].data = cache[g].data
      BY <1>2 DEF CacheRight, MetaOf
    <2>1. /\ Taken(cache[g].meta)
          /\ files[g] # NoFile /\ MetaOf(files[g]) = cache[g].meta => files[g].data = cache[g].data
      BY <1>1 DEF CacheRight
    <2>2. Taken(cache[g].meta)'
      BY <1>2, <1>3, <2>1 DEF Taken
    <2>3. CASE g = f
      <3>1. new # NoFile => MetaOf(new).stamp = clock
        BY <1>3 DEF MetaOf
      <3>2. new # NoFile => MetaOf(new) # cache[g].meta
        BY <1>3, <2>1, <3>1 DEF Taken
      <3> QED
        BY <1>3, <2>2, <2>3, <3>2
    <2>4. CASE g # f
      BY <1>3, <2>1, <2>2, <2>4
    <2> QED
      BY <2>3, <2>4
  <1>6. CallLooks'
    BY <1>1, <1>2, <1>3 DEF CallLooks, Taken
  <1>7. CallSees'
    BY <1>1, <1>2, <1>3 DEF CallSees, CallLooks, OnExe, Looking
  <1>8. HashAnswersNow'
    BY <1>1, <1>2 DEF HashAnswersNow
  <1> QED
    BY <1>4, <1>5, <1>6, <1>7, <1>8 DEF HashInv

(* Whatever happens, as long as whoever changes a program cannot hide it.      *)
LEMMA NextHash ==
  ASSUME Honest, CommandInv, ItemsShape, HashInv, [Next]_vars
  PROVE  HashInv'
  <1>1. CallShape(call)
    BY DEF CommandInv, Shapes
  <1>2. ASSUME NEW p \in Procs, ByCommand(p) PROVE HashInv'
    BY <1>2, CallKept DEF ByCommand, Steady
  <1>3. ASSUME NEW p \in Procs, ByDaemon(p) PROVE HashInv'
    BY <1>3, CallKept, BegunHash DEF ByDaemon, Still, Passed, Handed
  <1>4. ASSUME NEW v \in Vaults, OrderlyStop(v) \/ Crash(v) PROVE HashInv'
    BY <1>4, CallKept DEF OrderlyStop, Crash, Drops
  <1>5. CASE \/ \E v \in Vaults : DesktopStart(v) \/ CleansUp(v) \/ DesktopQuits(v) \/ IdleLock(v) \/ DesktopSave(v)
             \/ AllDone \/ UNCHANGED vars
    BY <1>5, CallKept DEF DesktopStart, CleansUp, DesktopQuits, IdleLock, DesktopSave, AllDone, vars, authzVars
  <1>6. CASE Judging
    BY <1>1, <1>6, EvaluateHash DEF Judging
  <1>7. CASE Replaced
    <2>1. PICK f \in Programs :
             \/ \E d \in Contents, s \in Stamps(f) : Touch(f, [data |-> d, stamp |-> s, link |-> NoPath, exec |-> TRUE])
             \/ files[f] # NoFile /\ Touch(f, NoFile)
      BY <1>7 DEF Replaced, Disturb
    <2>2. CASE Touch(f, NoFile)
      <3>1. PICK new : new = NoFile
        OBVIOUS
      <3> QED
        BY <1>1, <2>2, <3>1, TouchHash
    <2>3. CASE \E d \in Contents, s \in Stamps(f) : Touch(f, [data |-> d, stamp |-> s, link |-> NoPath, exec |-> TRUE])
      <3>1. Stamps(f) = {clock}
        BY DEF Stamps
      <3>2. PICK d \in Contents : Touch(f, [data |-> d, stamp |-> clock, link |-> NoPath, exec |-> TRUE])
        BY <2>3, <3>1
      <3>3. PICK new : new = [data |-> d, stamp |-> clock, link |-> NoPath, exec |-> TRUE]
        OBVIOUS
      <3> QED
        BY <1>1, <3>2, <3>3, TouchHash
    <2> QED
      BY <2>1, <2>2, <2>3
  <1>8. ASSUME NEW p \in Procs, Step(p) \/ Approve(p) \/ Lose(p) \/ Kill(p) PROVE HashInv'
    <2>1. CASE Client(p) \/ Lose(p) \/ Kill(p)
      BY <2>1, ClientSteps, CallKept DEF Steady
    <2>2. CASE Serve(p) \/ Declined(p) \/ Approve(p)
      BY <1>3, <2>2, DaemonSteps
    <2> QED
      BY <1>8, <2>1, <2>2 DEF Step
  <1> QED
    BY <1>4, <1>5, <1>6, <1>7, <1>8 DEF Next

(* Whoever replaces a program while the daemon looks at it, a digest that lets *)
(* an injection through or is stored with a rule is of bytes the program held  *)
(* since it was looked at, as long as no change keeps size and date alike: the *)
(* look is taken before the bytes are read, and the digest filed under it      *)
(* (FingerprintCache of exe_resolve.rs, recompute_fingerprint of binding.rs).  *)
THEOREM DigestsAnswerNow == ASSUME Honest PROVE Spec => []HashAnswersNow
  <1>1. Init => CommandInv /\ ItemsShape /\ HashInv
    <2> SUFFICES ASSUME Init PROVE HashInv
      BY InitInv
    <2>1. /\ plan \in Plans /\ files = plan.files /\ clock = 1 /\ call = NoCall
          /\ cache = [f \in Programs |-> [meta |-> NoMeta, data |-> NoFile]]
      BY DEF Init, EmptyCache
    <2>2. files \in [Programs -> {NoFile} \cup [data : Contents, stamp : {0},
                                                link : Programs \cup {NoPath}, exec : BOOLEAN]]
      BY <2>1, PlanAssumption
    <2>3. FilesShape
      BY <2>1, <2>2 DEF FilesShape
    <2>4. CacheRight
      BY <2>1 DEF CacheRight
    <2>5. call.at = "idle" /\ call.shown = NoFile
      BY <2>1 DEF NoCall
    <2> QED
      BY <2>3, <2>4, <2>5 DEF HashInv, CallLooks, CallSees, HashAnswersNow, OnExe, Looking
  <1>2. CommandInv /\ ItemsShape /\ HashInv /\ [Next]_vars
        => (CommandInv /\ ItemsShape /\ HashInv)'
    BY NextInv, NextHash
  <1>3. HashInv => HashAnswersNow
    BY DEF HashInv
  <1> QED
    BY <1>1, <1>2, <1>3, PTL DEF Spec

-----------------------------------------------------------------------------
(***************************************************************************)
(* The program that is started is the one that was judged.                 *)
(***************************************************************************)
(* Where the daemon looks for the program of a command: along PATH, and then   *)
(* where the caller works.                                                     *)
Search(c) == IF c.command.dir \notin {"bare", "."} THEN <<c.command.dir>>
             ELSE Append(PathDirs(c.path, c.place), c.place)
Spot(c, k) == <<Search(c)[k], c.command.name>>
Places(c)  == [k \in 1..Len(Search(c)) |-> Spot(c, k)]
Spots(c)   == {Spot(c, i) : i \in 1..Len(Search(c))}

NoneBefore(c, k) == \A i \in 1..(k - 1) : ~IsFile(Spot(c, i))
FirstAt(c, k)    == k \in 1..Len(Search(c)) /\ IsFile(Spot(c, k)) /\ NoneBefore(c, k)
IsFirst(c, exe)  == \E k \in 1..Len(Search(c)) : FirstAt(c, k) /\ exe = Real(Spot(c, k))

(* What is left to look at, and what was found.                               *)
LeftFrom(c, k) ==
  /\ call.left \in Seq(Spots(c)) /\ Len(call.left) = Len(Search(c)) + 1 - k
  /\ \A i \in 1..Len(call.left) : call.left[i] = Spot(c, k - 1 + i)
  /\ NoneBefore(c, k)

Searching(c) ==
  /\ call.at \in {"resolve", "judge", "stat", "hash", "info", "infohash", "done"}
  /\ call.at = "resolve" => /\ c.path \in Seq(STRING) /\ call.exe = NoPath
                            /\ \E k \in 1..(Len(Search(c)) + 1) : LeftFrom(c, k)
  /\ call.exe # NoPath => IsFirst(c, call.exe)

OnItsOwn(p) == host.os # "windows" /\ Side(p) = 0 /\ clock = 1

(* What an injection knows on the way.                                        *)
Injects(p) ==
  /\ proc[p].at \in Sending /\ proc[p].req = "inject" =>
       Line(p).verb = "inject" /\ Line(p).keys # {}
  /\ proc[p].judged # NoPath =>
       /\ Line(p).verb = "inject" /\ Line(p).keys # {}
       /\ proc[p].at \in {"reply", "spawn", "done"}
       /\ proc[p].at = "reply" => proc[p].req = "inject"
       /\ OnItsOwn(p) => IsFirst(Line(p), proc[p].judged)
  /\ proc[p].ran # NoPath =>
       /\ proc[p].at = "done"
       /\ clock = 1 => /\ Spawned(Line(p)) # NoPath
                       /\ proc[p].ran = Real(Spawned(Line(p)))
  /\ At(p, "judge") /\ proc[p].req = "inject" /\ OnItsOwn(p) => Searching(Line(p))

SpawnInv == clock \in Nat \ {0} /\ \A p \in Procs : Injects(p)

(* A program has one name where programs have no extensions.                   *)
LEMMA OneName ==
  ASSUME NEW os, os # "windows", NEW name
  PROVE  Variants(os, name) = <<name>>
  BY DEF Variants

(* The places the daemon looks at.                                             *)
LEMMA SearchFx ==
  ASSUME NEW c, c.path \in Seq(STRING), NEW os, os # "windows"
  PROVE  /\ Len(Search(c)) \in Nat
         /\ ExeCandidates(os, c.command, PathDirs(c.path, c.place), c.place) = Places(c)
  <1>1. CASE c.command.dir \notin {"bare", "."}
    BY <1>1 DEF ExeCandidates, Places, Search, Spot
  <1>2. CASE c.command.dir \in {"bare", "."}
    <2> DEFINE X == STRING \cup {c.place}
    <2>1. Len(c.path) \in Nat
      OBVIOUS
    <2>2. PathDirs(c.path, c.place) \in Seq(X)
      BY DEF PathDirs
    <2>3. PICK all : all = Append(PathDirs(c.path, c.place), c.place)
      OBVIOUS
    <2>4. all \in Seq(X) /\ Len(all) \in Nat /\ Search(c) = all
      BY <1>2, <2>2, <2>3 DEF Search
    <2>5. PICK names : names = Variants(os, c.command.name)
      OBVIOUS
    <2>6. names = <<c.command.name>>
      BY <2>5, OneName
    <2>7. Len(names) = 1 /\ names[1] = c.command.name
      BY <2>6
    <2>8. ExeCandidates(os, c.command, PathDirs(c.path, c.place), c.place)
            = [k \in 1..(Len(all) * Len(names)) |->
                 <<all[((k - 1) \div Len(names)) + 1], names[((k - 1) % Len(names)) + 1]>>]
      BY <1>2, <2>3, <2>5 DEF ExeCandidates
    <2>9. \A k \in 1..Len(all) :
            <<all[((k - 1) \div 1) + 1], names[((k - 1) % 1) + 1]>> = <<all[k], c.command.name>>
      BY <2>4, <2>7
    <2>10. Len(all) * 1 = Len(all)
      BY <2>4
    <2>11. ExeCandidates(os, c.command, PathDirs(c.path, c.place), c.place)
             = [k \in 1..Len(all) |-> <<all[k], c.command.name>>]
      BY <2>7, <2>8, <2>9, <2>10
    <2> QED
      BY <2>4, <2>11 DEF Places, Spot
  <1> QED
    BY <1>1, <1>2

(* What a command starts is where its daemon looked first, if both read it     *)
(* alike.                                                                      *)
LEMMA SpawnedIsFirst ==
  ASSUME NEW c, c.path \in Seq(STRING), NEW exe, exe # NoPath, IsFirst(c, exe),
         ReadAlike(c.command, exe), Spawned(c) # NoPath
  PROVE  exe = Real(Spawned(c))
  <1> DEFINE dirs == IF c.command.dir # "bare" THEN <<c.command.dir>>
                     ELSE [i \in 1..Len(c.path) |-> IF c.path[i] = Here THEN c.place ELSE c.path[i]]
             with == {i \in 1..Len(dirs) : Startable(<<dirs[i], c.command.name>>)}
  <1>0. c.command.dir # "." /\ Typed(c.command) = c.command.name /\ files[exe].exec
    BY DEF ReadAlike, Typed
  <1>1. PICK k \in 1..Len(Search(c)) : FirstAt(c, k) /\ exe = Real(Spot(c, k))
    BY DEF IsFirst
  <1>2. dirs = IF c.command.dir # "bare" THEN <<c.command.dir>> ELSE PathDirs(c.path, c.place)
    BY DEF PathDirs
  <1>3. with = {i \in 1..Len(dirs) : Startable(<<dirs[i], c.command.name>>)}
    OBVIOUS
  <1>4. Spawned(c) = IF with = {} THEN NoPath
                     ELSE <<dirs[CHOOSE i \in with : \A j \in with : i <= j], c.command.name>>
    <2> DEFINE name == Typed(c.command)
               all  == CASE c.command.dir = "."    -> <<c.place>>
                         [] c.command.dir = "bare" ->
                              [i \in 1..Len(c.path) |->
                                 IF c.path[i] = Here THEN c.place ELSE c.path[i]]
                         [] OTHER                  -> <<c.command.dir>>
               some == {i \in 1..Len(all) : Startable(<<all[i], name>>)}
    <2>1. Spawned(c) = IF some = {} THEN NoPath
                       ELSE <<all[CHOOSE i \in some : \A j \in some : i <= j], name>>
      BY DEF Spawned
    <2>2. all = dirs
      <3>1. CASE c.command.dir = "bare"
        BY <1>0, <3>1
      <3>2. CASE c.command.dir # "bare"
        BY <1>0, <3>2
      <3> QED
        BY <3>1, <3>2
    <2>3. name = c.command.name
      BY <1>0
    <2>4. some = {i \in 1..Len(all) : Startable(<<all[i], name>>)}
      OBVIOUS
    <2> HIDE DEF all, name, some, dirs, with
    <2>5. some = with
      BY <1>3, <2>2, <2>3, <2>4
    <2> QED
      BY <2>1, <2>2, <2>3, <2>5
  <1> HIDE DEF dirs, with
  <1>5. /\ Len(dirs) \in Nat /\ Len(Search(c)) \in Nat /\ Len(dirs) <= Len(Search(c))
        /\ \A i \in 1..Len(dirs) : Search(c)[i] = dirs[i]
    <2>1. CASE c.command.dir # "bare"
      BY <1>0, <1>2, <2>1 DEF Search
    <2>2. CASE c.command.dir = "bare"
      <3> DEFINE X == STRING \cup {c.place}
      <3>1. dirs \in Seq(X)
        BY <1>2, <2>2 DEF PathDirs
      <3>2. Search(c) = Append(dirs, c.place)
        BY <1>2, <2>2 DEF Search
      <3> QED
        BY <3>1, <3>2
    <2> QED
      BY <2>1, <2>2
  <1>6. with # {} /\ with \subseteq Nat
    BY <1>3, <1>4
  <1>7. \E i \in with : \A j \in with : i <= j
    BY <1>6, LeastVault
  <1>8. PICK i : i \in with /\ (\A j \in with : i <= j) /\ Spawned(c) = <<dirs[i], c.command.name>>
    BY <1>4, <1>6, <1>7
  <1>9. i \in 1..Len(dirs) /\ i \in 1..Len(Search(c)) /\ IsFile(Spot(c, i))
    BY <1>3, <1>5, <1>8 DEF Spot, Startable
  <1>10. k <= i
    BY <1>1, <1>5, <1>9 DEF FirstAt, NoneBefore
  <1>11. k \in with
    BY <1>0, <1>1, <1>3, <1>5, <1>9, <1>10 DEF FirstAt, Spot, Startable
  <1>12. k = i
    BY <1>8, <1>9, <1>10, <1>11
  <1> QED
    BY <1>1, <1>5, <1>8, <1>9, <1>12 DEF Spot

(* So the invariant says what is wanted.                                       *)
LEMMA InvSpawns == ASSUME CommandInv, SpawnInv PROVE SpawnsTheJudged
  <1> SUFFICES ASSUME NEW p \in Procs, host.os # "windows", Side(p) = 0, clock = 1,
                      proc[p].ran # NoPath, proc[p].judged # NoPath,
                      ReadAlike(Line(p).command, proc[p].judged)
               PROVE  proc[p].ran = proc[p].judged
    BY DEF SpawnsTheJudged
  <1>1. /\ IsFirst(Line(p), proc[p].judged) /\ Spawned(Line(p)) # NoPath
        /\ proc[p].ran = Real(Spawned(Line(p)))
        /\ Line(p).verb = "inject" /\ Line(p).keys # {}
    BY DEF SpawnInv, Injects, OnItsOwn
  <1>2. Line(p).path \in Seq(STRING)
    BY <1>1, PlanAssumption DEF CommandInv, Line
  <1> QED
    BY <1>1, <1>2, SpawnedIsFirst

(* What is where stays there as long as no file changes.                       *)
LEMMA FilesKept ==
  ASSUME NEW c, files' = files
  PROVE  /\ \A k : NoneBefore(c, k)' <=> NoneBefore(c, k)
         /\ \A exe : IsFirst(c, exe)' <=> IsFirst(c, exe)
         /\ \A f : (IsFile(f)' <=> IsFile(f)) /\ Real(f)' = Real(f)
  <1>1. \A f : (IsFile(f)' <=> IsFile(f)) /\ Real(f)' = Real(f)
    BY DEF IsFile, Real
  <1> QED
    BY <1>1 DEF NoneBefore, IsFirst, FirstAt, Spot, Search

(* What is left after a step.                                                 *)
LEMMA LeftNext ==
  ASSUME NEW c, NEW k, NEW left, left = call'.left, left \in Seq(Spots(c)),
         Len(left) = Len(Search(c)) + 1 - k, NoneBefore(c, k)',
         \A i \in 1..Len(left) : left[i] = Spot(c, k - 1 + i)
  PROVE  LeftFrom(c, k)'
  <1>1. (/\ call.left \in Seq(Spots(c)) /\ Len(call.left) = Len(Search(c)) + 1 - k
         /\ \A i \in 1..Len(call.left) : call.left[i] = Spot(c, k - 1 + i)
         /\ NoneBefore(c, k))'
    OBVIOUS
  <1> QED
    BY <1>1 DEF LeftFrom

(* There are so many places.                                                   *)
LEMMA SearchLen == ASSUME NEW c, c.path \in Seq(STRING) PROVE Len(Search(c)) \in Nat
  <1>1. PICK os : os = "linux"
    OBVIOUS
  <1> QED
    BY <1>1, SearchFx

(* The daemon begins to look at the first place.                               *)
LEMMA BeginSearches ==
  ASSUME plan \in Plans, NEW p \in Procs, Line(p).verb = "inject", Line(p).keys # {},
         host.os # "windows", Side(p) = 0, proc[p].req = "inject",
         Begin(Side(p), Asked(p), Peer(p), Table(p)), NEW c, c = Line(p)
  PROVE  Searching(c)'
  <1>1. PICK a : a = Asked(p)
    OBVIOUS
  <1>2. PICK peer : peer = Peer(p)
    OBVIOUS
  <1>3. PICK table : table = Table(p)
    OBVIOUS
  <1>4. Begin(Side(p), a, peer, table)
    BY <1>1, <1>2, <1>3
  <1>5. a.kind = "inject" /\ a.command = c.command /\ Valid(a)
    <2>1. proc[p].req = "inject" /\ "inject" \notin RuleMethods
      BY DEF RuleMethods
    <2>2. Asked(p) = [kind |-> "inject", command |-> Line(p).command, keys |-> Line(p).keys]
      BY <2>1 DEF Asked
    <2>3. /\ a.kind = "inject" /\ a.command = Line(p).command /\ a.keys = Line(p).keys
      BY <1>1, <2>2
    <2> QED
      BY <2>3 DEF Valid
  <1>6. /\ c.path \in Seq(STRING) /\ plan.peer[p].path \in {c.path, Unreadable}
        /\ plan.peer[p].place = c.place
        /\ DOMAIN plan.peer[p] = {"os", "pid", "session", "cwd", "place", "path"}
    BY PlanAssumption DEF Line
  <1>7. peer.os = host.os /\ peer.path \in {c.path, Unreadable} /\ peer.place = c.place
    BY <1>2, <1>6 DEF Peer, Observed, SystemOf
  <1>8. /\ call'.at = IF peer.path # Unreadable THEN "resolve" ELSE "judge"
        /\ call'.exe = NoPath
        /\ peer.path # Unreadable =>
             call'.left = ExeCandidates(peer.os, c.command, PathDirs(c.path, c.place), c.place)
    <2>1. PICK r : r = ExeCandidates(peer.os, a.command, PathDirs(peer.path, peer.place), peer.place)
      OBVIOUS
    <2>2. /\ call'.at = IF peer.path # Unreadable THEN "resolve" ELSE "judge"
          /\ call'.exe = NoPath /\ call'.left = IF peer.path # Unreadable THEN r ELSE <<>>
      BY <1>4, <1>5, <2>1 DEF Begin, NoCall
    <2>3. peer.path # Unreadable => peer.path = c.path
      BY <1>7
    <2> QED
      BY <1>5, <1>7, <2>1, <2>2, <2>3
  <1>9. CASE peer.path # Unreadable
    <2>1. Len(Search(c)) \in Nat /\ call'.left = [k \in 1..Len(Search(c)) |-> Spot(c, k)]
      <3>1. PICK os : os = host.os
        OBVIOUS
      <3>2. /\ Len(Search(c)) \in Nat
            /\ ExeCandidates(os, c.command, PathDirs(c.path, c.place), c.place) = Places(c)
        BY <1>6, <3>1, SearchFx
      <3>3. peer.os = os
        BY <1>7, <3>1
      <3> QED
        BY <1>8, <1>9, <3>2, <3>3 DEF Places
    <2>2. /\ call'.left \in Seq(Spots(c)) /\ Len(call'.left) = Len(Search(c))
          /\ \A i \in 1..Len(call'.left) : call'.left[i] = Spot(c, i)
      BY <2>1 DEF Spots
    <2>3. LeftFrom(c, 1)'
      <3>1. NoneBefore(c, 1)'
        BY DEF NoneBefore
      <3>2. PICK left : left = call'.left
        OBVIOUS
      <3>3. /\ left \in Seq(Spots(c)) /\ Len(left) = Len(Search(c))
            /\ \A i \in 1..Len(left) : left[i] = Spot(c, i)
        BY <2>2, <3>2
      <3>4. Len(left) = Len(Search(c)) + 1 - 1
        BY <2>1, <3>3
      <3>5. \A i \in 1..Len(left) : left[i] = Spot(c, 1 - 1 + i)
        BY <2>1, <3>3
      <3> QED
        BY <3>1, <3>2, <3>3, <3>4, <3>5, LeftNext
    <2>4. 1 \in 1..(Len(Search(c)) + 1)
      BY <2>1
    <2> QED
      BY <1>6, <1>8, <1>9, <2>3, <2>4 DEF Searching, Search
  <1>10. CASE peer.path = Unreadable
    BY <1>8, <1>10 DEF Searching
  <1> QED
    BY <1>9, <1>10

(* It looks at one place after the other, and stops at the first program.      *)
LEMMA EvaluateSearches ==
  ASSUME CallShape(call), NEW c, Searching(c), Evaluate
  PROVE  Searching(c)'
  <1>1. files' = files
    BY DEF Evaluate, Resolve, JudgeStep, Stat, Hash, Info, InfoHash, BindStat, BindHash
  <1>2. CASE Resolve
    <2>1. c.path \in Seq(STRING) /\ call.exe = NoPath /\ Len(Search(c)) \in Nat
      BY <1>2, SearchLen DEF Resolve, Searching
    <2>2. PICK k \in 1..(Len(Search(c)) + 1) : LeftFrom(c, k)
      BY <1>2 DEF Resolve, Searching
    <2>3. /\ call.left \in Seq(Spots(c)) /\ Len(call.left) = Len(Search(c)) + 1 - k
          /\ \A i \in 1..Len(call.left) : call.left[i] = Spot(c, k - 1 + i)
          /\ NoneBefore(c, k)
      BY <2>2 DEF LeftFrom
    <2>4. CASE call.left = <<>>
      <3>1. call'.at = "judge" /\ call'.exe = NoPath
        BY <1>2, <2>1, <2>4 DEF Resolve, CallShape
      <3> QED
        BY <3>1 DEF Searching
    <2>5. CASE call.left # <<>>
      <3>1. /\ Head(call.left) = Spot(c, k) /\ k \in 1..Len(Search(c))
        BY <2>1, <2>2, <2>3, <2>5
      <3>2. CASE IsFile(Head(call.left))
        <4>1. call'.at = "judge" /\ call'.exe = Real(Spot(c, k))
          BY <1>2, <2>5, <3>1, <3>2 DEF Resolve, CallShape
        <4>2. IsFirst(c, Real(Spot(c, k)))
          BY <2>3, <3>1, <3>2 DEF IsFirst, FirstAt
        <4>3. PICK exe : exe = Real(Spot(c, k))
          OBVIOUS
        <4>4. IsFirst(c, exe)'
          BY <1>1, <4>2, <4>3, FilesKept
        <4>5. call'.exe = exe /\ call'.at = "judge"
          BY <4>1, <4>3
        <4> QED
          BY <4>4, <4>5 DEF Searching
      <3>3. CASE ~IsFile(Head(call.left))
        <4>1. call'.at = "resolve" /\ call'.exe = NoPath /\ call'.left = Tail(call.left)
          BY <1>2, <2>1, <2>5, <3>3 DEF Resolve, CallShape
        <4>2. NoneBefore(c, k + 1)
          BY <2>2, <2>3, <3>1, <3>3 DEF NoneBefore
        <4>3. PICK left : left = call'.left /\ left = Tail(call.left)
          BY <4>1
        <4>4. PICK m : m = k + 1
          OBVIOUS
        <4>5. m \in 1..(Len(Search(c)) + 1) /\ m - 1 = k
          BY <2>1, <3>1, <4>4
        <4>6. left \in Seq(Spots(c)) /\ Len(left) = Len(Search(c)) + 1 - m
          <5>1. left \in Seq(Spots(c)) /\ Len(left) = Len(call.left) - 1
            BY <2>3, <2>5, <4>3
          <5> QED
            BY <2>1, <2>2, <2>3, <4>4, <5>1
        <4>7. \A i \in 1..Len(left) : left[i] = Spot(c, m - 1 + i)
          <5> TAKE i \in 1..Len(left)
          <5>1. i + 1 \in 1..Len(call.left) /\ left[i] = call.left[i + 1]
            BY <2>3, <2>5, <4>3
          <5>2. call.left[i + 1] = Spot(c, k - 1 + (i + 1))
            BY <2>3, <5>1
          <5>3. k - 1 + (i + 1) = m - 1 + i
            BY <2>2, <4>4
          <5> QED
            BY <5>1, <5>2, <5>3
        <4>8. NoneBefore(c, m)'
          BY <1>1, <4>2, <4>4, FilesKept
        <4>9. LeftFrom(c, m)'
          BY <4>3, <4>6, <4>7, <4>8, LeftNext
        <4> QED
          BY <2>1, <4>1, <4>5, <4>9 DEF Searching, Search
      <3> QED
        BY <3>2, <3>3
    <2> QED
      BY <2>4, <2>5
  <1>3. CASE JudgeStep \/ Stat \/ Hash \/ Info \/ InfoHash
    <2>1. call'.exe = call.exe /\ call'.at \in {"stat", "hash", "info", "infohash", "done"}
      BY <1>3 DEF JudgeStep, Stat, Hash, Info, InfoHash, Finished, CallShape
    <2>2. PICK exe : exe = call.exe
      OBVIOUS
    <2>3. exe # NoPath => IsFirst(c, exe)'
      BY <1>1, <2>2, FilesKept DEF Searching
    <2> QED
      BY <2>1, <2>2, <2>3 DEF Searching
  <1>4. CASE BindStat \/ BindHash
    BY <1>4 DEF BindStat, BindHash, Searching
  <1> QED
    BY <1>2, <1>3, <1>4 DEF Evaluate

(* What a command does to what it knows of an injection.                       *)
Moves(p) ==
  /\ proc[p].at # "done" /\ proc'[p].judged = proc[p].judged
  /\ \/ proc'[p].ran = proc[p].ran
     \/ /\ Spawned(Line(p)) # NoPath /\ proc'[p].ran = Real(Spawned(Line(p)))
        /\ proc'[p].at = "done"
  /\ proc[p].at = "spawn" \/ (proc[p].at = "reply" /\ proc[p].req = "inject") =>
       proc'[p].target = proc[p].target /\ proc'[p].at \in {"spawn", "done"}
  /\ proc'[p].at \in Sending /\ proc'[p].req = "inject" =>
       Line(p).verb = "inject" /\ Line(p).keys # {}

(* Its steps, one by one.                                                      *)
LEMMA ClientMoves ==
  ASSUME CommandInv, SpawnInv, NEW p \in Procs, Client(p) \/ Lose(p) \/ Kill(p)
  PROVE  Moves(p)
  <1> DEFINE c == Line(p)
  <1>1. ProcShapes /\ c.verb \in Verbs
    BY PlanFacts DEF CommandInv, Shapes
  <1>2. proc[p].at # "done"
    BY DEF Client, Start, Look, Credentials, ReadConf, WriteConf, Directory, Choose, Ensure,
       ReadToken, Probe, Unreachable, Receive, Save, Copy, Wake, Spawn, Lose, Kill, At
  <1>3. ASSUME NEW code, Exits(p, code) PROVE Moves(p)
    BY <1>1, <1>2, <1>3, ExitsFx DEF Moves, SameRequest, Sending
  <1>4. ASSUME NEW e, Fails(p, e) PROVE Moves(p)
    BY <1>1, <1>2, <1>4, FailsFx DEF Moves, SameRequest, Sending
  <1>5. proc[p].at \in Sending /\ proc[p].req = "inject" => c.verb = "inject" /\ c.keys # {}
    BY DEF SpawnInv, Injects
  <1>6. ASSUME NEW at, Goes(p, at), at \in Sending => proc[p].at \in Sending,
               proc[p].at # "spawn", proc[p].at = "reply" /\ proc[p].req = "inject" => at = "spawn"
        PROVE  Moves(p)
    <2>1. SameRequest(p) /\ SameReq(p) /\ proc'[p].at = at
      BY <1>1, <1>6, GoesFx
    <2> QED
      BY <1>2, <1>5, <1>6, <2>1 DEF Moves, SameRequest, SameReq
  <1>7. CASE Start(p)
    <2> DEFINE i == IF "id" \in DOMAIN c THEN c.id ELSE NoItem
    <2>1. \/ Exits(p, 1) \/ Exits(p, 2) \/ Goes(p, "look") \/ Goes(p, "dir")
          \/ /\ ~Usage(c)
             /\ Set(p, [proc[p] EXCEPT !.at = "choose", !.req = FirstRequest(c), !.id = i])
      BY <1>7 DEF Start
    <2>2. CASE /\ ~Usage(c)
               /\ Set(p, [proc[p] EXCEPT !.at = "choose", !.req = FirstRequest(c), !.id = i])
      <3>1. /\ proc'[p].ran = proc[p].ran /\ proc'[p].judged = proc[p].judged
            /\ proc'[p].req = FirstRequest(c) /\ proc[p].at = "idle"
        <4> HIDE DEF i
        <4> QED
          BY <1>1, <1>7, <2>2, FirstFx DEF Start, At
      <3>2. FirstRequest(c) = "inject" => c.verb = "inject" /\ c.keys # {}
        BY <1>1, <2>2 DEF FirstRequest, Usage, Verbs
      <3> QED
        BY <1>2, <3>1, <3>2 DEF Moves
    <2> QED
      BY <1>3, <1>6, <1>7, <2>1, <2>2 DEF Start, At, Sending
  <1>8. CASE Look(p)
    <2>1. PICK n : n = CASE c.verb = "status" -> "choose"
                         [] c.verb = "configset" /\ c.remote -> "creds"
                         [] OTHER -> "read"
      OBVIOUS
    <2>2. \/ Fails(p, "transport") \/ Exits(p, 2)
          \/ Set(p, [proc[p] EXCEPT !.shown = Decide.side, !.req = FirstRequest(c), !.at = n])
      BY <1>8, <2>1 DEF Look
    <2>3. CASE Set(p, [proc[p] EXCEPT !.shown = Decide.side, !.req = FirstRequest(c), !.at = n])
      <3>1. /\ proc'[p].ran = proc[p].ran /\ proc'[p].judged = proc[p].judged
            /\ proc'[p].req = FirstRequest(c) /\ proc'[p].at = n /\ proc[p].at = "look"
        BY <1>1, <1>8, <2>3, LookedFx DEF Look, At
      <3>2. n \in Sending => FirstRequest(c) # "inject"
        BY <2>1 DEF FirstRequest, Sending
      <3> QED
        BY <1>2, <3>1, <3>2 DEF Moves
    <2> QED
      BY <1>3, <1>4, <2>2, <2>3
  <1>9. CASE Credentials(p) \/ WriteConf(p) \/ Save(p) \/ Copy(p) \/ Wake(p)
    BY <1>3, <1>6, <1>9 DEF Credentials, WriteConf, Save, Copy, Wake, At, Sending
  <1>10. CASE ReadConf(p)
    <2>1. \/ Set(p, [proc[p] EXCEPT !.at = "write", !.conf = disk[proc[p].shown].conf])
          \/ \E code : Exits(p, code)
      BY <1>10 DEF ReadConf
    <2>2. CASE Set(p, [proc[p] EXCEPT !.at = "write", !.conf = disk[proc[p].shown].conf])
      <3>1. SameRequest(p) /\ proc'[p].at = "write" /\ proc[p].at = "read"
        BY <1>1, <1>10, <2>2, HasConfFx DEF ReadConf, At
      <3> QED
        BY <1>2, <3>1 DEF Moves, SameRequest, Sending
    <2> QED
      BY <1>3, <2>1, <2>2
  <1>11. CASE Directory(p)
    <2> DEFINE d == RuleDir(Line(p).dir, Decide.kind = "bridge")
    <2>1. \/ Exits(p, 1)
          \/ Set(p, [proc[p] EXCEPT !.at = "choose", !.req = "ruleadd", !.dir = d,
                                    !.shown = Decide.side])
      BY <1>11 DEF Directory
    <2>2. CASE Set(p, [proc[p] EXCEPT !.at = "choose", !.req = "ruleadd", !.dir = d,
                                      !.shown = Decide.side])
      <3>1. /\ proc'[p].ran = proc[p].ran /\ proc'[p].judged = proc[p].judged
            /\ proc'[p].req = "ruleadd" /\ proc[p].at = "dir"
        <4> HIDE DEF d
        <4> QED
          BY <1>1, <1>11, <2>2, HasDirFx DEF Directory, At
      <3> QED
        BY <1>2, <3>1 DEF Moves
    <2> QED
      BY <1>3, <2>1, <2>2
  <1>12. CASE Choose(p)
    <2>1. PICK n : n = IF Decide.kind = "local" THEN "ensure" ELSE "token"
      OBVIOUS
    <2>2. Fails(p, "transport") \/ Set(p, [proc[p] EXCEPT !.target = Decide, !.at = n])
      BY <1>12, <2>1 DEF Choose
    <2>3. CASE Set(p, [proc[p] EXCEPT !.target = Decide, !.at = n])
      <3>1. /\ proc'[p].ran = proc[p].ran /\ proc'[p].judged = proc[p].judged /\ SameReq(p)
            /\ proc[p].at = "choose"
        BY <1>1, <1>12, <2>3, ChosenFx DEF Choose, At
      <3> QED
        BY <1>2, <1>5, <3>1 DEF Moves, SameReq, Sending
    <2> QED
      BY <1>4, <2>2, <2>3
  <1>13. CASE Ensure(p) \/ Probe(p) \/ Unreachable(p)
    BY <1>4, <1>6, <1>13 DEF Ensure, Probe, Unreachable, At, Sending
  <1>14. CASE ReadToken(p)
    <2>1. PICK x, n : Set(p, [proc[p] EXCEPT !.token = x, !.at = n])
      BY <1>14 DEF ReadToken
    <2>2. SameRequest(p) /\ SameReq(p) /\ proc[p].at = "token"
      BY <1>1, <1>14, <2>1, HasTokenFx DEF ReadToken, At
    <2> QED
      BY <1>2, <1>5, <2>2 DEF Moves, SameRequest, SameReq, Sending
  <1>15. CASE Receive(p)
    <2> DEFINE r == proc[p].reply
               m == proc[p].req
    <2>1. CASE m = "inject"
      <3>1. Fails(p, r.err) \/ Goes(p, "spawn") \/ Exits(p, 1)
        BY <1>15, <2>1 DEF Receive
      <3> QED
        BY <1>3, <1>4, <1>6, <1>15, <3>1 DEF Receive, At, Sending
    <2>2. CASE m # "inject"
      <3>1. \/ Fails(p, r.err) \/ Resolved(p, r.val) \/ EditWith(p, r.val) \/ CopyFrom(p, r.val)
            \/ AuditAnswered(p, m, r.val) \/ Goes(p, "save") \/ Exits(p, 0)
        BY <1>15, <2>2 DEF Receive
      <3>2. proc[p].at = "reply"
        BY <1>15 DEF Receive, At
      <3>3. ASSUME NEW x, Set(p, [proc[p] EXCEPT !.at = "choose", !.req = "get", !.id = x])
            PROVE  Moves(p)
        <4>1. /\ proc'[p].ran = proc[p].ran /\ proc'[p].judged = proc[p].judged
              /\ proc'[p].req = "get"
          BY <1>1, <3>3, FirstFx
        <4> QED
          BY <1>2, <2>2, <3>2, <4>1 DEF Moves
      <3>4. ASSUME NEW b, NEW x,
                   Set(p, [proc[p] EXCEPT !.at = "choose", !.req = "update", !.base = b, !.draft = x])
            PROVE  Moves(p)
        <4>1. /\ proc'[p].ran = proc[p].ran /\ proc'[p].judged = proc[p].judged
              /\ proc'[p].req = "update"
          BY <1>1, <3>4, EditSentFx
        <4> QED
          BY <1>2, <2>2, <3>2, <4>1 DEF Moves
      <3>5. ASSUME Asks(p, "verify") PROVE Moves(p)
        <4>1. SameRequest(p) /\ proc'[p].req = "verify"
          BY <1>1, <3>5, AsksFx
        <4> QED
          BY <1>2, <2>2, <3>2, <4>1 DEF Moves, SameRequest
      <3>6. Resolved(p, r.val) => Moves(p)
        <4>1. ASSUME Resolved(p, r.val)
              PROVE  \/ Fails(p, "item.not_found") \/ Exits(p, 2)
                     \/ \E x : Set(p, [proc[p] EXCEPT !.at = "choose", !.req = "get", !.id = x])
          BY <4>1 DEF Resolved
        <4> QED
          BY <1>3, <1>4, <3>3, <4>1
      <3>7. EditWith(p, r.val) => Moves(p)
        <4>1. ASSUME EditWith(p, r.val)
              PROVE  \/ Exits(p, 1)
                     \/ \E b, x : Set(p, [proc[p] EXCEPT !.at = "choose", !.req = "update",
                                                         !.base = b, !.draft = x])
          BY <4>1 DEF EditWith
        <4> QED
          BY <1>3, <3>4, <4>1
      <3>8. CopyFrom(p, r.val) \/ AuditAnswered(p, m, r.val) \/ Goes(p, "save") => Moves(p)
        BY <1>3, <1>6, <2>2, <3>2, <3>5 DEF CopyFrom, AuditAnswered, Sending
      <3> QED
        BY <1>3, <1>4, <3>1, <3>6, <3>7, <3>8
    <2> QED
      BY <2>1, <2>2
  <1>16. CASE Spawn(p)
    <2>1. PICK e : e = Real(Spawned(c))
      OBVIOUS
    <2>2. Exits(p, 1) \/ (Spawned(c) # NoPath /\ Set(p, [proc[p] EXCEPT !.at = "done", !.ran = e]))
      BY <1>16, <2>1 DEF Spawn
    <2>3. CASE Spawned(c) # NoPath /\ Set(p, [proc[p] EXCEPT !.at = "done", !.ran = e])
      <3>1. /\ proc'[p].target = proc[p].target /\ proc'[p].judged = proc[p].judged
            /\ proc'[p].at = "done" /\ proc'[p].ran = e
        BY <1>1, <2>3, StartedFx
      <3> QED
        BY <1>2, <2>1, <2>3, <3>1 DEF Moves, Sending
    <2> QED
      BY <1>3, <2>2, <2>3
  <1>17. CASE Lose(p) \/ Kill(p)
    BY <1>4, <1>17 DEF Lose, Kill, AfterLoss
  <1> QED
    BY <1>7, <1>8, <1>9, <1>10, <1>11, <1>12, <1>13, <1>14, <1>15, <1>16, <1>17 DEF Client

(* What a command starts is the same as long as no file changes.               *)
LEMMA SpawnedKept == ASSUME NEW c, files' = files PROVE Spawned(c)' = Spawned(c)
  <1> DEFINE name == Typed(c.command)
             dirs == CASE c.command.dir = "."    -> <<c.place>>
                       [] c.command.dir = "bare" ->
                            [i \in 1..Len(c.path) |->
                               IF c.path[i] = Here THEN c.place ELSE c.path[i]]
                       [] OTHER                  -> <<c.command.dir>>
             with == {i \in 1..Len(dirs) : Startable(<<dirs[i], name>>)}
  <1>1. Spawned(c) = IF with = {} THEN NoPath
                     ELSE <<dirs[CHOOSE i \in with : \A j \in with : i <= j], name>>
    BY DEF Spawned
  <1>2. Spawned(c)' = IF with' = {} THEN NoPath
                      ELSE <<dirs[CHOOSE i \in with' : \A j \in with' : i <= j], name>>
    BY DEF Spawned
  <1>3. with' = with
    BY FilesKept DEF Startable, IsFile, Real
  <1> HIDE DEF dirs, with, name
  <1> QED
    BY <1>1, <1>2, <1>3

(* What happens leaves the world as it was before, or moves the clock.         *)
Ahead == /\ plan' = plan /\ clock' \in Nat \ {0}
         /\ clock' = 1 => clock = 1 /\ files' = files

(* What the search has found stays found.                                      *)
LEMMA SearchingKept ==
  ASSUME NEW c, files' = files, call' = call, Searching(c)
  PROVE  Searching(c)'
  <1>1. ASSUME NEW k, LeftFrom(c, k) PROVE LeftFrom(c, k)'
    <2>1. NoneBefore(c, k)'
      BY <1>1, FilesKept DEF LeftFrom
    <2> QED
      BY <1>1, <2>1, LeftNext DEF LeftFrom
  <1>2. PICK exe : exe = call.exe
    OBVIOUS
  <1>3. exe # NoPath => IsFirst(c, exe)'
    BY <1>2, FilesKept DEF Searching
  <1>4. call.at = "resolve" => \E k \in 1..(Len(Search(c)) + 1) : LeftFrom(c, k)'
    BY <1>1 DEF Searching
  <1> QED
    BY <1>2, <1>3, <1>4 DEF Searching

(* A command nothing happens to.                                               *)
LEMMA InjectsKept ==
  ASSUME Ahead, NEW q \in Procs, Injects(q), proc'[q] = proc[q],
         At(q, "judge") /\ clock' = 1 => call' = call
  PROVE  Injects(q)'
  <1>1. PICK c : c = Line(q)
    OBVIOUS
  <1>2. Line(q)' = c /\ host' = host /\ Side(q)' = Side(q) /\ (At(q, "judge")' <=> At(q, "judge"))
    BY <1>1 DEF Ahead, Line, Side, At, host
  <1>3. OnItsOwn(q)' => OnItsOwn(q) /\ files' = files
    BY <1>2 DEF OnItsOwn, Ahead
  <1>4. PICK exe : exe = proc[q].judged
    OBVIOUS
  <1>5. exe # NoPath /\ OnItsOwn(q)' => IsFirst(c, exe)'
    BY <1>1, <1>3, <1>4, FilesKept DEF Injects
  <1>6. proc[q].ran # NoPath /\ clock' = 1 => (Spawned(c) # NoPath /\ proc[q].ran = Real(Spawned(c)))'
    <2> SUFFICES ASSUME proc[q].ran # NoPath, clock' = 1
                 PROVE  (Spawned(c) # NoPath /\ proc[q].ran = Real(Spawned(c)))'
      OBVIOUS
    <2>1. Spawned(c)' = Spawned(c) /\ \A e : Real(e)' = Real(e)
      BY SpawnedKept, FilesKept DEF Ahead
    <2> QED
      BY <1>1, <2>1 DEF Injects, Ahead
  <1>7. At(q, "judge") /\ proc[q].req = "inject" /\ OnItsOwn(q)' => Searching(c)'
    BY <1>1, <1>3, SearchingKept DEF Injects, OnItsOwn
  <1> QED
    BY <1>1, <1>2, <1>4, <1>5, <1>6, <1>7 DEF Injects

(* A command that moves on.                                                    *)
LEMMA ClientInjects ==
  ASSUME CommandInv, SpawnInv, NEW p \in Procs, Client(p) \/ Lose(p) \/ Kill(p)
  PROVE  SpawnInv'
  <1>1. Onward(p) /\ Steady /\ Moves(p)
    BY ClientSteps, ClientMoves
  <1>2. Ahead
    BY <1>1 DEF Steady, Ahead, SpawnInv
  <1>3. ASSUME NEW q \in Procs, q # p PROVE Injects(q)'
    BY <1>1, <1>2, <1>3, InjectsKept DEF Onward, Only, Steady, SpawnInv
  <1>4. Injects(p)'
    <2>1. PICK c : c = Line(p)
      OBVIOUS
    <2>2. /\ Line(p)' = c /\ host' = host /\ files' = files /\ clock' = clock
          /\ Spawned(c)' = Spawned(c) /\ \A e : Real(e)' = Real(e)
      BY <1>1, <2>1, SpawnedKept, FilesKept DEF Steady, Line, host
    <2>3. Injects(p) /\ proc[p].at # "done" /\ proc[p].ran = NoPath
      BY <1>1 DEF Moves, SpawnInv, Injects
    <2>4. PICK exe : exe = proc[p].judged
      OBVIOUS
    <2>5. /\ proc'[p].judged = exe
          /\ exe # NoPath => /\ c.verb = "inject" /\ c.keys # {} /\ proc'[p].at \in {"spawn", "done"}
                             /\ Side(p)' = Side(p)
      BY <1>1, <2>1, <2>3, <2>4 DEF Moves, Injects, Side
    <2>6. exe # NoPath /\ OnItsOwn(p)' => IsFirst(c, exe)'
      BY <2>1, <2>2, <2>3, <2>4, <2>5, FilesKept DEF Injects, OnItsOwn
    <2>7. proc'[p].ran # NoPath =>
            /\ proc'[p].at = "done" /\ (Spawned(c) # NoPath /\ proc[p].ran = Real(Spawned(c)))'
      BY <1>1, <2>1, <2>2, <2>3 DEF Moves
    <2>8. proc'[p].at \in Sending /\ proc'[p].req = "inject" => c.verb = "inject" /\ c.keys # {}
      BY <1>1, <2>1 DEF Moves
    <2>9. proc'[p].at # "judge"
      BY <1>1 DEF Onward
    <2> QED
      BY <2>1, <2>2, <2>5, <2>6, <2>7, <2>8, <2>9 DEF Injects, At, Sending
  <1> QED
    BY <1>2, <1>3, <1>4 DEF SpawnInv, Ahead

(* A command that is served.                                                   *)
LEMMA ServedInjects ==
  ASSUME CommandInv, SpawnInv, NEW p \in Procs, Served(p), Still,
         proc'[p].at \in {"reply", "prompt", "judge"},
         \/ proc'[p].judged = proc[p].judged
         \/ /\ proc'[p].judged = call.exe /\ proc'[p].at = "reply" /\ proc[p].req = "inject"
            /\ proc[p].at = "judge" /\ call.at = "done",
         proc'[p].at = "judge" /\ proc[p].req = "inject" =>
           Begin(Side(p), Asked(p), Peer(p), Table(p)),
         call' = call \/ ~\E q \in Procs : q # p /\ At(q, "judge")
  PROVE  SpawnInv'
  <1>1. Ahead
    BY DEF Still, Ahead, SpawnInv
  <1>2. ASSUME NEW q \in Procs, q # p PROVE Injects(q)'
    BY <1>1, <1>2, InjectsKept DEF Served, Only, SpawnInv
  <1>3. Injects(p)'
    <2>1. PICK c : c = Line(p)
      OBVIOUS
    <2>2. /\ Line(p)' = c /\ host' = host /\ files' = files /\ clock' = clock
      BY <2>1 DEF Still, Line, host
    <2>3. /\ Injects(p) /\ proc[p].at \in {"send", "judge", "prompt"}
          /\ proc'[p].ran = proc[p].ran /\ proc'[p].req = proc[p].req /\ Side(p)' = Side(p)
      BY DEF SpawnInv, Served, Kept, SameReq, Side
    <2>4. /\ proc[p].ran = NoPath /\ proc[p].judged = NoPath
          /\ proc[p].req = "inject" => c.verb = "inject" /\ c.keys # {}
      BY <2>1, <2>3 DEF Injects, Sending
    <2>5. PICK exe : exe = proc'[p].judged
      OBVIOUS
    <2>6. exe # NoPath =>
            /\ proc'[p].at = "reply" /\ proc[p].req = "inject"
            /\ OnItsOwn(p)' => IsFirst(c, exe)'
      <3> SUFFICES ASSUME exe # NoPath
                   PROVE  /\ proc'[p].at = "reply" /\ proc[p].req = "inject"
                          /\ OnItsOwn(p)' => IsFirst(c, exe)'
        OBVIOUS
      <3>1. exe = call.exe /\ proc'[p].at = "reply" /\ proc[p].req = "inject" /\ At(p, "judge")
        BY <2>4, <2>5 DEF At
      <3>2. OnItsOwn(p)' => OnItsOwn(p)
        BY <2>2, <2>3 DEF OnItsOwn
      <3>3. OnItsOwn(p) => IsFirst(c, exe)
        BY <2>1, <2>3, <3>1 DEF Injects, Searching
      <3> QED
        BY <2>2, <3>1, <3>2, <3>3, FilesKept
    <2>7. proc'[p].at = "judge" /\ proc[p].req = "inject" /\ OnItsOwn(p)' => Searching(c)'
      <3> SUFFICES ASSUME proc'[p].at = "judge", proc[p].req = "inject", OnItsOwn(p)'
                   PROVE  Searching(c)'
        OBVIOUS
      <3>1. host.os # "windows" /\ Side(p) = 0
        BY <2>2, <2>3 DEF OnItsOwn
      <3>2. Line(p).verb = "inject" /\ Line(p).keys # {} /\ plan \in Plans
        BY <2>1, <2>4 DEF CommandInv
      <3> QED
        BY <2>1, <3>1, <3>2, BeginSearches
    <2> QED
      BY <2>1, <2>2, <2>3, <2>4, <2>5, <2>6, <2>7 DEF Injects, At, Sending
  <1> QED
    BY <1>1, <1>2, <1>3 DEF SpawnInv, Ahead

(* The steps of a daemon.                                                      *)
LEMMA DaemonInjects ==
  ASSUME CommandInv, ItemsShape, SpawnInv, NEW p \in Procs, Serve(p) \/ Declined(p) \/ Approve(p)
  PROVE  SpawnInv'
  <1>1. ASSUME IsIdle PROVE ~\E q \in Procs : q # p /\ At(q, "judge")
    BY <1>1 DEF CommandInv, JudgeOfOne
  <1>2. ASSUME At(p, "judge") PROVE ~\E q \in Procs : q # p /\ At(q, "judge")
    BY <1>2 DEF CommandInv, JudgeOfOne
  <1>3. CASE \/ ServeStatus(p) \/ ServeInit(p) \/ ServeUnlock(p) \/ ServeLock(p) \/ ServeRecover(p)
             \/ ServeSession(p)
    BY <1>3, ServeAtOnce, ServedInjects
  <1>4. CASE ServeGated(p)
    <2>1. /\ Served(p) /\ Still /\ proc'[p].judged = proc[p].judged
          /\ \/ call' = call /\ proc'[p].at \in {"reply", "prompt"}
             \/ Handed(p) /\ Begin(Side(p), Asked(p), Peer(p), Table(p))
      BY <1>4, ServeGatedFx
    <2>2. CASE call' = call /\ proc'[p].at \in {"reply", "prompt"}
      BY <2>1, <2>2, ServedInjects
    <2>3. CASE Handed(p) /\ Begin(Side(p), Asked(p), Peer(p), Table(p))
      <3>1. proc'[p].at = "judge" /\ IsIdle
        BY <2>3 DEF Handed
      <3> QED
        BY <1>1, <2>1, <2>3, <3>1, ServedInjects
    <2> QED
      BY <2>1, <2>2, <2>3
  <1>5. CASE Judged(p)
    <2>1. /\ Served(p) /\ Still /\ proc[p].at = "judge" /\ proc'[p].at \in {"reply", "prompt"}
          /\ \/ proc'[p].judged = proc[p].judged
             \/ /\ proc'[p].judged = call.exe /\ proc'[p].at = "reply"
                /\ proc[p].req = "inject" /\ call.at = "done"
      BY <1>5, JudgedFx
    <2>2. ~\E q \in Procs : q # p /\ At(q, "judge")
      BY <1>2, <2>1 DEF At
    <2> QED
      BY <2>1, <2>2, ServedInjects
  <1>6. CASE Approve(p)
    <2>1. /\ Served(p) /\ Still /\ proc'[p].judged = proc[p].judged
          /\ \/ call' = call /\ proc'[p].at = "reply"
             \/ Handed(p) /\ proc[p].req = "ruleadd"
      BY <1>6, ApproveFx
    <2>2. CASE call' = call /\ proc'[p].at = "reply"
      BY <2>1, <2>2, ServedInjects
    <2>3. CASE Handed(p) /\ proc[p].req = "ruleadd"
      <3>1. proc'[p].at = "judge" /\ IsIdle
        BY <2>3 DEF Handed
      <3> QED
        BY <1>1, <2>1, <2>3, <3>1, ServedInjects
    <2> QED
      BY <2>1, <2>2, <2>3
  <1>7. CASE Declined(p)
    BY <1>7, DeclinedFx, ServedInjects
  <1> QED
    BY <1>3, <1>4, <1>5, <1>6, <1>7 DEF Serve

(* A daemon that goes ends what it judged.                                     *)
LEMMA LossInjects ==
  ASSUME CommandInv, SpawnInv, NEW v \in Vaults, OrderlyStop(v) \/ Crash(v)
  PROVE  SpawnInv'
  <1>1. Cut(v) /\ plan' = plan /\ call' = IF call.vault = v THEN NoCall ELSE call
    BY LossSteps DEF ByLoss
  <1>2. files' = files /\ clock' = clock
    BY DEF OrderlyStop, Crash
  <1>3. Ahead
    BY <1>1, <1>2 DEF Ahead, SpawnInv
  <1>4. ASSUME NEW q \in Procs PROVE Injects(q)'
    <2>1. CASE proc'[q] = proc[q] /\ (proc[q].at \in {"judge", "prompt"} => Side(q) # v)
      <3>1. At(q, "judge") => call.vault = Side(q)
        BY DEF CommandInv, JudgeOfOne
      <3>2. At(q, "judge") => call' = call
        BY <1>1, <2>1, <3>1 DEF At
      <3> QED
        BY <1>3, <2>1, <3>2, InjectsKept DEF SpawnInv
    <2>2. CASE /\ proc[q].at \in {"judge", "prompt"} /\ Kept(q) /\ proc'[q].at = "done"
               /\ proc'[q].judged = proc[q].judged
      <3>1. proc[q].judged = NoPath /\ proc[q].ran = NoPath
        BY <2>2 DEF SpawnInv, Injects
      <3> QED
        BY <2>2, <3>1 DEF Injects, Kept, At, Sending
    <2> QED
      BY <1>1, <2>1, <2>2 DEF Cut
  <1> QED
    BY <1>3, <1>4 DEF SpawnInv, Ahead

(* Whatever happens.                                                           *)
LEMMA NextSpawn ==
  ASSUME CommandInv, ItemsShape, SpawnInv, [Next]_vars
  PROVE  SpawnInv'
  <1>1. CASE \/ \E v \in Vaults : DesktopStart(v) \/ CleansUp(v) \/ DesktopQuits(v) \/ IdleLock(v) \/ DesktopSave(v)
             \/ AllDone \/ UNCHANGED vars
    <2>1. proc' = proc /\ plan' = plan /\ files' = files /\ clock' = clock /\ call' = call
      BY <1>1 DEF DesktopStart, CleansUp, DesktopQuits, IdleLock, DesktopSave, AllDone, vars, world, outside, authzVars
    <2>2. Ahead
      BY <2>1 DEF Ahead, SpawnInv
    <2> QED
      BY <2>1, <2>2, InjectsKept DEF SpawnInv, Ahead
  <1>2. CASE Judging
    <2>1. /\ proc' = proc /\ plan' = plan /\ files' = files /\ clock' = clock /\ Evaluate
      BY <1>2 DEF Judging, world, outside, Evaluate, Resolve, JudgeStep, Stat, Hash, Info, InfoHash,
                  BindStat, BindHash
    <2>2. Ahead
      BY <2>1 DEF Ahead, SpawnInv
    <2>3. ASSUME NEW q \in Procs PROVE Injects(q)'
      <3>1. CASE ~At(q, "judge")
        BY <2>1, <2>2, <3>1, InjectsKept DEF SpawnInv
      <3>2. CASE At(q, "judge")
        <4>1. PICK c : c = Line(q)
          OBVIOUS
        <4>2. CallShape(call) /\ Line(q)' = c /\ proc[q].judged = NoPath /\ proc[q].ran = NoPath
          BY <2>1, <3>2, <4>1 DEF CommandInv, Shapes, Line, SpawnInv, Injects, At
        <4>3. OnItsOwn(q)' <=> OnItsOwn(q)
          BY <2>1 DEF OnItsOwn, host, Side
        <4>4. proc[q].req = "inject" /\ OnItsOwn(q) => Searching(c)'
          BY <2>1, <3>2, <4>1, <4>2, EvaluateSearches DEF SpawnInv, Injects
        <4> QED
          BY <2>1, <3>2, <4>1, <4>2, <4>3, <4>4 DEF SpawnInv, Injects, At
      <3> QED
        BY <3>1, <3>2
    <2> QED
      BY <2>2, <2>3 DEF SpawnInv, Ahead
  <1>3. CASE Replaced
    <2>1. proc' = proc /\ plan' = plan /\ clock' = clock + 1
      BY <1>3 DEF Replaced, world, outside, Disturb, Touch
    <2>2. Ahead /\ clock' # 1
      BY <2>1 DEF Ahead, SpawnInv
    <2> QED
      BY <2>1, <2>2, InjectsKept DEF SpawnInv, Ahead
  <1> QED
    BY <1>1, <1>2, <1>3, ClientInjects, DaemonInjects, LossInjects DEF Next, Step

(* Where programs have no extensions (not on Windows) and the daemon asked is  *)
(* the one of the same system, as long as no file changes, and of a command    *)
(* the daemon reads as the system does (ReadAlike): the program an injection   *)
(* starts is the one the daemon judged.  What inject_command of                *)
(* main.rs starts is looked for along PATH, resolve_exe_path of exe_resolve.rs *)
(* looked in the same places in the same order, and then where the caller      *)
(* works, a last place that is only reached when nothing can be started.       *)
THEOREM TheJudgedIsSpawned == Spec => []SpawnsTheJudged
  <1>1. Init => CommandInv /\ ItemsShape /\ SpawnInv
    <2> SUFFICES ASSUME Init PROVE SpawnInv
      BY InitInv
    <2>1. clock = 1 /\ proc = [p \in Procs |-> NoProc]
      BY DEF Init
    <2> QED
      BY <2>1 DEF SpawnInv, Injects, NoProc, At, Sending
  <1>2. CommandInv /\ ItemsShape /\ SpawnInv /\ [Next]_vars
        => (CommandInv /\ ItemsShape /\ SpawnInv)'
    BY NextInv, NextSpawn
  <1>3. CommandInv /\ SpawnInv => SpawnsTheJudged
    BY InvSpawns
  <1> QED
    BY <1>1, <1>2, <1>3, PTL DEF Spec
================================================================================
