---------------------------- MODULE MCCommandLine ----------------------------
EXTENDS CommandLine, TLC

(* Directories and programs.  *)
N(w)     == [word |-> w, upper |-> FALSE]
NU(w)    == [word |-> w, upper |-> TRUE]
Project  == [form |-> "posix", names |-> <<N("p")>>]
Inner    == [form |-> "posix", names |-> <<N("p"), N("q")>>]
Cased    == [form |-> "posix", names |-> <<NU("p")>>]
WslHome  == [form |-> "wsl$", names |-> <<NU("ubuntu"), N("p")>>]
WslCanon == [form |-> "wsl://", names |-> <<N("ubuntu")>>]
WinDir   == [form |-> "verbatim", names |-> <<N("p"), N("q")>>]
DriveDir == [form |-> "drive", names |-> <<N("p")>>]

BinNpm == <<"bin", <<"npm">>>>
OwnNpm == <<"p", <<"npm">>>>
OptNpm == <<"opt", <<"npm">>>>
BinExe == <<"bin", <<"npm", ".exe">>>>
BinTwo == <<"bin", <<"npm", " ", "x">>>>     \* a name with a space
Paths  == {BinNpm, OwnNpm, OptNpm, BinExe, BinTwo}
Size   == [a |-> 1, b |-> 1, c |-> 2]
F(d)   == [data |-> d, stamp |-> 0, link |-> NoPath, exec |-> TRUE]
Linked == [q \in Paths |-> CASE q = OptNpm -> F("a")
                             [] q = BinNpm -> [F("a") EXCEPT !.link = OptNpm]
                             [] OTHER      -> NoFile]
Two    == [q \in Paths |-> CASE q = OwnNpm -> F("b") [] q = BinNpm -> F("a") [] OTHER -> NoFile]
Suffix == [q \in Paths |-> IF q = BinExe THEN F("a") ELSE IF q = OptNpm THEN F("b") ELSE NoFile]
Spaced == [Two EXCEPT ![BinTwo] = F("b")]
Data   == [Two EXCEPT ![BinNpm].exec = FALSE, ![OptNpm] = F("a")]
None   == [q \in Paths |-> NoFile]
Bound(e, d) == [exe |-> e, size |-> Size[d], data |-> d]

Rule(cap, dir, cmd, keys, acts, print) ==
  [capability |-> cap, dir |-> dir, command |-> cmd, keys |-> keys, actions |-> acts,
   print |-> print]
R1 == Rule("inject", Project, <<"npm", "*">>, {"k1"}, {}, NoPrint)
R2 == Rule("inject", WslCanon, <<"npm", "*", "x">>, {"k1", "k2"}, {}, NoPrint)
R3 == Rule("inject", Project, <<"npm">>, {"k2"}, {}, Bound(BinNpm, "a"))
R4 == Rule("inject", Project, <<"npm">>, {"k1"}, {}, Bound(OptNpm, "a"))
R5 == Rule("read", Project, <<>>, {"k1"}, {}, NoPrint)
R6 == Rule("write", Project, <<>>, {"k1", "k2"}, {"create", "update"}, NoPrint)
R8 == Rule("inject", DriveDir, <<"npm", ".cmd">>, {"k1"}, {}, Bound(BinExe, "a"))
R7 == Rule("inject", DriveDir, <<"npm", "?">>, {"k1"}, {}, NoPrint)

(* Callers.  *)
Caller(cwd, path) == [os |-> "any", pid |-> 3, session |-> TRUE, cwd |-> cwd, place |-> "p", path |-> path]
AtProject == Caller(Project, <<Here, "bin">>)
Callers == {AtProject, Caller(Cased, <<"opt">>), Caller(Inner, <<"bin", "opt">>),
            Caller(WslHome, <<"bin">>), Caller(WinDir, <<"bin">>), Caller(NoDir, <<"bin">>),
            Caller(Project, Unreadable), [AtProject EXCEPT !.session = FALSE]}
T(readable, leader, parent) == [readable |-> readable, leader |-> leader, parent |-> parent]
Normal == [i \in 1..3 |-> T(TRUE, i = 1, i - 1)]
Tables == {[i \in 1..3 |-> T(i = 3, FALSE, i - 1)], [i \in 1..2 |-> T(TRUE, FALSE, i - 1)],
           [i \in 1..3 |-> T(TRUE, FALSE, (i % 3) + 1)]}

(* Systems.  *)
Linux == [os |-> "linux", choice |-> "auto", home |-> 0, wsl |-> FALSE, interop |-> FALSE,
          exes |-> {}, runs |-> FALSE, version |-> "same", me |-> 1, distro |-> "none",
          own |-> "ubuntu", tty |-> TRUE, agrees |-> TRUE]
Wsl   == [Linux EXCEPT !.wsl = TRUE, !.interop = TRUE, !.exes = {1, 2}, !.runs = TRUE,
                       !.distro = "ubuntu"]
Windows == [Linux EXCEPT !.os = "windows"]
Mac     == [Linux EXCEPT !.os = "macos"]

(* What is there at the start.  *)
Nothing == [made |-> FALSE, open |-> FALSE, up |-> FALSE, json |-> FALSE]
Shut    == [made |-> TRUE, open |-> FALSE, up |-> TRUE, json |-> TRUE]
Open    == [Shut EXCEPT !.open = TRUE]
Died    == [Shut EXCEPT !.up = FALSE]
World(a, b, c) == (0 :> a) @@ (1 :> b) @@ (2 :> c)
Here0   == World(Open, Nothing, Nothing)
There1  == World(Nothing, Open, Nothing)
Both    == World(Open, Open, Nothing)

Item(v, kind, fields) == [side |-> v, kind |-> kind, rev |-> 1, deleted |-> FALSE, fields |-> fields]
Login(n)  == [name |-> n, username |-> "u", password |-> "w", uris |-> "r"]
AFile(n)  == [name |-> n, note |-> "t", file |-> "d", mime |-> "m"]
ANote(n)  == [name |-> n, content |-> "t"]
Empty     == <<>>
Stored(v) == <<Item(v, "login", Login("k1")), Item(v, "file", AFile("k2"))>>

(* Command lines.  *)
Cmd(d, a) == [dir |-> d, name |-> <<"npm">>, rest |-> <<>>, args |-> a]
WithSpace == [Cmd("bare", <<>>) EXCEPT !.rest = <<"x">>]
Simple(verb) == [verb |-> verb]
Inject(c, k, path) == [verb |-> "inject", command |-> c, keys |-> k, path |-> path, place |-> "p"]
Pass  == Inject(Cmd("bare", <<>>), {}, <<>>)
On(verb, i) == [verb |-> verb, id |-> i]
Edit(i, changes, expected) == [verb |-> "edit", id |-> i, changes |-> changes, expected |-> expected]
CopyOf(i, field) == [verb |-> "copy", id |-> i, field |-> field]
ByName(n) == [verb |-> "get", id |-> NoItem, name |-> n]
Add(kind, draft) == [verb |-> "add", kind |-> kind, draft |-> draft, input |-> "good"]
InitAs(pw, force) == [verb |-> "init", pw |-> pw, force |-> force, input |-> "good"]
Unlock(pw) == [verb |-> "unlock", pw |-> pw, input |-> "good"]
Recover(code, pw) == [verb |-> "recover", code |-> code, pw |-> pw, input |-> "good"]
SetConf(creds, url) == [verb |-> "configset", valid |-> url # "bad", remote |-> url = "dav",
                        creds |-> creds, url |-> url]
GetConf(key) == [verb |-> "configget", key |-> key]
AuditLog(verify) == [verb |-> "audit", verify |-> verify]
Dir(kind, place) == [kind |-> kind, place |-> place, names |-> <<N("p")>>, distro |-> "ubuntu"]
RuleAdd(dir, caps, command, keys, optKeys, print) ==
  [verb |-> "ruleadd", dir |-> dir, caps |-> caps, actions |-> "none", print |-> print,
   command |-> command, keys |-> keys, optKeys |-> optKeys]
Plain(dir) == RuleAdd(dir, {}, <<"npm">>, {"k1"}, {}, NoPath)

(* Plans.  *)
Plan(h, l1, l2, start) ==
  [host |-> h, lines |-> <<l1, l2>>, peer |-> <<AtProject, AtProject>>, table |-> <<Normal, Normal>>,
   start |-> start, conf |-> NoConf, items |-> Empty, rules |-> {}, ui |-> FALSE,
   files |-> None, touch |-> FALSE, faults |-> 1, turns |-> 1]

Hosts == {Linux, Windows, Mac, Wsl, [Wsl EXCEPT !.choice = "off"], [Wsl EXCEPT !.choice = "exe"],
          [Wsl EXCEPT !.choice = "exe", !.home = 2], [Wsl EXCEPT !.home = 2],
          [Wsl EXCEPT !.interop = FALSE], [Wsl EXCEPT !.exes = {2}], [Wsl EXCEPT !.runs = FALSE],
          [Wsl EXCEPT !.version = "other"]}
Worlds == {World(Shut, Nothing, Nothing), World(Nothing, Nothing, Died), World(Shut, Shut, Shut),
           World(Died, Died, Shut)}

FindingTheDaemon ==
  {Plan(h, Simple(verb), Pass, w) : h \in Hosts, verb \in {"status", "lock"}, w \in Worlds}
  \cup {[Plan(h, Simple("status"), Pass, w) EXCEPT !.turns = 2] :
          h \in {Wsl, [Wsl EXCEPT !.interop = FALSE], [Wsl EXCEPT !.exes = {2}]}, w \in Worlds}

OpeningAndClosing ==
  {[Plan(Wsl, l1, l2, w) EXCEPT !.turns = IF w = Here0 THEN 0 ELSE 1] :
     w \in {Here0, There1},
     l1 \in {InitAs("new", TRUE), InitAs("weak", TRUE), InitAs("new", FALSE), Recover(0, "new"),
             Recover(7, "new")},
     l2 \in {Unlock("old"), Unlock("new"), Simple("lock")}}

WithItems(h, l1, l2, v, rs) ==
  [Plan(h, l1, l2, IF v = 0 THEN Here0 ELSE There1) EXCEPT
     !.items = Stored(v), !.rules = rs, !.ui = TRUE]
Changing ==
  {[WithItems(h[1], l[1], l[2], h[2], h[3]) EXCEPT !.turns = h[2]] :
     h \in {<<Linux, 0, {R5, R6}>>, <<Wsl, 1, {R5}>>},
     l \in {<<Edit(1, [password |-> "x"], 0), Edit(1, [name |-> "k2"], 0)>>,
            <<Edit(1, [username |-> "x"], 1), On("delete", 1)>>,
            <<On("delete", 1), On("delete", 1)>>,
            <<Edit(2, [file |-> "e"], 0), Edit(2, [file |-> "unreadable"], 0)>>,
            <<Edit(2, [mime |-> "n"], 0), On("export", 2)>>,
            <<Add("note", ANote("k2")), ByName("k2")>>,
            <<CopyOf(1, "password"), CopyOf(2, "note")>>}}
Mistaken ==
  {[Plan(Linux, [l EXCEPT !.input = input], [Add(k, ANote("k1")) EXCEPT !.input = input], Here0)
      EXCEPT !.turns = 0] :
     l \in {InitAs("new", TRUE), Recover(0, "new"), Unlock("old")}, k \in {"note", "file"},
     input \in {"unreadable", "declined", "mistyped", "missing", "too large"}}
Reading ==
  {WithItems(Linux, l[1], l[2], 0, {R5}) :
     l \in {<<On("export", 1), AuditLog(TRUE)>>, <<Simple("list"), Simple("sync")>>,
            <<Simple("rulelist"), ByName("k1")>>}}

Settings ==
  {[Plan(h, l[1], l[2], World(Shut, Shut, Nothing)) EXCEPT !.conf.url = "dav"] :
     h \in {Linux, Wsl},
     l \in {<<SetConf("good", "dav"), SetConf("none", "local")>>,
            <<SetConf("one line", "dav"), GetConf("sync.url")>>,
            <<SetConf("unreadable", "dav"), SetConf("none", "bad")>>,
            <<GetConf("unknown"), Simple("sync")>>}}

Ruling ==
  {[Plan(h[1], l, Pass, h[2]) EXCEPT !.ui = TRUE, !.files = Two] :
     h \in {<<Linux, Here0>>, <<Windows, Here0>>, <<Wsl, There1>>, <<Wsl, Both>>,
            <<[Wsl EXCEPT !.tty = FALSE], There1>>,
            <<[Linux EXCEPT !.wsl = TRUE, !.distro = "ubuntu"], Here0>>},
     l \in {Plain(Dir(k, pl)) : k \in {"existing", "missing", "canonical", "windows"},
                                pl \in {"native", "drvfs"}}
           \cup {RuleAdd(Dir("existing", "native"), {"inject"}, <<>>, {}, {"k1"}, BinNpm),
                 RuleAdd(Dir("existing", "native"), {"write"}, <<>>, {}, {"k1"}, NoPath),
                 RuleAdd(Dir("existing", "native"), {"read", "write"}, <<>>, {}, {"k1"}, NoPath)}}
Unruling ==
  {[Plan(Linux, [verb |-> "ruleremove", rule |-> R1], [verb |-> "ruleremove", rule |-> R1], Here0)
      EXCEPT !.rules = {R1}, !.ui = u] : u \in BOOLEAN}

Injecting(c, k, peer, table, rs, fs) ==
  [Plan(Linux, Inject(c, k, IF peer.path = Unreadable THEN <<Here, "bin">> ELSE peer.path), Pass,
        Here0) EXCEPT
     !.peer[1] = peer, !.table[1] = table, !.rules = rs, !.files = fs, !.faults = 0, !.turns = 0]
Commands == {Cmd("bare", <<>>), Cmd("bare", <<"x", "y", "x">>), Cmd("opt", <<"x">>)}
Judgings ==
  {Injecting(c, {"k1", "k2"}, peer, Normal, rs, fs) :
     c \in Commands, peer \in Callers, fs \in {Linked, Two},
     rs \in {{R1}, {R1, R2}, {R3, R4}, {R1, R3}, {R7, Unreadable}, {R2, R7}}}
  \cup {Injecting(Cmd("bare", <<>>), k, AtProject, t, {R1}, Two) :
          k \in {{"k1"}, {"k2"}, {"k1", "k3"}}, t \in Tables \cup {Normal}}
  \cup {Injecting(c, {"k1", "k2"}, peer, Normal, rs, fs) :
          c \in {Cmd("bare", <<>>), Cmd(".", <<>>), Cmd(".", <<"x">>), WithSpace},
          peer \in {AtProject, Caller(Project, <<"opt">>), Caller(Inner, <<"bin", "opt">>)},
          rs \in {{R1}, {R3}, {R4}}, fs \in {Spaced, Data}}
  \cup {[Injecting(Cmd("bare", <<>>), {"k1"}, peer, t, rs, Suffix) EXCEPT !.host = h] :
          h \in {Windows, Mac}, t \in Tables \cup {Normal}, rs \in {{R7}, {R8}},
          peer \in {Caller(WinDir, <<"bin">>), Caller(WinDir, <<"opt", "bin">>),
                   [Caller(WinDir, <<"bin">>) EXCEPT !.session = FALSE]}}
Replacing ==
  {[Injecting(Cmd("bare", <<>>), {"k1", "k2"}, peer, Normal, rs, fs) EXCEPT
      !.touch = TRUE, !.ui = TRUE, !.lines[2] = l2] :
     peer \in {AtProject, Caller(Project, <<"opt">>)}, rs \in {{R3}, {R4}}, fs \in {Linked},
     l2 \in {Inject(Cmd("bare", <<>>), {"k1"}, <<Here, "bin">>),
             RuleAdd(Dir("existing", "native"), {"inject"}, <<>>, {}, {"k1"}, OptNpm)}}

AllPlans == FindingTheDaemon \cup Mistaken \cup OpeningAndClosing \cup Changing \cup Reading \cup Settings
              \cup Ruling \cup Unruling \cup Judgings \cup Replacing
PathExt == <<".com", ".exe">>
=============================================================================
