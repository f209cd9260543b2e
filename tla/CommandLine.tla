------------------------------ MODULE CommandLine ------------------------------
(***************************************************************************)
(* `lk`: from a command line to the daemon that carries it out and back    *)
(* (lk-cli/src/{main, client, bridge, bridge_backend, clipboard}.rs, the    *)
(* configuration file of lk-daemon/src/config.rs, and what the requests do *)
(* to a vault).  A command looks for its daemon at every request: the one  *)
(* of this system, or, in WSL, the one of a Windows user behind a relay    *)
(* process.  Meanwhile daemons start, exit and die, other command lines    *)
(* work on the same items, and replies are lost.                           *)
(*                                                                         *)
(* Vault 0 is the one of the system the command line runs on, the others   *)
(* belong to the Windows users, in the order in which they are found.      *)
(* The gates are those of Authorization; what else may happen to a prompt  *)
(* is in ApprovalGate, to a start of a daemon in DaemonLaunch, to the      *)
(* files of a vault in VaultStore.                                         *)
(***************************************************************************)
EXTENDS Authorization

CONSTANTS
  Procs,         \* command lines given
  Plans,         \* the systems they are given on, and what they are
  Ids,           \* items, and the identities new ones may get
  NoItem, NoUrl, NoVault

Users == Vaults \ {0}
Word  == [word : STRING, upper : BOOLEAN]
Verbs == {"init", "unlock", "lock", "recover", "status", "list", "get", "add", "edit", "delete",
          "copy", "export", "sync", "audit", "rulelist", "ruleadd", "ruleremove", "inject",
          "configset", "configget"}

ASSUME CommandLineAssumption ==
  /\ 0 \in Vaults /\ Vaults \subseteq Nat /\ NoVault \notin Vaults
  /\ \A x \in Plans : {x.faults, x.turns} \subseteq Nat

(* What a plan may say.  A daemon that runs has written its endpoint file, programs *)
(* are older than their first change, and whoever asks for an injection is the      *)
(* process whose directory and PATH the daemon looks at.                            *)
ASSUME PlanAssumption ==
  \A x \in Plans :
    /\ x.host.choice \in {"auto", "off", "exe"}
    /\ x.host.home \in Vaults /\ x.host.me \in Users
    /\ \A v \in Vaults : x.start[v].up => x.start[v].json
    /\ \A i \in DOMAIN x.items :
         /\ DOMAIN x.items[i] = {"side", "kind", "rev", "deleted", "fields"}
         /\ x.items[i].rev \in Nat
    /\ x.files \in [Programs -> {NoFile} \cup [data : Contents, stamp : {0},
                                              link : Programs \cup {NoPath},
                                              exec : BOOLEAN]]
    /\ \A p \in Procs :
         LET c == x.lines[p]
         IN /\ DOMAIN x.peer[p] = {"os", "pid", "session", "cwd", "place", "path"}
            /\ c.verb \in Verbs
            /\ c.verb = "ruleadd" => c.dir.names \in Seq(Word)
            /\ c.verb = "inject" /\ c.keys # {} =>
                 /\ c.path \in Seq(STRING)
                 /\ x.peer[p].path \in {c.path, Unreadable} /\ x.peer[p].place = c.place

VARIABLES
  plan,       \* fixed: the host, the command lines, who gives them, what is there before,
              \* and the bounds: how much may fail, how often others start, stop, lock or save
  daemon,     \* per vault: is the daemon up, the token of its session (0: locked), its settings,
              \* has one that stopped yet to clean up, and (history) was the endpoint file of
              \* this one removed?
  disk,       \* per vault: daemon.json, session.token, the vault's secrets, config.json
  issued,     \* tokens so far
  items,      \* the items of all vaults
  gone,       \* per vault: deleted rules, whose bodies are still there
  keychain,   \* storage URLs with credentials in the keychain of this system
  clip,       \* the item whose value is in the clipboard
  proc,       \* the command lines being carried out
  faults, turns

outside == <<plan, issued, items, gone, keychain, clip, faults, turns>>
world   == <<daemon, disk, outside>>
vars    == <<authzVars, world, proc>>

host    == plan.host
Line(p) == plan.lines[p]
NoConf  == [url |-> NoUrl, lock |-> 5]

-----------------------------------------------------------------------------
(***************************************************************************)
(* Where the request goes: bridge_backend.rs.                              *)
(***************************************************************************)
Local           == [kind |-> "local", side |-> 0, known |-> TRUE]
Bridge(v, home) == [kind |-> "bridge", side |-> v, known |-> home]
Fatal           == [kind |-> "fatal", side |-> 0, known |-> FALSE]

(* find_windows_install: the first user with an endpoint file.                    *)
Found ==
  LET with == {v \in Users : disk[v].json}
  IN IF with = {} THEN 0 ELSE CHOOSE v \in with : \A w \in with : v <= w

(* Mutated form: an installation that cannot be reached is no installation.       *)
FallsBack(v) == IF host.interop /\ v \in host.exes THEN Bridge(v, TRUE) ELSE Local

DecideInstalled(v) == IF host.interop /\ v \in host.exes THEN Bridge(v, TRUE) ELSE Fatal

(* decide_with: LIGHTKEY_BRIDGE, then LIGHTKEY_BRIDGE_HOME, then the search.      *)
(* Without a data directory the relay takes that of its own user.                 *)
Decide ==
  LET data == IF host.home # 0 THEN host.home ELSE Found
  IN IF host.os # "linux" \/ host.choice = "off" THEN Local
     ELSE IF host.choice = "exe"
       THEN IF data # 0 THEN Bridge(data, TRUE) ELSE Bridge(host.me, FALSE)
     ELSE IF ~host.wsl \/ data = 0 THEN Local
     ELSE DecideInstalled(data)

-----------------------------------------------------------------------------
(***************************************************************************)
(* What may be typed.                                                      *)
(***************************************************************************)
FieldsOf(kind) ==
  CASE kind = "login"  -> {"name", "username", "password", "uris"}
    [] kind = "note"   -> {"name", "content"}
    [] kind = "secret" -> {"name", "value", "purpose", "expires_at"}
    [] kind = "file"   -> {"name", "note", "file", "mime"}

Copied(kind) == FieldsOf(kind) \cap {"username", "password", "content", "value"}

(* cmd_item_edit: --mime alone is no change.                                      *)
NothingToEdit(c) == DOMAIN c.changes \subseteq {"mime"}

(* rule_add_fingerprint: a rule bound to a program.                               *)
BoundUsage(c) == c.optKeys = {} \/ ~IsFile(c.print)

(* parse_write_actions: nothing but create and update.                            *)
ActionsUsage(c) == c.actions \notin (IF "read" \in c.caps THEN {"none"} ELSE {"none", "good"})

(* A rule for reading or writing items names them by --keys and has no command.   *)
GateUsage(c) == c.keys # {} \/ c.optKeys = {} \/ c.command # <<>> \/ ActionsUsage(c)

(* cmd_rule with clap's exclusions: what a form has no use for is refused, or, with *)
(* --fingerprint, passed over.                                                    *)
RuleUsage(c) ==
  \/ Cardinality(c.caps) > 1
  \/ c.caps = {} /\ c.actions # "none"
  \/ c.print # NoPath /\ ("inject" \notin c.caps \/ BoundUsage(c))
  \/ /\ c.print = NoPath
     /\ CASE c.caps = {}         -> c.optKeys # {} \/ c.keys = {} \/ c.command = <<>>
          [] c.caps = {"inject"} -> c.keys # {} \/ c.optKeys = {} \/ c.command = <<>>
          [] OTHER               -> GateUsage(c)

(* What is refused with exit 2 before anything is asked.                          *)
Usage(c) ==
  CASE c.verb = "add"     -> c.kind = "note" /\ c.input = "missing"
    [] c.verb = "edit"    -> NothingToEdit(c)
    [] c.verb = "ruleadd" -> RuleUsage(c)
    [] c.verb = "inject"  -> c.keys = {}
    [] OTHER              -> FALSE

(* cmd_init, cmd_recover, read_secret, cmd_item_add: what is not agreed to, or    *)
(* cannot be read, or is not the same twice, is exit 1.                           *)
InitRefused(c) ==
  \/ c.input \in {"unreadable", "empty", "mistyped"}
  \/ c.force /\ c.input = "declined"
RecoverRefused(c) == c.input \in {"unreadable", "mistyped"}
SecretRefused(c)  == c.input = "unreadable"
AddRefused(c)     == IF c.kind = "file" THEN c.input \in {"unreadable", "too large"}
                                        ELSE SecretRefused(c)

Refused(c) ==
  CASE c.verb = "init"    -> InitRefused(c)
    [] c.verb = "recover" -> RecoverRefused(c)
    [] c.verb = "unlock"  -> SecretRefused(c)
    [] c.verb = "add"     -> AddRefused(c)
    [] OTHER              -> FALSE

(* The first request of a command: cmd_*, item_command.                           *)
FirstRequest(c) ==
  CASE c.verb = "get" /\ c.id = NoItem -> "list"
    [] c.verb \in {"edit", "copy"}     -> "get"
    [] c.verb = "add"                  -> "create"
    [] OTHER                           -> c.verb

-----------------------------------------------------------------------------
(***************************************************************************)
(* The process of the command line.                                        *)
(***************************************************************************)
NoReply == [err |-> "none", val |-> 0]
NoProc  == [at |-> "idle", req |-> "none", id |-> NoItem, shown |-> 0, target |-> Local,
            token |-> 0, reply |-> NoReply, base |-> 0, draft |-> <<>>, exit |-> 0,
            err |-> "none", acted |-> 0, dir |-> NoDir, ran |-> NoPath, judged |-> NoPath, asked |-> "open",
            conf |-> NoConf]

Side(p) == proc[p].target.side
At(p, at) == proc[p].at = at
Set(p, r) == proc' = [proc EXCEPT ![p] = r]

(* run: the exit code.  rpc_fail: every failed request is exit 1.                 *)
Exits(p, code)  == Set(p, [proc[p] EXCEPT !.at = "done", !.exit = code])
Fails(p, err)   == Set(p, [proc[p] EXCEPT !.at = "done", !.exit = 1, !.err = err])
Goes(p, at)     == Set(p, [proc[p] EXCEPT !.at = at])
Asks(p, method) == Set(p, [proc[p] EXCEPT !.at = "choose", !.req = method])

Fault  == faults < plan.faults /\ faults' = faults + 1
Unhurt == UNCHANGED <<daemon, disk, plan, issued, items, gone, keychain, clip, turns, authzVars>>
Inside == UNCHANGED <<world, authzVars>>

Start(p) ==
  /\ At(p, "idle")
  /\ LET c == Line(p)
     IN CASE Usage(c)   -> Exits(p, 2)
          [] Refused(c) -> Exits(p, 1)
          [] c.verb \in {"status", "configset", "configget"} -> Goes(p, "look")
          [] c.verb = "ruleadd" -> Goes(p, "dir")
          [] OTHER -> Set(p, [proc[p] EXCEPT !.at = "choose", !.req = FirstRequest(c),
                                             !.id = IF "id" \in DOMAIN c THEN c.id ELSE NoItem])
  /\ Inside

(* cmd_status and cmd_config decide whose configuration they mean.                *)
Look(p) ==
  /\ At(p, "look")
  /\ LET c == Line(p)
         d == Decide
     IN IF d.kind = "fatal" \/ ~d.known THEN Fails(p, "transport")
        ELSE IF c.verb = "configset" /\ ~c.valid THEN Exits(p, 2)
        ELSE Set(p, [proc[p] EXCEPT !.shown = d.side, !.req = FirstRequest(c),
               !.at = CASE c.verb = "status" -> "choose"
                        [] c.verb = "configset" /\ c.remote -> "creds"
                        [] OTHER -> "read"])
  /\ Inside

(* read_sync_credentials and store_sync_credentials.                              *)
Credentials(p) ==
  /\ At(p, "creds")
  /\ \/ /\ Line(p).creds = "good"
        /\ keychain' = keychain \cup {Line(p).url}
        /\ Goes(p, "read")
        /\ UNCHANGED <<daemon, disk, plan, issued, items, gone, clip, faults, turns, authzVars>>
     \/ Line(p).creds = "unreadable" /\ Exits(p, 1) /\ Inside
     \/ Line(p).creds = "one line" /\ Exits(p, 2) /\ Inside
     \/ Fault /\ Exits(p, 1) /\ Unhurt

(* read_config; cmd_config_get.                                                   *)
ReadConf(p) ==
  /\ At(p, "read")
  /\ LET conf == disk[proc[p].shown].conf
         c    == Line(p)
     IN IF c.verb = "configset" THEN Set(p, [proc[p] EXCEPT !.at = "write", !.conf = conf])
        ELSE Exits(p, CASE c.key = "unknown" -> 2
                        [] c.key \in {"sync.url", "sync.interval"} /\ conf.url = NoUrl -> 1
                        [] OTHER -> 0)
  /\ Inside

(* write_config: the whole file, from what was read before.                       *)
WriteConf(p) ==
  /\ At(p, "write")
  /\ \/ /\ disk' = [disk EXCEPT ![proc[p].shown].conf = [proc[p].conf EXCEPT !.url = Line(p).url]]
        /\ Exits(p, 0)
        /\ UNCHANGED <<daemon, outside, authzVars>>
     \/ Fault /\ Exits(p, 1) /\ Unhurt

-----------------------------------------------------------------------------
(***************************************************************************)
(* The directory of a rule.  A directory of a Windows drive is there in    *)
(* both systems: in WSL as one of the mount.                               *)
(***************************************************************************)
Mounted(d)  == d.place = "drvfs"
MountWord   == [word |-> "mnt", upper |-> FALSE]
Posix(d)    == [form |-> "posix", names |-> (IF Mounted(d) THEN <<MountWord>> ELSE <<>>) \o d.names]
Drive(d)    == [form |-> "drive", names |-> d.names]
Distro(w)   == [word |-> w, upper |-> FALSE]
Native(d)   == IF host.os # "windows" THEN Posix(d) ELSE [form |-> "verbatim", names |-> d.names]
WslDir(w, d) == [form |-> "wsl://", names |-> <<Distro(w)>> \o Posix(d).names]

(* resolve_wsl_rule_dir, ask_rule_confirm: only somebody at a terminal can agree. *)
Confirmed(dir)   == IF host.tty /\ host.agrees THEN dir ELSE NoDir
ResolveWsl(d)    == IF host.distro = "none" THEN NoDir ELSE Confirmed(WslDir(host.distro, d))

(* Mutated form: a directory of a mounted drive is taken for one of WSL's.        *)
AllWsl(d) == ResolveWsl(d)

(* drvfs_rule_windows_form, confirm_windows_candidate.                            *)
BridgedDir(d) == IF Mounted(d) THEN Confirmed(Drive(d)) ELSE ResolveWsl(d)

(* cmd_rule_add_inner, from the spelling to what is sent.                         *)
RuleDir(d, bridged) ==
  CASE d.kind = "canonical" -> WslDir(d.distro, d)
    [] d.kind = "windows"   -> IF bridged THEN Drive(d)
                               ELSE IF host.os # "windows" THEN NoDir ELSE Native(d)
    [] d.kind = "existing"  -> IF bridged THEN BridgedDir(d) ELSE Native(d)
    [] d.kind = "missing"   -> ResolveWsl(d)
    [] OTHER                -> NoDir

Directory(p) ==
  /\ At(p, "dir")
  /\ LET dir == RuleDir(Line(p).dir, Decide.kind = "bridge")
     IN IF dir = NoDir THEN Exits(p, 1)
        ELSE Set(p, [proc[p] EXCEPT !.at = "choose", !.req = "ruleadd", !.dir = dir,
                                    !.shown = Decide.side])
  /\ Inside

(* What is sent: command and keys depend on the form of the rule.                 *)
RuleSent(p) ==
  LET c   == Line(p)
      cap == IF c.caps \cap {"read", "write"} = {} THEN "inject"
             ELSE CHOOSE x \in c.caps : TRUE
  IN [capability |-> cap, dir |-> Canonical(proc[p].dir), print |-> NoPrint,
      command |-> IF c.print # NoPath THEN c.print[2]
                  ELSE IF cap = "inject" THEN c.command ELSE <<>>,
      keys    |-> IF c.caps = {} THEN c.keys ELSE c.optKeys,
      actions |-> IF cap = "write" THEN {"create", "update"} ELSE {}]

-----------------------------------------------------------------------------
(***************************************************************************)
(* One request: production_transport, rpc_local, rpc_via_bridge and the    *)
(* relay.                                                                  *)
(***************************************************************************)
Choose(p) ==
  /\ At(p, "choose")
  /\ LET d == Decide
     IN IF d.kind = "fatal" THEN Fails(p, "transport")
        ELSE Set(p, [proc[p] EXCEPT !.target = d,
                       !.at = IF d.kind = "local" THEN "ensure" ELSE "token"])
  /\ Inside

Announces(v) == daemon[v].up /\ disk[v].json

(* A daemon starts.  One whose endpoint file is gone may run still: it keeps what *)
(* it has been asked, and has yet to clean up; its session is over for everybody. *)
Started(v) ==
  [daemon[v] EXCEPT !.up = TRUE, !.token = 0, !.conf = disk[v].conf, !.lost = FALSE,
                    !.leaving = daemon[v].leaving \/ daemon[v].up]

(* ensure_daemon: one that answers is kept, otherwise one is started.             *)
Ensure(p) ==
  /\ At(p, "ensure")
  /\ \/ Announces(0) /\ Goes(p, "token") /\ Inside
     \/ /\ ~Announces(0)
        /\ daemon' = [daemon EXCEPT ![0] = Started(0)]
        /\ disk' = [disk EXCEPT ![0].json = TRUE]
        /\ Goes(p, "token")
        /\ UNCHANGED <<outside, authzVars>>
     \/ ~Announces(0) /\ Fault /\ Fails(p, "transport") /\ Unhurt

(* The session token is a file beside the endpoint; bridged, it is read over the  *)
(* mount, if the directory is known.                                              *)
ReadToken(p) ==
  /\ At(p, "token")
  /\ LET d == proc[p].target
     IN Set(p, [proc[p] EXCEPT !.token = IF d.known THEN disk[d.side].file ELSE 0,
                               !.at = IF d.kind = "local" THEN "send" ELSE "probe"])
  /\ Inside

(* version_compatible: major and minor have to agree; a stale build closes the    *)
(* connection without an answer.                                                  *)
SameVersion == host.version = "same"

(* rpc_via_bridge starts the relay; relay_once looks for the endpoint, asks for   *)
(* the status, and then takes the request.                                        *)
Probe(p) ==
  /\ At(p, "probe")
  /\ CASE ~host.runs                -> Fails(p, "transport")
       [] ~disk[Side(p)].json       -> Fails(p, "bridge.no_daemon")
       [] ~daemon[Side(p)].up       -> Fails(p, "bridge.no_daemon")
       [] ~SameVersion              -> Fails(p, "bridge.version_incompatible")
       [] OTHER                     -> Goes(p, "send")
  /\ Inside

(* Where the connection broke.                                                    *)
Broken(p) == IF proc[p].target.kind = "bridge" THEN "bridge.io" ELSE "transport"

Unreachable(p) ==
  /\ At(p, "send") /\ ~daemon[Side(p)].up
  /\ Fails(p, Broken(p))
  /\ Inside

-----------------------------------------------------------------------------
(***************************************************************************)
(* What the daemon does with it, under its command lock.                   *)
(***************************************************************************)
Ready(p, methods) ==
  At(p, "send") /\ proc[p].req \in methods /\ daemon[Side(p)].up /\ IsIdle

Answers(p, err, val) == Set(p, [proc[p] EXCEPT !.at = "reply", !.reply = [err |-> err, val |-> val]])
Acts(p, val) == Set(p, [proc[p] EXCEPT !.at = "reply", !.reply = [err |-> "none", val |-> val],
                                       !.acted = proc[p].acted + 1])

IsOpen(v)    == daemon[v].token # 0
SessionOk(p) == IsOpen(Side(p)) /\ proc[p].token = daemon[Side(p)].token

ServeStatus(p) == Ready(p, {"status"}) /\ Answers(p, "none", 0) /\ Inside

(* vault_init: a forced one locks first, whatever becomes of it.  The identities  *)
(* of what it wipes are never given again.                                        *)
ServeInit(p) ==
  /\ Ready(p, {"init"})
  /\ LET v   == Side(p)
         c   == Line(p)
         err == CASE c.pw = "weak"                 -> "vault.weak_password"
                  [] disk[v].made /\ ~c.force      -> "vault.exists"
                  [] OTHER                         -> "none"
         old == IF c.force THEN [disk[v] EXCEPT !.file = 0] ELSE disk[v]
     IN /\ daemon' = IF c.force THEN [daemon EXCEPT ![v].token = 0] ELSE daemon
        /\ IF err # "none" THEN /\ disk' = [disk EXCEPT ![v] = old]
                            /\ Answers(p, err, 0) /\ UNCHANGED <<items, rules, gone>>
           ELSE /\ disk' = [disk EXCEPT ![v] = [old EXCEPT !.made = TRUE, !.pw = c.pw,
                                                           !.code = old.code + 1]]
                /\ items' = [i \in DOMAIN items |-> IF items[i].side = v
                                THEN [items[i] EXCEPT !.side = NoVault] ELSE items[i]]
                /\ rules' = [rules EXCEPT ![v] = {}]
                /\ gone' = [gone EXCEPT ![v] = {}]
                /\ Acts(p, 0)
  /\ UNCHANGED <<plan, issued, keychain, clip, faults, turns, ui, files, clock, cache, call>>

(* vault_unlock; how it is slowed down after failures is in DaemonSession.        *)
ServeUnlock(p) ==
  /\ Ready(p, {"unlock"})
  /\ LET v == Side(p)
     IN IF disk[v].made /\ disk[v].pw = Line(p).pw
          THEN /\ issued' = issued + 1
               /\ daemon' = [daemon EXCEPT ![v].token = issued']
               /\ disk' = [disk EXCEPT ![v].file = issued']
               /\ Acts(p, 0)
          ELSE Answers(p, "vault.invalid", 0) /\ UNCHANGED <<daemon, disk, issued>>
  /\ UNCHANGED <<plan, items, gone, keychain, clip, faults, turns, authzVars>>

(* lock_internal_locked.                                                          *)
Locks(v) == /\ daemon' = [daemon EXCEPT ![v].token = 0]
            /\ disk' = [disk EXCEPT ![v].file = 0]

ServeLock(p) ==
  /\ Ready(p, {"lock"})
  /\ Locks(Side(p)) /\ Acts(p, 0)
  /\ UNCHANGED <<outside, authzVars>>

(* vault_recover locks before it looks at the code.                               *)
ServeRecover(p) ==
  /\ Ready(p, {"recover"})
  /\ LET v   == Side(p)
         c   == Line(p)
         err == CASE c.pw = "weak"                              -> "vault.weak_password"
                  [] ~disk[v].made \/ c.code # disk[v].code     -> "vault.invalid"
                  [] OTHER                                      -> "none"
     IN /\ daemon' = [daemon EXCEPT ![v].token = 0]
        /\ IF err # "none" THEN Answers(p, err, 0) /\ disk' = [disk EXCEPT ![v].file = 0]
           ELSE /\ Acts(p, 0)
                /\ disk' = [disk EXCEPT ![v] = [disk[v] EXCEPT !.file = 0, !.pw = c.pw,
                                                               !.code = c.code + 1]]
  /\ UNCHANGED <<outside, authzVars>>

Named(v, name) ==
  {i \in DOMAIN items : items[i].side = v /\ ~items[i].deleted
                        /\ items[i].fields["name"] = name}

(* require_session.  A round of synchronisation is VaultSync's, the chain of the  *)
(* audit log and its anchor DaemonSession's.                                      *)
ServeSession(p) ==
  /\ Ready(p, {"list", "audit", "verify", "sync", "rulelist"})
  /\ LET m == proc[p].req
     IN IF ~SessionOk(p) THEN Answers(p, "session.invalid", 0)
        ELSE \/ m = "list" /\ Answers(p, "none", IF Line(p).verb = "get"
                                               THEN Named(Side(p), Line(p).name) ELSE {})
             \/ m \in {"audit", "rulelist"} /\ Answers(p, "none", 0)
             \/ m = "verify" /\ \E truncated \in BOOLEAN : Answers(p, "none", truncated)
             \/ m = "sync" /\ disk[Side(p)].conf.url = NoUrl /\ Answers(p, "sync.not_configured", 0)
             \/ m = "sync" /\ disk[Side(p)].conf.url # NoUrl
                /\ \E err \in {"none", "sync.storage"} : Answers(p, err, 0)
  /\ Inside

-----------------------------------------------------------------------------
(***************************************************************************)
(* Requests that have to pass a gate.                                      *)
(***************************************************************************)
ReadMethods  == {"get", "export", "inject"}
ItemMethods  == {"get", "export", "update", "delete"}
WriteMethods == {"create", "update", "delete"}
RuleMethods  == {"ruleadd", "ruleremove"}
Gated == ReadMethods \cup WriteMethods \cup RuleMethods

SystemOf(v) == IF v = 0 THEN host.os ELSE "windows"
Peer(p)     == Observed(SystemOf(Side(p)), plan.peer[p])
Table(p)    == Ancestry(SystemOf(Side(p)), plan.table[p])

Exists(p) == proc[p].id \in DOMAIN items /\ items[proc[p].id].side = Side(p)

(* What the gate is asked.                                                        *)
Asked(p) ==
  LET c == Line(p)
      m == proc[p].req
      stored == IF m \in ItemMethods THEN items[proc[p].id].fields["name"] ELSE "none"
  IN CASE m = "inject"       -> [kind |-> "inject", command |-> c.command, keys |-> c.keys]
       [] m \in RuleMethods  -> [kind |-> "rule", keys |-> {}]
       [] m = "get"          -> [kind |-> "read", item |-> stored, draft |-> stored, keys |-> {}]
       [] m = "create"       -> [kind |-> m, item |-> c.draft["name"], draft |-> c.draft["name"],
                                 keys |-> {}]
       [] m = "update"       -> [kind |-> m, item |-> stored, draft |-> proc[p].draft["name"],
                                 keys |-> {}]
       [] OTHER              -> [kind |-> m, item |-> stored, draft |-> stored, keys |-> {}]

(* The four prechecks.  A locked vault can be read through a prompt that unlocks. *)
Admitted(p) ==
  IF proc[p].req \in ReadMethods /\ ~IsOpen(Side(p))
    THEN ui[Side(p)] /\ (proc[p].req = "inject" \/ disk[Side(p)].made)
    ELSE SessionOk(p)

(* How a refusal is told: an injection is answered, the others are errors.        *)
Refuses(p) == IF proc[p].req = "inject" THEN Answers(p, "none", FALSE)
                                        ELSE Answers(p, "authz.denied", 0)

(* A Windows daemon knows no directory of another system but WSL's.               *)
Foreign(p) ==
  proc[p].dir.form = IF SystemOf(Side(p)) # "windows" THEN "drive" ELSE "posix"

ServeGated(p) ==
  /\ Ready(p, Gated)
  /\ LET v == Side(p)
         m == proc[p].req
     IN IF ~Admitted(p) THEN Answers(p, "session.invalid", 0) /\ UNCHANGED authzVars
        ELSE IF ~IsOpen(v)
          THEN /\ IF Starter(Peer(p), Table(p)) = 0 \/ Peer(p).cwd = NoDir
                    THEN Refuses(p)
                    ELSE Set(p, [proc[p] EXCEPT !.at = "prompt", !.asked = "unlock"])
               /\ UNCHANGED authzVars
        ELSE IF m \in ItemMethods /\ ~Exists(p)
          THEN Answers(p, "item.not_found", 0) /\ UNCHANGED authzVars
        ELSE IF m = "ruleremove" /\ Line(p).rule \notin rules[v] \cup gone[v]
          THEN Answers(p, "item.not_found", 0) /\ UNCHANGED authzVars
        ELSE IF m = "ruleadd" /\ Foreign(p)
          THEN Answers(p, "other", 0) /\ UNCHANGED authzVars
        ELSE Begin(v, Asked(p), Peer(p), Table(p)) /\ Goes(p, "judge")
  /\ UNCHANGED world

(* Mutated form: an edit is taken whatever it was based on.                       *)
AnyBase(i, base) == FALSE

(* UnlockedVault::put: an edit has to name the revision that is stored.           *)
Conflict(i, base) == base # items[i].rev

(* Bound: there are only so many identities.                                      *)
Free == Ids \ DOMAIN items

(* What is carried out once a rule or an answer lets it: disclosure, write_exec   *)
(* and rule_op_exec.  An edit brings a deleted item back.                         *)
Disclose(p) ==
  LET file == proc[p].req # "export" \/ items[proc[p].id].kind = "file"
  IN CASE proc[p].req = "inject" -> Answers(p, "none", TRUE)
       [] ~Exists(p)             -> Answers(p, "item.not_found", 0)
       [] ~file                  -> Answers(p, "other", 0)
       [] OTHER                  -> Answers(p, "none", items[proc[p].id])

Create(p) ==
  LET i == CHOOSE i \in Free : TRUE
  IN /\ Free # {}
     /\ items' = [j \in DOMAIN items \cup {i} |->
                    IF j = i THEN [side |-> Side(p), kind |-> Line(p).kind, rev |-> 1,
                                   deleted |-> FALSE, fields |-> Line(p).draft]
                             ELSE items[j]]
     /\ Acts(p, i)

Update(p) ==
  LET i == proc[p].id
  IN IF ~Exists(p) THEN Answers(p, "item.not_found", 0) /\ UNCHANGED items
     ELSE IF Conflict(i, proc[p].base) THEN Answers(p, "item.conflict", 0) /\ UNCHANGED items
     ELSE /\ items' = [items EXCEPT ![i].rev = items[i].rev + 1, ![i].deleted = FALSE,
                                    ![i].fields = proc[p].draft]
          /\ Acts(p, i)

(* vault.delete: what is deleted already stays as it is, and that is a success.    *)
Delete(p) ==
  LET i == proc[p].id
  IN IF ~Exists(p) THEN Answers(p, "item.not_found", 0) /\ UNCHANGED items
     ELSE /\ items' = IF items[i].deleted THEN items
                      ELSE [items EXCEPT ![i].rev = items[i].rev + 1, ![i].deleted = TRUE]
          /\ Acts(p, i)

AddRule(p) ==
  /\ rules' = [rules EXCEPT ![Side(p)] = rules[Side(p)] \cup {RuleSent(p)}]
  /\ Acts(p, 0) /\ UNCHANGED gone

RemoveRule(p) ==
  LET v == Side(p)
      r == Line(p).rule
  IN IF r \notin rules[v] \cup gone[v]
       THEN Answers(p, "item.not_found", 0) /\ UNCHANGED <<rules, gone>>
     ELSE /\ rules' = [rules EXCEPT ![v] = rules[v] \ {r}]
          /\ gone' = [gone EXCEPT ![v] = gone[v] \cup {r}]
          /\ Acts(p, 0)

Execute(p) ==
  LET m == proc[p].req
  IN \/ m \in ReadMethods /\ Disclose(p) /\ UNCHANGED <<items, rules, gone>>
     \/ m = "create" /\ Create(p) /\ UNCHANGED <<rules, gone>>
     \/ m = "update" /\ Update(p) /\ UNCHANGED <<rules, gone>>
     \/ m = "delete" /\ Delete(p) /\ UNCHANGED <<rules, gone>>
     \/ m = "ruleadd" /\ AddRule(p) /\ UNCHANGED items
     \/ m = "ruleremove" /\ RemoveRule(p) /\ UNCHANGED items

Aside == UNCHANGED <<daemon, disk, plan, issued, keychain, clip, faults, turns, ui, files, clock, cache>>

(* The end of *_begin, or of a rule_finalize that had a program to look at.       *)
Judged(p) ==
  /\ At(p, "judge") /\ call.at = "done"
  /\ call' = NoCall
  /\ LET r == call.result
     IN IF call.req.kind = "bind"
          THEN /\ IF r.allowed THEN Acts(p, 0) ELSE Answers(p, "other", 0)
               /\ UNCHANGED <<items, rules, gone>>
        ELSE IF r.reason = "ask"
          THEN /\ Set(p, [proc[p] EXCEPT !.at = "prompt", !.asked = "open"])
               /\ UNCHANGED <<items, rules, gone>>
        ELSE IF ~r.allowed THEN Refuses(p) /\ UNCHANGED <<items, rules, gone>>
        ELSE IF call.req.kind = "inject"
          THEN /\ Set(p, [proc[p] EXCEPT !.at = "reply", !.reply = [err |-> "none", val |-> TRUE],
                                         !.judged = call.exe])
               /\ UNCHANGED <<items, rules, gone>>
        ELSE Execute(p)
  /\ Aside

(* Somebody agrees: *_finalize looks again at what may have changed.  A prompt    *)
(* that unlocks does so for this request alone.                                   *)
Approve(p) ==
  /\ At(p, "prompt") /\ IsIdle
  /\ proc[p].asked = "unlock" => disk[Side(p)].made
  /\ IF proc[p].asked = "open" /\ ~IsOpen(Side(p))
       THEN Answers(p, "session.invalid", 0) /\ UNCHANGED <<items, rules, gone, call>>
     ELSE IF proc[p].req = "ruleadd" /\ Line(p).print # NoPath
       THEN /\ Begin(Side(p), [kind |-> "bind", exe |-> Line(p).print,
                               dir |-> Canonical(proc[p].dir), keys |-> Line(p).optKeys],
                     Peer(p), Table(p))
            /\ Goes(p, "judge") /\ UNCHANGED <<items, gone>>
     ELSE Execute(p) /\ UNCHANGED call
  /\ Aside

(* Mutated form: a prompt waits for its answer.                                    *)
NeverExpires == FALSE

(* An approval is awaited for thirty seconds.                                     *)
Expires == TRUE

Declined(p) ==
  /\ At(p, "prompt") /\ IsIdle /\ Expires
  /\ Refuses(p)
  /\ Inside

Serve(p) ==
  \/ ServeStatus(p) \/ ServeInit(p) \/ ServeUnlock(p) \/ ServeLock(p) \/ ServeRecover(p)
  \/ ServeSession(p) \/ ServeGated(p) \/ Judged(p)

-----------------------------------------------------------------------------
(***************************************************************************)
(* What the command does with the answer.                                  *)
(***************************************************************************)

(* cmd_item_edit: what does not belong to the kind is passed over; a new file     *)
(* brings its own type.                                                           *)
Edited(item, changes) ==
  [f \in DOMAIN item.fields |->
     IF f # "mime" THEN IF f \in DOMAIN changes THEN changes[f] ELSE item.fields[f]
     ELSE IF "file" \in DOMAIN changes /\ "mime" \notin DOMAIN changes THEN "guessed"
     ELSE item.fields["mime"]]

(* resolve_name_to_id.                                                            *)
Resolved(p, found) ==
  CASE found = {}              -> Fails(p, "item.not_found")
    [] Cardinality(found) > 1  -> Exits(p, 2)
    [] OTHER -> Set(p, [proc[p] EXCEPT !.at = "choose", !.req = "get",
                                       !.id = CHOOSE i \in found : TRUE])

(* The base of an edit is the one given, or else what was read.                   *)
EditWith(p, item) ==
  LET c == Line(p)
  IN IF item.kind = "file" /\ "file" \in DOMAIN c.changes /\ c.changes["file"] = "unreadable"
       THEN Exits(p, 1)
       ELSE Set(p, [proc[p] EXCEPT !.at = "choose", !.req = "update",
                      !.base = IF c.expected # 0 THEN c.expected ELSE item.rev,
                      !.draft = Edited(item, c.changes)])

(* cmd_audit: the list, and then the chain; a shortened one is exit 1.            *)
AuditAnswered(p, m, truncated) ==
  IF m = "audit" /\ Line(p).verify THEN Asks(p, "verify")
                                   ELSE Exits(p, IF m = "verify" /\ truncated THEN 1 ELSE 0)

CopyFrom(p, item) ==
  IF Line(p).field \notin Copied(item.kind) THEN Exits(p, 2) ELSE Goes(p, "copy")

Receive(p) ==
  /\ At(p, "reply")
  /\ LET c == Line(p)
         r == proc[p].reply
         m == proc[p].req
     IN IF r.err # "none" THEN Fails(p, r.err)
        ELSE CASE m = "list" /\ c.verb = "get"  -> Resolved(p, r.val)
               [] m = "get" /\ c.verb = "edit"  -> EditWith(p, r.val)
               [] m = "get" /\ c.verb = "copy"  -> CopyFrom(p, r.val)
               [] m \in {"audit", "verify"}     -> AuditAnswered(p, m, r.val)
               [] m = "inject"                  -> IF r.val THEN Goes(p, "spawn") ELSE Exits(p, 1)
               [] m = "export"                  -> Goes(p, "save")
               [] OTHER                         -> Exits(p, 0)
  /\ Inside

(* Mutated form: a relay that fails is started once more.                          *)
RetriesAfterLoss(p) ==
  IF proc[p].target.kind = "bridge" THEN Goes(p, "choose") ELSE Fails(p, Broken(p))

(* No request is sent twice: the command ends, whatever the daemon did.           *)
AfterLoss(p) == Fails(p, Broken(p))

Lose(p) == At(p, "reply") /\ Fault /\ AfterLoss(p) /\ Unhurt

(* item export.                                                                   *)
Save(p) ==
  /\ At(p, "save")
  /\ \/ Exits(p, 0) /\ Inside
     \/ Fault /\ Exits(p, 1) /\ Unhurt

(* clipboard.rs: put there, and thirty seconds later cleared, whatever is there.  *)
Copy(p) ==
  /\ At(p, "copy")
  /\ \/ /\ clip' = proc[p].id /\ Goes(p, "sleep")
        /\ UNCHANGED <<daemon, disk, plan, issued, items, gone, keychain, faults, turns, authzVars>>
     \/ Fault /\ Exits(p, 1) /\ Unhurt

Wake(p) ==
  /\ At(p, "sleep")
  /\ clip' = NoItem /\ Exits(p, 0)
  /\ UNCHANGED <<daemon, disk, plan, issued, items, gone, keychain, faults, turns, authzVars>>

(* inject_command: the system looks for the program once more, execvp along PATH  *)
(* alone, for a bare name alone, and for the name as it was typed; what cannot be *)
(* executed is passed over.  Windows has a search of its own, about which no      *)
(* property speaks.                                                               *)
Spawned(c) ==
  LET name == Typed(c.command)
      dirs == CASE c.command.dir = "."    -> <<c.place>>
                [] c.command.dir = "bare" ->
                     [i \in 1..Len(c.path) |-> IF c.path[i] = Here THEN c.place ELSE c.path[i]]
                [] OTHER                  -> <<c.command.dir>>
      with == {i \in 1..Len(dirs) : Startable(<<dirs[i], name>>)}
  IN IF with = {} THEN NoPath ELSE <<dirs[CHOOSE i \in with : \A j \in with : i <= j], name>>

Spawn(p) ==
  /\ At(p, "spawn")
  /\ LET exe == Spawned(Line(p))
     IN IF exe = NoPath THEN Exits(p, 1)
        ELSE Set(p, [proc[p] EXCEPT !.at = "done", !.ran = Real(exe)])
  /\ Inside

Client(p) ==
  \/ Start(p) \/ Look(p) \/ Credentials(p) \/ ReadConf(p) \/ WriteConf(p) \/ Directory(p)
  \/ Choose(p) \/ Ensure(p) \/ ReadToken(p) \/ Probe(p) \/ Unreachable(p) \/ Receive(p)
  \/ Save(p) \/ Copy(p) \/ Wake(p) \/ Spawn(p)

-----------------------------------------------------------------------------
(***************************************************************************)
(* What happens meanwhile.                                                 *)
(***************************************************************************)
Turn == turns < plan.turns /\ turns' = turns + 1

(* A daemon that goes breaks the connections it was serving.                      *)
Drops(v, cleansUp) ==
  /\ proc' = [q \in Procs |->
       IF proc[q].at \in {"judge", "prompt"} /\ Side(q) = v
         THEN [proc[q] EXCEPT !.at = "done", !.exit = 1, !.err = Broken(q)] ELSE proc[q]]
  /\ call' = IF call.vault = v THEN NoCall ELSE call
  /\ daemon' = [daemon EXCEPT ![v].up = FALSE, ![v].token = 0, ![v].lost = FALSE,
                              ![v].leaving = daemon[v].leaving \/ cleansUp]

(* The desktop application starts the daemon of its system.                       *)
DesktopStart(v) ==
  /\ ~Announces(v) /\ Turn
  /\ daemon' = [daemon EXCEPT ![v] = Started(v)]
  /\ disk' = [disk EXCEPT ![v].json = TRUE]
  /\ UNCHANGED <<plan, issued, items, gone, keychain, clip, faults, authzVars, proc>>

(* Serving ends.                                                                  *)
OrderlyStop(v) ==
  /\ daemon[v].up /\ Turn
  /\ Drops(v, TRUE)
  /\ UNCHANGED <<disk, plan, issued, items, gone, keychain, clip, faults, rules, ui, files, clock, cache>>

(* shutdown: the session file and the endpoint file, whosever they are by then.   *)
Unannounced(v) == [disk EXCEPT ![v].json = FALSE, ![v].file = 0]

CleansUp(v) ==
  /\ daemon[v].leaving
  /\ daemon' = [daemon EXCEPT ![v].leaving = FALSE, ![v].lost = daemon[v].up]
  /\ disk' = Unannounced(v)
  /\ UNCHANGED <<outside, authzVars, proc>>

(* The desktop application does the same first, and stops serving later.          *)
DesktopQuits(v) ==
  /\ daemon[v].up /\ Turn
  /\ call.vault = v => IsIdle
  /\ daemon' = [daemon EXCEPT ![v].token = 0, ![v].lost = TRUE]
  /\ disk' = Unannounced(v)
  /\ UNCHANGED <<plan, issued, items, gone, keychain, clip, faults, authzVars, proc>>

Crash(v) ==
  /\ daemon[v].up /\ Fault
  /\ Drops(v, FALSE)
  /\ UNCHANGED <<disk, plan, issued, items, gone, keychain, clip, turns, rules, ui, files, clock, cache>>

(* Another request, or the wait for one, locks the vault.                         *)
IdleLock(v) ==
  /\ IsOpen(v) /\ Turn
  /\ call.vault = v => IsIdle
  /\ Locks(v)
  /\ UNCHANGED <<plan, issued, items, gone, keychain, clip, faults, authzVars, proc>>

(* config_set of lk-app writes back the settings its daemon began with.           *)
DesktopSave(v) ==
  /\ daemon[v].up /\ Turn
  /\ LET conf == [daemon[v].conf EXCEPT !.lock = 15 - daemon[v].conf.lock]
     IN /\ disk' = [disk EXCEPT ![v].conf = conf]
        /\ daemon' = [daemon EXCEPT ![v].conf = conf]
  /\ UNCHANGED <<plan, issued, items, gone, keychain, clip, faults, authzVars, proc>>

Kill(p) ==
  /\ proc[p].at \notin {"idle", "judge", "prompt", "done"} /\ Fault
  /\ Fails(p, "killed") /\ Unhurt

Replaced == plan.touch /\ Disturb /\ UNCHANGED <<world, proc>>

AllDone == (\A p \in Procs : At(p, "done")) /\ UNCHANGED vars

-----------------------------------------------------------------------------
Init ==
  /\ plan \in Plans
  /\ daemon = [v \in Vaults |->
       [up |-> plan.start[v].up, token |-> IF plan.start[v].open THEN 1 ELSE 0, conf |-> plan.conf,
        leaving |-> FALSE, lost |-> FALSE]]
  /\ disk = [v \in Vaults |->
       [json |-> plan.start[v].json, file |-> IF plan.start[v].open THEN 1 ELSE 0,
        made |-> plan.start[v].made, pw |-> "old", code |-> 0, conf |-> plan.conf]]
  /\ issued = 1
  /\ items = plan.items
  /\ gone = [v \in Vaults |-> {}]
  /\ keychain = {}
  /\ clip = NoItem
  /\ proc = [p \in Procs |-> NoProc]
  /\ faults = 0 /\ turns = 0
  /\ rules = [v \in Vaults |-> plan.rules]
  /\ ui = [v \in Vaults |-> plan.ui]
  /\ files = plan.files
  /\ clock = 1
  /\ cache = EmptyCache
  /\ call = NoCall

Judging == Evaluate /\ UNCHANGED <<world, proc>>
Step(p) == Client(p) \/ Serve(p) \/ Declined(p)

Next ==
  \/ \E p \in Procs : Step(p) \/ Approve(p) \/ Lose(p) \/ Kill(p)
  \/ \E v \in Vaults : DesktopStart(v) \/ OrderlyStop(v) \/ CleansUp(v) \/ DesktopQuits(v)
                       \/ Crash(v) \/ IdleLock(v) \/ DesktopSave(v)
  \/ Judging \/ Replaced \/ AllDone

Spec == Init /\ [][Next]_vars

(* A command, the daemon that serves it and its clock go on; nothing has to fail  *)
(* and nobody has to answer.                                                      *)
FairSpec == Spec /\ WF_vars(Judging) /\ \A p \in Procs : WF_vars(Step(p))

-----------------------------------------------------------------------------
Ended(p) == At(p, "done")

(* A command goes to the daemon of its own system for one of these reasons.       *)
Meant(none) ==
  \/ host.os # "linux" \/ host.choice = "off"
  \/ host.choice = "auto" /\ ~host.wsl
  \/ host.home = 0 /\ none

Turns(p) == At(p, "choose") /\ proc'[p].at = "ensure"

(* In WSL, a Windows daemon that runs, and whose endpoint file no exit has taken  *)
(* since it wrote it, is never passed over for a local one: a bridge to it that   *)
(* cannot be used is an error, at every request of a command, whatever was        *)
(* decided for the one before (bridge_backend.rs 145-227).                        *)
RunningNeverPassedOver ==
  [][\A p \in Procs : Turns(p) => Meant(\A v \in Users : daemon[v].up => daemon[v].lost)]_vars

(* The same without the exception, which the code does not give: a daemon on its  *)
(* way out has removed the file while it serves, and one that cleans up late, as  *)
(* the double cleanup of the desktop application may (lk-app/src/state.rs 133),   *)
(* takes the file of its successor; a command then starts a local daemon beside   *)
(* the Windows one that runs.                                                     *)
RunningAlwaysFound ==
  [][\A p \in Procs : Turns(p) => Meant(\A v \in Users : ~daemon[v].up)]_vars

(* The same of an installation, running or not: "a bridge that cannot be used is  *)
(* an error and never a silent way back" (bridge_backend.rs 22-26,                *)
(* docs/cross-subsystem.md 223).                                                  *)
NeverFallsBack ==
  [][\A p \in Procs : Turns(p) => Meant(\A v \in Users : ~disk[v].made)]_vars

Mutating == {"init", "unlock", "lock", "recover", "add", "edit", "delete", "ruleadd", "ruleremove"}
Unsure   == {"transport", "bridge.io", "killed"}

(* Exit 0 of a command that changes something says that it was carried out, and   *)
(* exactly once; any other end but a broken connection says that it was not:      *)
(* rpc_via_bridge and rpc_local never repeat a request they are unsure of.        *)
AckedOnce ==
  \A p \in Procs : Ended(p) /\ Line(p).verb \in Mutating =>
    /\ proc[p].exit = 0 => proc[p].acted = 1
    /\ proc[p].exit # 0 /\ proc[p].err \notin Unsure => proc[p].acted = 0
    /\ proc[p].acted <= 1

(* A directory as the daemon on that side sees it in a caller that works there.   *)
SeenFrom(v, d) ==
  IF v = 0 THEN Native(d)
  ELSE IF Mounted(d) THEN Drive(d)
  ELSE [form |-> "wsl.localhost", names |-> <<Distro(host.own)>> \o Posix(d).names]

Covers(p) == Within(Canonical(proc[p].dir), SeenFrom(Side(p), Line(p).dir))

Added(p) == /\ Ended(p) /\ Line(p).verb = "ruleadd" /\ proc[p].exit = 0
            /\ Line(p).dir.kind = "existing" /\ host.own = host.distro

(* The rule that `lk rule add` reports as stored for a directory that exists      *)
(* covers whoever works in that directory, on whichever side of the bridge the    *)
(* rule went (main.rs 2182), even where the second decision was another than the  *)
(* one the directory was spelled for.  The exception is a bridge that is gone     *)
(* between the two: see RuleNeverAstray.                                          *)
RuleCoversItsDir ==
  \A p \in Procs : Added(p) /\ (proc[p].shown = 0 \/ Side(p) # 0) => Covers(p)

(* The same without the exception: the directory is translated for a Windows      *)
(* daemon, which then exits in good order, and the rule goes to the local one,    *)
(* where it never matches, against the "no silent mismatch" that the translation  *)
(* is confirmed for (main.rs 2328-2330).                                          *)
RuleNeverAstray == \A p \in Procs : Added(p) => Covers(p)

(* Two edits that were both carried out on an item started from different         *)
(* versions of it: one based on what the other replaced is refused                *)
(* (expected_revision of item.put, kept over a prompt and a new look at the       *)
(* bridge).                                                                       *)
EditsChain ==
  \A p, q \in Procs :
    p # q /\ proc[p].req = "update" /\ proc[q].req = "update"
      /\ proc[p].id = proc[q].id /\ proc[p].acted = 1 /\ proc[q].acted = 1 =>
        proc[p].base # proc[q].base

(* On its own system, the program that inject starts with the secrets is the one  *)
(* the daemon looked at, as long as no program is replaced and the daemon reads   *)
(* the command as the system does: exe_candidates (fingerprint.rs) finds what     *)
(* execvp finds.                                                                  *)
SpawnsTheJudged ==
  \A p \in Procs :
    host.os # "windows" /\ Side(p) = 0 /\ clock = 1 /\ NoPath \notin {proc[p].ran, proc[p].judged}
      /\ ReadAlike(Line(p).command, proc[p].judged) =>
      proc[p].ran = proc[p].judged

(* The same for every command: "the order of the search has to be that of the     *)
(* child's exec" (exe_resolve.rs 49-54, docs/identity-binding.md 133-135).        *)
SpawnsOnlyTheJudged ==
  \A p \in Procs :
    host.os # "windows" /\ Side(p) = 0 /\ clock = 1 /\ NoPath \notin {proc[p].ran, proc[p].judged} =>
      proc[p].ran = proc[p].judged

(* Every command comes to an end, whatever breaks and whoever does not answer.    *)
EveryCommandEnds == \A p \in Procs : <>Ended(p)
=============================================================================
