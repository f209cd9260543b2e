----------------------------- MODULE Authorization -----------------------------
(***************************************************************************)
(* What the daemon decides about one request on its own evidence: who      *)
(* started the caller, where the caller works, which program the command   *)
(* line would run and whether a rule covers it (lk-core/src/{authz,        *)
(* path_ns, starter, fingerprint}.rs, lk-daemon/src/{identity, peer_env,   *)
(* exe_resolve, binding}.rs, daemon/authz.rs).  The vault is unlocked; what *)
(* a locked one adds, and what becomes of a prompt, is in ApprovalGate.    *)
(* A call holds the command lock, but programs are files that others       *)
(* replace while it looks at them.                                         *)
(*                                                                         *)
(* Texts are sequences of words; a path is a directory and a file name.    *)
(***************************************************************************)
EXTENDS Naturals, Sequences, FiniteSets

CONSTANTS
  Vaults,       \* daemons, each with its vault
  Secrets,      \* names of the secret items
  Programs,     \* paths a program may be at
  Contents,     \* what a program file may hold; a digest is the content itself
  SizeOf,       \* their sizes
  Exts,         \* PATHEXT in order
  Threshold,    \* larger programs are not digested in advance
  MaxWalk,      \* depth of the walk up the processes (32)
  MaxTouch,     \* bound: changes to program files
  Honest,       \* does a change of a program always show in its size or date?
  NoFile, NoPath, NoDir, NoMeta, NoPrint, NoBody, Unreadable

ASSUME AuthorizationAssumption ==
  /\ {MaxWalk, MaxTouch, Threshold} \subseteq Nat
  /\ SizeOf \in [Contents -> Nat]
  /\ Honest \in BOOLEAN

Here == "here"    \* an empty element of PATH

VARIABLES
  rules,      \* the rules in each vault
  ui,         \* is a desktop listening to this daemon's prompts?
  files,      \* the program files
  clock,      \* the next modification date
  cache,      \* FingerprintCache
  call        \* the request a daemon judges under its command lock

authzVars == <<rules, ui, files, clock, cache, call>>

Meta     == [size : Nat, stamp : Nat]
MetaOf(f) == [size |-> SizeOf[f.data], stamp |-> f.stamp]
Real(p)  == IF p \in DOMAIN files /\ files[p] # NoFile /\ files[p].link # NoPath
              THEN files[p].link ELSE p
IsFile(p) == p \in DOMAIN files /\ files[p] # NoFile /\ Real(p) \in DOMAIN files
             /\ files[Real(p)] # NoFile

(* What a system starts has to be executable, where its files say whether they are. *)
Startable(p) == IsFile(p) /\ files[Real(p)].exec

-----------------------------------------------------------------------------
(***************************************************************************)
(* Directories.  A spelling has a form and the names below its root; the   *)
(* first of them is the distribution, where the form is one of WSL's.  A   *)
(* name is a word and how its case is written.                             *)
(***************************************************************************)
WslUnc == {"wsl.localhost", "wsl$", "verbatim wsl.localhost", "verbatim wsl$"}

(* canonical_project_dir: one form for each way to write a directory.             *)
Canonical(d) ==
  CASE d.form \in WslUnc /\ d.names # <<>> -> [d EXCEPT !.form = "wsl://"]
    [] d.form = "verbatim"                 -> [d EXCEPT !.form = "drive"]
    [] d.form = "verbatim unc"             -> [d EXCEPT !.form = "unc"]
    [] OTHER                               -> d

Below(s, t)    == Len(s) <= Len(t) /\ \A i \in 1..Len(s) : s[i] = t[i]
WslBelow(s, t) == Len(s) <= Len(t) /\ \A i \in 1..Len(s) : s[i].word = t[i].word

(* project_dir_matches: an ancestor by whole components; WSL's without case.      *)
ProjectDirMatches(dir, cwd) ==
  LET d == Canonical(dir)
      c == Canonical(cwd)
  IN /\ d.form = c.form
     /\ IF d.form = "wsl://" THEN WslBelow(d.names, c.names) ELSE Below(d.names, c.names)

-----------------------------------------------------------------------------
(***************************************************************************)
(* Commands.  dir is where the program is named to be: an absolute         *)
(* directory, "." in a relative name with a slash, "bare" if there is only *)
(* the name; name is a stem and perhaps an extension.  The words of a      *)
(* command line are joined by spaces for the daemon, whose command0 takes  *)
(* the first again: rest is what the first one has after a space of its    *)
(* own.                                                                    *)
(***************************************************************************)
Text(c) == (IF c.dir = "bare" THEN <<>> ELSE <<c.dir, "/">>) \o c.name \o c.rest \o c.args

(* The name as it was typed.                                                      *)
Typed(c) == IF c.rest = <<>> THEN c.name ELSE c.name \o <<" ">> \o c.rest

(* glob_match with its two pointers: star and back are where the last * was met.  *)
GlobMatch(p, t) ==
  LET match[pi \in 1..(Len(p) + 1), ti \in 1..(Len(t) + 1),
            star \in 0..Len(p), back \in 1..(Len(t) + 1)] ==
        IF ti > Len(t) THEN \A i \in pi..Len(p) : p[i] = "*"
        ELSE IF pi <= Len(p) /\ p[pi] \in {"?", t[ti]} THEN match[pi + 1, ti + 1, star, back]
        ELSE IF pi <= Len(p) /\ p[pi] = "*" THEN match[pi + 1, ti, pi, ti]
        ELSE IF star # 0 THEN match[star + 1, back + 1, star, back + 1]
        ELSE FALSE
  IN match[1, 1, 0, 1]

ExecExtensions == {".com", ".exe", ".bat", ".cmd"}

StripExec(name) ==
  IF Len(name) > 1 /\ name[Len(name)] \in ExecExtensions
    THEN SubSeq(name, 1, Len(name) - 1) ELSE name

(* A rule bound to a program knows the command by the name of the program alone.  *)
FormMatches(r, c) ==
  IF r.print = NoPrint THEN GlobMatch(r.command, Text(c))
                       ELSE GlobMatch(StripExec(r.command), StripExec(c.name))

InjectMatches(r, cwd, c) ==
  r.capability = "inject" /\ ProjectDirMatches(r.dir, cwd) /\ FormMatches(r, c)

ReadMatches(r, cwd, item) ==
  r.capability = "read" /\ ProjectDirMatches(r.dir, cwd) /\ item \in r.keys

(* An update is covered under the stored name and the new one; no rule covers a   *)
(* deletion.                                                                      *)
WriteMatches(r, cwd, action, stored, draft) ==
  /\ r.capability = "write" /\ ProjectDirMatches(r.dir, cwd)
  /\ action \in r.actions
  /\ draft \in r.keys
  /\ action = "update" => stored \in r.keys

-----------------------------------------------------------------------------
(***************************************************************************)
(* The caller: PeerIdentity.                                               *)
(***************************************************************************)

(* walk_chain: up to the session leader, or as far as the table can be read.      *)
WalkChain(pid, table) ==
  LET known == DOMAIN table \cup {pid, 0} \cup {table[i].parent : i \in DOMAIN table}
      climb[n \in 0..MaxWalk, p \in known, seen \in SUBSET known, top \in known] ==
        IF p \in seen \/ p \notin DOMAIN table \/ ~table[p].readable THEN top
        ELSE IF table[p].leader \/ table[p].parent \in {p, 0} \/ n = 0 THEN p
        ELSE climb[n - 1, table[p].parent, seen \cup {p}, p]
  IN climb[MaxWalk, pid, {}, 0]

(* derive_starter: 0 is `unknown`.                                                *)
Starter(peer, table) ==
  IF peer.pid = 0 \/ ~peer.session THEN 0 ELSE WalkChain(peer.pid, table)

(* What a system shows of a caller: its working directory not on macOS, its       *)
(* session on Windows alone, the leader of a session on Linux alone.              *)
Observed(os, peer) ==
  [peer EXCEPT !.os = os, !.cwd = IF os = "macos" THEN NoDir ELSE peer.cwd,
               !.session = os = "windows" => peer.session]

Ancestry(os, table) ==
  [i \in DOMAIN table |-> [table[i] EXCEPT !.leader = os = "linux" /\ table[i].leader]]

(* Mutated form: empty elements of PATH are dropped.                               *)
NonEmptyDirs(path, cwd) == SelectSeq(path, LAMBDA d : d # Here)

(* parse_path_dirs: an empty element is the working directory, in its place.      *)
PathDirs(path, cwd) == [i \in 1..Len(path) |-> IF path[i] = Here THEN cwd ELSE path[i]]

(* Programs have extensions on Windows.                                           *)
Variants(os, name) ==
  <<name>> \o [e \in 1..Len(IF os = "windows" THEN Exts ELSE <<>>) |-> Append(name, Exts[e])]

(* exe_candidates: PATH in order and then the working directory; in each the name *)
(* as it is and then with every extension.  Only an absolute name is taken as it  *)
(* is: one with a slash is looked for along PATH like one without.                *)
ExeCandidates(os, c, dirs, cwd) ==
  IF c.dir \notin {"bare", "."} THEN << <<c.dir, c.name>> >>
  ELSE LET all   == Append(dirs, cwd)
           names == Variants(os, c.name)
       IN [k \in 1..(Len(all) * Len(names)) |->
             <<all[((k - 1) \div Len(names)) + 1], names[((k - 1) % Len(names)) + 1]>>]

-----------------------------------------------------------------------------
(***************************************************************************)
(* Layers 1 and 2: evaluate_layers.                                        *)
(***************************************************************************)
Denied(reason) == [allowed |-> FALSE, reason |-> reason, keys |-> {}]
NeedsApproval  == [allowed |-> FALSE, reason |-> "ask", keys |-> {}]
Allowed(keys)  == [allowed |-> TRUE, reason |-> "rule", keys |-> keys]

Rulebook  == rules[call.vault]
RulesRead == Unreadable \notin Rulebook    \* UnlockedVault::list_rules decrypts all of them

Matching(req, cwd) == {r \in Rulebook : InjectMatches(r, cwd, req.command)}

Granted(req, cwd) == req.keys \cap UNION {r.keys : r \in Matching(req, cwd)}

EvaluateLayers(req, starter, cwd) ==
  IF starter = 0 THEN Denied("unknown_starter")
  ELSE IF cwd = NoDir THEN Denied("no_cwd")
  ELSE IF ~RulesRead THEN Denied("rule_corrupt")
  ELSE IF ~(req.keys \subseteq Secrets) THEN Denied("missing_keys")
  ELSE IF Granted(req, cwd) = {} THEN NeedsApproval
  ELSE Allowed(Granted(req, cwd))

(* disclosure_begin and write_begin after the item was found.                     *)
Covered(req, cwd) ==
  CASE req.kind = "read"                -> \E r \in Rulebook : ReadMatches(r, cwd, req.item)
    [] req.kind \in {"export", "delete"} -> FALSE
    [] OTHER -> \E r \in Rulebook : WriteMatches(r, cwd, req.kind, req.item, req.draft)

EvaluateItem(req, starter, cwd) ==
  IF starter = 0 THEN Denied("unknown_starter")
  ELSE IF cwd = NoDir THEN Denied("no_cwd")
  ELSE IF RulesRead /\ Covered(req, cwd) THEN Allowed({req.item})
  ELSE NeedsApproval

(* A change of the rules is always put to somebody: rule_begin.                   *)
EvaluateRule(starter) == IF starter = 0 THEN Denied("unknown_starter") ELSE NeedsApproval

(* validate_evaluate_fields, as far as the lists go.                              *)
Valid(req) == req.kind \in {"inject", "bind"} => req.keys # {}

Judge(req, starter, cwd) ==
  CASE req.kind = "inject" -> EvaluateLayers(req, starter, cwd)
    [] req.kind = "rule"   -> EvaluateRule(starter)
    [] OTHER               -> EvaluateItem(req, starter, cwd)

(* The fingerprints of the bound rules that match the form of the command.        *)
BoundPrints(req, cwd) ==
  IF ~RulesRead \/ cwd = NoDir THEN {}
  ELSE {r.print : r \in {x \in Matching(req, cwd) : x.print # NoPrint}}

-----------------------------------------------------------------------------
(***************************************************************************)
(* The call, step by step.                                                 *)
(***************************************************************************)
NoRequest == [kind |-> "none"]
NoCall == [at |-> "idle", vault |-> 0, req |-> NoRequest, peer |-> NoBody, starter |-> 0, cwd |-> NoDir,
           table |-> <<>>, left |-> <<>>, exe |-> NoPath, result |-> Denied("none"),
           meta |-> NoMeta, shown |-> NoFile, seen |-> {}, began |-> 0]

IsIdle == call.at = "idle"

(* Layer 3 needs somebody to ask.                                                 *)
Prompt == IF ui[call.vault] THEN NeedsApproval ELSE Denied("no_ui")

(* The end of a call: NeedsApproval becomes a prompt.                             *)
Settled(result) == IF result.reason = "ask" THEN Prompt ELSE result

(* parse, derive the caller, and list where its program may be.                   *)
Begin(vault, req, peer, table) ==
  /\ IsIdle
  /\ LET cwd == IF peer.cwd = NoDir THEN NoDir ELSE Canonical(peer.cwd)
     IN call' = [NoCall EXCEPT
          !.at = IF ~Valid(req) THEN "done"
                 ELSE IF req.kind = "bind" THEN "bindstat"
                 ELSE IF req.kind = "inject" /\ peer.path # Unreadable THEN "resolve"
                 ELSE "judge",
          !.vault = vault, !.req = req, !.peer = peer, !.cwd = cwd, !.table = table, !.began = clock,
          !.starter = Starter(peer, table),
          !.result = IF Valid(req) THEN NoCall.result ELSE Denied("invalid_params"),
          !.exe = IF req.kind = "bind" THEN req.exe ELSE NoPath,
          !.left = IF req.kind = "inject" /\ peer.path # Unreadable
                     THEN ExeCandidates(peer.os, req.command, PathDirs(peer.path, peer.place), peer.place)
                     ELSE <<>>]
  /\ UNCHANGED <<rules, ui, files, clock, cache>>

(* resolve_exe: the first candidate that is a file; canonicalize.                 *)
Resolve ==
  /\ call.at = "resolve"
  /\ call' = IF call.left = <<>> THEN [call EXCEPT !.at = "judge"]
             ELSE IF IsFile(Head(call.left))
               THEN [call EXCEPT !.at = "judge", !.exe = Real(Head(call.left))]
             ELSE [call EXCEPT !.left = Tail(call.left)]
  /\ UNCHANGED <<rules, ui, files, clock, cache>>

Finished(result) == [call EXCEPT !.at = "done", !.result = Settled(result)]

(* What an injection that layer 2 lets through becomes once its program is not    *)
(* the bound one; a denial stays what it is.                                      *)
Unmatched == IF call.result.allowed THEN NeedsApproval ELSE call.result

JudgeStep ==
  /\ call.at = "judge"
  /\ LET result == Judge(call.req, call.starter, call.cwd)
         prints == IF call.req.kind = "inject" THEN BoundPrints(call.req, call.cwd) ELSE {}
     IN call' = IF prints = {} THEN Finished(result)
                ELSE IF call.exe = NoPath
                  THEN Finished(IF result.allowed THEN NeedsApproval ELSE result)
                ELSE [call EXCEPT !.result = result,
                        !.at = IF \E p \in prints : p.exe = call.exe THEN "stat" ELSE "info"]
  /\ UNCHANGED <<rules, ui, files, clock, cache>>

Now(p) == IF files[p] = NoFile THEN {} ELSE {files[p].data}

(* FingerprintCache::stat and the comparison of sizes.                            *)
Stat ==
  /\ call.at = "stat"
  /\ LET f == files[call.exe]
     IN call' = IF f = NoFile THEN Finished(Unmatched)
                ELSE [call EXCEPT !.meta = MetaOf(f), !.seen = Now(call.exe),
                        !.at = IF \E p \in BoundPrints(call.req, call.cwd) :
                                    p.size = MetaOf(f).size
                                 THEN "hash" ELSE "info"]
  /\ UNCHANGED <<rules, ui, files, clock, cache>>

(* Mutated form: any digest of that path will do.                                  *)
CachedAnyhow(p, meta) == cache[p].meta # NoMeta

(* FingerprintCache::sha256: the digest in store, if the file looks as it did.    *)
CachedFor(p, meta) == cache[p].meta = meta

(* Otherwise the file is read, and filed under the look taken before.             *)
Digest(p, meta) == IF CachedFor(p, meta) THEN cache[p].data
                   ELSE IF files[p] = NoFile THEN NoFile ELSE files[p].data

Filed(p, meta) == IF Digest(p, meta) = NoFile THEN cache
                  ELSE [cache EXCEPT ![p] = [meta |-> meta, data |-> Digest(p, meta)]]

Hash ==
  /\ call.at = "hash"
  /\ LET d == Digest(call.exe, call.meta)
     IN call' = IF d = NoFile THEN Finished(Unmatched)
                ELSE IF \E p \in BoundPrints(call.req, call.cwd) : p.data = d
                  THEN [Finished(call.result) EXCEPT !.shown = d]
                ELSE [call EXCEPT !.at = "info"]
  /\ cache' = Filed(call.exe, call.meta)
  /\ UNCHANGED <<rules, ui, files, clock>>

(* mismatch_info: look and digest once more, for the prompt to show.              *)
Info ==
  /\ call.at = "info"
  /\ call' = IF files[call.exe] = NoFile THEN Finished(Unmatched)
             ELSE [call EXCEPT !.meta = MetaOf(files[call.exe]), !.at = "infohash"]
  /\ UNCHANGED <<rules, ui, files, clock, cache>>

InfoHash ==
  /\ call.at = "infohash"
  /\ call' = [Finished(Unmatched) EXCEPT !.shown = Digest(call.exe, call.meta)]
  /\ cache' = Filed(call.exe, call.meta)
  /\ UNCHANGED <<rules, ui, files, clock>>

(* recompute_fingerprint, when an approved rule is stored: large programs are     *)
(* digested without the cache.                                                    *)
BindStat ==
  /\ call.at = "bindstat"
  /\ LET p == Real(call.exe)
     IN call' = IF ~IsFile(p) THEN [call EXCEPT !.at = "done", !.result = Denied("no_file")]
                ELSE [call EXCEPT !.at = "bindhash", !.exe = p, !.meta = MetaOf(files[p]),
                                  !.seen = Now(p)]
  /\ UNCHANGED <<rules, ui, files, clock, cache>>

BindHash ==
  /\ call.at = "bindhash"
  /\ LET small == call.meta.size <= Threshold
         d == IF small THEN Digest(call.exe, call.meta)
              ELSE IF files[call.exe] = NoFile THEN NoFile ELSE files[call.exe].data
     IN /\ IF d = NoFile
             THEN /\ call' = [call EXCEPT !.at = "done", !.result = Denied("no_file")]
                  /\ UNCHANGED <<rules, cache>>
             ELSE /\ call' = [call EXCEPT !.at = "done", !.result = Allowed(call.req.keys),
                                          !.shown = d]
                  /\ rules' = [rules EXCEPT ![call.vault] = Rulebook \cup
                       {[capability |-> "inject", dir |-> call.req.dir,
                         command |-> call.exe[2], keys |-> call.req.keys, actions |-> {},
                         print |-> [exe |-> call.exe, size |-> call.meta.size, data |-> d]]}]
                  /\ cache' = IF small THEN Filed(call.exe, call.meta) ELSE cache
  /\ UNCHANGED <<ui, files, clock>>

Evaluate == Resolve \/ JudgeStep \/ Stat \/ Hash \/ Info \/ InfoHash \/ BindStat \/ BindHash

(* Somebody installs, replaces or removes a program.  A replacement has a new     *)
(* date, except where dates are not to be trusted.                                *)
Touch(p, new) ==
  /\ clock <= MaxTouch
  /\ files' = [files EXCEPT ![p] = new]
  /\ clock' = clock + 1
  /\ call' = [call EXCEPT
       !.seen = IF p = call.exe /\ new # NoFile THEN call.seen \cup {new.data} ELSE call.seen]
  /\ UNCHANGED <<rules, ui, cache>>

Stamps(p) == {clock} \cup (IF Honest \/ files[p] = NoFile THEN {} ELSE {files[p].stamp})

Disturb ==
  \E p \in Programs :
    \/ \E d \in Contents, s \in Stamps(p) :
         Touch(p, [data |-> d, stamp |-> s, link |-> NoPath, exec |-> TRUE])
    \/ files[p] # NoFile /\ Touch(p, NoFile)

EmptyCache == [p \in Programs |-> [meta |-> NoMeta, data |-> NoFile]]

-----------------------------------------------------------------------------
(***************************************************************************)
(* What the answers have to be.  The definitions below say what matching,  *)
(* ancestry and searching mean, and nothing of how the code does them.     *)
(***************************************************************************)
Root(d) == CASE d.form \in WslUnc \cup {"wsl://"} -> "wsl"
             [] d.form \in {"drive", "verbatim"}  -> "drive"
             [] d.form \in {"unc", "verbatim unc"} -> "share"
             [] OTHER                             -> d.form

Words(names) == [i \in 1..Len(names) |-> names[i].word]

Within(dir, cwd) ==
  /\ Root(dir) = Root(cwd)
  /\ \E n \in 0..Len(cwd.names) :
       LET above == SubSeq(cwd.names, 1, n)
       IN IF Root(dir) = "wsl" THEN Words(dir.names) = Words(above) ELSE dir.names = above

(* * stands for any words, ? for one.                                              *)
Fits(p, t) ==
  LET fits[i \in 1..(Len(p) + 1), j \in 1..(Len(t) + 1)] ==
        IF i > Len(p) THEN j > Len(t)
        ELSE IF p[i] = "*" THEN \E k \in j..(Len(t) + 1) : fits[i + 1, k]
        ELSE j <= Len(t) /\ p[i] \in {"?", t[j]} /\ fits[i + 1, j + 1]
  IN fits[1, 1]

(* The highest ancestor that can be reached, the session leader at most.          *)
Ancestor(pid, table) ==
  LET up[k \in 0..MaxWalk] ==
        IF k = 0 THEN pid ELSE IF up[k - 1] \in DOMAIN table THEN table[up[k - 1]].parent ELSE 0
      Reached(k) == /\ \A i \in 0..k : up[i] \in DOMAIN table /\ table[up[i]].readable
                    /\ \A i \in 0..k, j \in 0..k : i # j => up[i] # up[j]
                    /\ \A i \in 0..k : i < k => ~table[up[i]].leader
      far == {k \in 0..MaxWalk : Reached(k)}
  IN IF pid = 0 \/ far = {} THEN 0 ELSE up[CHOOSE k \in far : \A i \in far : i <= k]

(* The program that starting the command runs: a bare name is looked for along    *)
(* PATH, where what cannot be executed is passed over, a relative one with a      *)
(* slash where the caller works; a space in the name is part of it.  What is not  *)
(* along PATH is looked for where the caller works (identity-binding.md 5.1).     *)
Runs(c, peer) ==
  LET dirs  == CASE c.dir = "."    -> <<peer.place>>
                 [] c.dir = "bare" -> [i \in 1..Len(peer.path) |->
                                         IF peer.path[i] = Here THEN peer.place ELSE peer.path[i]]
                                        \o <<peer.place>>
                 [] OTHER          -> <<c.dir>>
      names == IF c.dir \in {"bare", "."} THEN Variants(peer.os, Typed(c)) ELSE <<Typed(c)>>
      First(is(_), n) == CHOOSE i \in 1..n : is(i) /\ \A j \in 1..n : is(j) => i <= j
      There(i, k) == Startable(<<dirs[i], names[k]>>)
      Some(i)     == \E k \in 1..Len(names) : There(i, k)
  IN IF ~\E i \in 1..Len(dirs) : Some(i) THEN NoPath
     ELSE LET i == First(Some, Len(dirs))
              Is(k) == There(i, k)
          IN Real(<<dirs[i], names[First(Is, Len(names))]>>)

(* Where the daemon cannot but read a command as the system does: it has no       *)
(* slash and no space in a word of its own, or is absolute, and what the daemon   *)
(* took for its program can be executed.                                          *)
ReadAlike(c, exe) ==
  c.dir # "." /\ c.rest = <<>> /\ (exe # NoPath => files[exe].exec)

Covering(req, cwd) ==
  {r \in Rulebook :
     /\ r.capability = "inject" /\ Within(r.dir, cwd)
     /\ IF r.print = NoPrint THEN Fits(r.command, Text(req.command))
                              ELSE Fits(StripExec(r.command), StripExec(req.command.name))}

Entitled(req, peer, table) ==
  /\ peer.session /\ Ancestor(peer.pid, table) # 0
  /\ peer.cwd # NoDir
  /\ RulesRead
  /\ req.keys \subseteq Secrets
  /\ LET cover == Covering(req, peer.cwd)
         bound == {r \in cover : r.print # NoPrint}
         exe   == IF peer.path = Unreadable THEN NoPath ELSE Runs(req.command, peer)
     IN /\ \E r \in cover : r.keys \cap req.keys # {}
        /\ bound # {} => exe # NoPath /\ \E r \in bound :
             r.print = [exe |-> exe, size |-> SizeOf[files[exe].data], data |-> files[exe].data]

(* Does it depend on the program?                                                 *)
ByProgram(req, peer) ==
  /\ RulesRead /\ peer.cwd # NoDir
  /\ \E r \in Covering(req, peer.cwd) : r.print # NoPrint

(* An injection is let through by rules exactly when a rule for this caller,      *)
(* directory, command and, where it names one, program is in the vault, and then  *)
(* with no other keys than those rules name: evaluate_layers, walk_chain,         *)
(* glob_match, project_dir_matches, resolve_exe_path and adjudicate_binding       *)
(* together, for a call during which no program was changed.  The exception is a  *)
(* rule bound to a program and a command that the daemon reads in a way of its    *)
(* own (ReadAlike): it is judged by another program than the one it would start,  *)
(* see SpawnsOnlyTheJudged.                                                       *)
JudgedRight ==
  call.at = "done" /\ call.req.kind = "inject" /\ Valid(call.req) /\ call.began = clock =>
    /\ (ByProgram(call.req, call.peer) => ReadAlike(call.req.command, call.exe)) =>
         (call.result.allowed <=> Entitled(call.req, call.peer, call.table))
    /\ call.result.allowed =>
         call.result.keys \subseteq UNION {r.keys : r \in Covering(call.req, call.peer.cwd)}

(* Whoever replaces the program, a digest that lets an injection through, or that *)
(* is stored with a rule, is of bytes the file held since it was looked at: the   *)
(* digest cache (exe_resolve.rs) never answers for bytes of before.               *)
HashAnswersNow ==
  call.at = "done" /\ call.result.allowed /\ call.shown # NoFile => call.shown \in call.seen
=============================================================================
