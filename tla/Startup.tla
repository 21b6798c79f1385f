------------------------------ MODULE Startup -------------------------------
(***************************************************************************)
(* How a recall process finds its memory. It reads remote.json and the     *)
(* environment and becomes a client of a server, or opens a database file  *)
(* and brings it up to date, while other processes set and unset the       *)
(* endpoint, open the same file, write to it and copy it. Any process may  *)
(* die at any step; the machine is upgraded to later releases meanwhile.   *)
(***************************************************************************)
EXTENDS Migrations

CONSTANTS
  Procs,     \* processes: one after another under the same name
  Files,     \* database files: RECALL_DB, a space, an export
  Releases,  \* the releases of recall that were ever run, by their migrations
  Pks,       \* rowids that are told apart
  Configs,   \* what remote.json may say: records of addr and apiKey
  Envs,      \* RECALL_REMOTE_ADDR and RECALL_API_KEY: records of the same shape
  Length,    \* of a config, encoded: [Configs -> Nat]
  None,      \* an empty field, no config, no process state
  Forms,     \* what is stored: records of kind, keywords and lifetime
  Times,     \* the instants that are told apart
  MaxChanges \* bound: memories stored, files copied and endpoints saved, together

ASSUME StartupAssumption ==
  /\ Releases \subseteq 1..5 /\ 5 \in Releases
  /\ Pks \subseteq Nat /\ Times \subseteq Nat /\ MaxChanges \in Nat
  /\ \A c \in Configs : c.addr # None
  /\ None \notin Configs
  /\ Length \in [Configs -> Nat]
  /\ Forms \subseteq [kind : Kinds, keywords : SUBSET Keyword, lifetime : {Null, Hour}]

VARIABLES
  dbs,        \* [Files -> database]
  file,       \* remote.json: what it holds and how many bytes
  proc,       \* [Procs -> process]
  installed,  \* the release that a new process runs
  now,        \* the clock
  stored,     \* history: what was stored in each file and not deleted
  bounded,    \* history: when 0004 reached each file
  renumbered, \* history: copies whose rowids VACUUM has changed
  told,       \* history: what the last remote command came to
  changes     \* memories stored, files copied and endpoints saved so far

dbVars == <<dbs, stored, bounded, renumbered>>
cfgVars == <<file, told>>
vars == <<dbVars, cfgVars, proc, installed, now, changes>>

-----------------------------------------------------------------------------
(* remote.json: no file, an empty one (truncated, not yet written), a      *)
(* config, or bytes that do not parse.                                     *)
Absent == [state |-> "absent", cfg |-> None, size |-> 0]
Empty  == [state |-> "empty", cfg |-> None, size |-> 0]
Whole(c) == [state |-> "whole", cfg |-> c, size |-> Length[c]]
Torn(size) == [state |-> "torn", cfg |-> None, size |-> size]

(* What a remote command came to: an endpoint set, or none; a save cut     *)
(* short; or, when commands overlapped, nothing one could rely on.         *)
Set(c)  == [state |-> "set", cfg |-> c]
Unset   == [state |-> "unset", cfg |-> None]
Cut     == [state |-> "cut", cfg |-> None]
Unclear == [state |-> "unclear", cfg |-> None]

(* linked: the file that is being written still has its name. alone: no    *)
(* other remote command has run during this save. astray: the process went *)
(* local although an endpoint was set.                                     *)
Idle == [pc |-> "idle", release |-> 0, env |-> None, db |-> None, cfg |-> None,
         linked |-> FALSE, alone |-> FALSE, astray |-> FALSE]

Init ==
  /\ dbs = [f \in Files |-> NoDatabase]
  /\ file = Absent
  /\ proc = [p \in Procs |-> Idle]
  /\ installed \in Releases
  /\ now \in Times
  /\ stored = {}
  /\ bounded = [f \in Files |-> Null]
  /\ renumbered = {}
  /\ told = Unset
  /\ changes = 0

Saving(p) == proc[p].pc = "writing"

-----------------------------------------------------------------------------
(* The world around.                                                       *)
Tick ==
  /\ now' \in {time \in Times : time > now}
  /\ UNCHANGED <<dbVars, cfgVars, proc, installed, changes>>

Upgrade ==
  /\ installed' \in {release \in Releases : release > installed}
  /\ UNCHANGED <<dbVars, cfgVars, proc, now, changes>>

(* A save that does not get to its end leaves the file truncated.          *)
CutShort(p) == IF ~Saving(p) THEN told ELSE IF proc[p].alone THEN Cut ELSE Unclear

(* A process ends, in order or not; Open closes the database when it, a    *)
(* pragma or a migration fails.                                            *)
Exit(p) ==
  /\ proc[p].pc # "idle"
  /\ proc' = [proc EXCEPT ![p] = Idle]
  /\ told' = CutShort(p)
  /\ UNCHANGED <<dbVars, file, installed, now, changes>>

-----------------------------------------------------------------------------
(* connect: Resolve, then Connect or storage.Open. The file is read in one *)
(* step, the environment is the process's own.                             *)
Unreadable == file.state \in {"empty", "torn"}

(* Load: no file is an empty config.                                       *)
NoConfig == [addr |-> None, apiKey |-> None]
Loaded == IF file.state = "whole" THEN file.cfg ELSE NoConfig

(* Each field of the environment wins over the file's.                     *)
Merged(env) ==
  [field \in {"addr", "apiKey"} |-> IF env[field] # None THEN env[field] ELSE Loaded[field]]

(* A file that does not parse, or an address without a key: the command    *)
(* reports it and ends.                                                    *)
ResolveFails(env) == Unreadable \/ (Merged(env).addr # None /\ Merged(env).apiKey = None)

Starts(p, process) ==
  /\ proc[p].pc = "idle"
  /\ proc' = [proc EXCEPT ![p] = process]
  /\ UNCHANGED <<dbVars, cfgVars, installed, now, changes>>

(* grpckit.Connect dials lazily: nothing is checked before the first call. *)
StartRemote(p, env) ==
  /\ ~ResolveFails(env)
  /\ Merged(env).addr # None
  /\ Starts(p, [Idle EXCEPT !.pc = "remote", !.env = env, !.cfg = Merged(env)])

Opening(f) == [Idle EXCEPT !.pc = "opening", !.release = installed, !.db = f,
                           !.astray = told.state \in {"set", "cut"}]

(* A plausible mistake: a file that does not parse counts as none.         *)
StartLocal_Lenient(p, env, f) ==
  /\ Merged(env).addr = None
  /\ Starts(p, Opening(f))

StartLocal(p, env, f) ==
  /\ ~ResolveFails(env)
  /\ Merged(env).addr = None
  /\ Starts(p, Opening(f))

(* Migrate: one migration with its mark in schema_migrations. The kernel   *)
(* makes the two one transaction, in which it looks the mark up again.     *)
Migrate(p) ==
  LET f == proc[p].db IN
  /\ proc[p].pc = "opening"
  /\ dbs[f].version < proc[p].release
  /\ dbs' = [dbs EXCEPT ![f] = Migrated(@, now)]
  /\ bounded' = IF dbs[f].version = 3 THEN [bounded EXCEPT ![f] = now] ELSE bounded
  /\ UNCHANGED <<stored, renumbered, cfgVars, proc, installed, now, changes>>

(* A plausible mistake: a failed migration does not stop Open.             *)
Opened_Anyway(p) ==
  /\ proc[p].pc = "opening"
  /\ proc' = [proc EXCEPT ![p].pc = "local"]
  /\ UNCHANGED <<dbVars, cfgVars, installed, now, changes>>

Opened(p) ==
  /\ proc[p].pc = "opening"
  /\ dbs[proc[p].db].version >= proc[p].release
  /\ proc' = [proc EXCEPT ![p].pc = "local"]
  /\ UNCHANGED <<dbVars, cfgVars, installed, now, changes>>

-----------------------------------------------------------------------------
(* What a local process does with the file. A process that outlives the    *)
(* schema of its release is to be restarted (0002), and writes no more.    *)
Uses(p, f) ==
  proc[p].pc = "local" /\ proc[p].db = f /\ dbs[f].version = proc[p].release

Store(p, id, form) ==
  LET f       == proc[p].db
      kind    == IF dbs[f].version = 5 THEN Null ELSE form.kind
      expires == IF form.lifetime = Null THEN Null ELSE now + form.lifetime
  IN
  /\ Uses(p, f)
  /\ changes < MaxChanges
  /\ \A s \in stored : s.id # id
  /\ \A g \in Files : \A r \in dbs[g].rows : r.id # id
  /\ form.lifetime = Null => dbs[f].version < 4
  /\ \E pk \in Pks :
       /\ IsNewPk(dbs[f], pk)
       /\ dbs' = [dbs EXCEPT ![f] =
            Inserted(@, [pk |-> pk, id |-> id, kind |-> kind, keywords |-> form.keywords,
                         created |-> now, expires |-> expires])]
  /\ stored' = stored \cup {[file |-> f, id |-> id, kind |-> kind, keywords |-> form.keywords,
                             expires |-> expires]}
  /\ changes' = changes + 1
  /\ UNCHANGED <<bounded, renumbered, cfgVars, proc, now, installed>>

Delete(p) ==
  LET f == proc[p].db IN
  /\ Uses(p, f)
  /\ \E r \in dbs[f].rows :
       /\ dbs' = [dbs EXCEPT ![f] = Deleted(@, r)]
       /\ stored' = {s \in stored : s.file # f \/ s.id # r.id}
  /\ UNCHANGED <<bounded, renumbered, cfgVars, proc, installed, now, changes>>

(* ExportSnapshot: VACUUM INTO a file that must not exist, of a source     *)
(* that is opened but not migrated. Before 0003 SQLite is free to number   *)
(* the rows anew, which the postings do not follow.                        *)
Export(f, g) ==
  /\ installed = 5
  /\ dbs[f].rows # {} /\ dbs[g] = NoDatabase
  /\ \E rows \in {dbs[f].rows} \cup (IF dbs[f].version < 3 THEN {Renumbered(dbs[f].rows)} ELSE {}) :
       /\ dbs' = [dbs EXCEPT ![g] = [dbs[f] EXCEPT !.rows = rows]]
       /\ renumbered' = renumbered \cup (IF rows # dbs[f].rows \/ f \in renumbered THEN {g} ELSE {})
  /\ stored' = stored \cup {[s EXCEPT !.file = g] : s \in {t \in stored : t.file = f}}
  /\ bounded' = [bounded EXCEPT ![g] = bounded[f]]
  /\ UNCHANGED <<cfgVars, proc, installed, now, changes>>

-----------------------------------------------------------------------------
(* remote set, remote unset and the TUI's endpoint screen.                 *)
SomeoneSaves == \E p \in Procs : Saving(p)

(* Nobody who saves at the same time as another is alone any more.         *)
Disturbed(procs) == [q \in Procs |-> [procs[q] EXCEPT !.alone = FALSE]]

StartsSaving(p, c) ==
  LET saver == [Idle EXCEPT !.pc = "writing", !.cfg = c, !.linked = TRUE, !.alone = TRUE]
      procs == [proc EXCEPT ![p] = saver]
  IN  /\ proc[p].pc = "idle"
      /\ changes < MaxChanges
      /\ changes' = changes + 1
      /\ proc' = IF SomeoneSaves THEN Disturbed(procs) ELSE procs
      /\ told' = IF SomeoneSaves THEN Unclear ELSE told
      /\ UNCHANGED <<dbVars, installed, now>>

(* A plausible mistake: the old file is overwritten, not truncated.        *)
BeginSave_NoTruncate(p, c) ==
  /\ StartsSaving(p, c)
  /\ file' = IF file = Absent THEN Empty ELSE file

(* remotecfg.Save: os.WriteFile opens and truncates, then writes. "remote  *)
(* set" comes here after the server took the key, the TUI at once, also    *)
(* with no key at all.                                                     *)
BeginSave(p, c) ==
  /\ StartsSaving(p, c)
  /\ file' = Empty

(* The write starts at the first byte whatever is there by then: what is   *)
(* longer shows its end, which only as a last newline is harmless. A file  *)
(* removed meanwhile takes the write with it.                              *)
Written(c) == IF file.size <= Length[c] + 1 THEN Whole(c) ELSE Torn(file.size)

EndSave(p) ==
  /\ Saving(p)
  /\ file' = IF proc[p].linked THEN Written(proc[p].cfg) ELSE file
  /\ told' = IF proc[p].alone THEN Set(proc[p].cfg) ELSE Unclear
  /\ proc' = [proc EXCEPT ![p] = Idle]
  /\ UNCHANGED <<dbVars, installed, now, changes>>

(* The disk is full: reported.                                             *)
SaveFails(p) ==
  /\ Saving(p)
  /\ told' = CutShort(p)
  /\ proc' = [proc EXCEPT ![p] = Idle]
  /\ UNCHANGED <<dbVars, file, installed, now, changes>>

(* remotecfg.Remove: "remote unset", or the TUI's save of no address.      *)
Remove(p) ==
  /\ proc[p].pc = "idle"
  /\ file' = Absent
  /\ told' = IF SomeoneSaves THEN Unclear ELSE Unset
  /\ proc' = [q \in Procs |-> [proc[q] EXCEPT !.alone = FALSE, !.linked = FALSE]]
  /\ UNCHANGED <<dbVars, installed, now, changes>>

-----------------------------------------------------------------------------
Connecting(p) ==
  \/ \E env \in Envs : StartRemote(p, env)
  \/ \E env \in Envs, f \in Files : StartLocal(p, env, f)
  \/ Migrate(p) \/ Opened(p)

Using(p) ==
  \/ \E id \in Ids, form \in Forms : Store(p, id, form)
  \/ Delete(p)

Configuring(p) ==
  \/ \E c \in Configs : BeginSave(p, c)
  \/ EndSave(p) \/ SaveFails(p) \/ Remove(p)

Next ==
  \/ \E p \in Procs : Connecting(p) \/ Using(p) \/ Configuring(p) \/ Exit(p)
  \/ \E f, g \in Files : Export(f, g)
  \/ Tick \/ Upgrade

Spec == Init /\ [][Next]_vars
-----------------------------------------------------------------------------
Steps == {"idle", "remote", "opening", "local", "writing"}

(* Every row of a file has a pk and an id of its own, and only columns its *)
(* version has; a local process runs a release that the file has reached.  *)
TypeOK ==
  /\ \A f \in Files :
       /\ dbs[f] \in Database
       /\ \A r, s \in dbs[f].rows : r.pk = s.pk \/ r.id = s.id => r = s
       /\ \A r \in dbs[f].rows :
            /\ r.kind = Null <=> dbs[f].version = 5
            /\ dbs[f].version >= 4 => r.expires # Null
       /\ dbs[f].version <= installed
  /\ \A p \in Procs :
       /\ proc[p].pc \in Steps
       /\ proc[p].pc = "local" => dbs[proc[p].db].version >= proc[p].release

(* At every version of every file, through every migration, write and      *)
(* deletion (pks that are assigned again included): the postings are those *)
(* of the rows, and the mirror has a row's keywords and nothing else but,  *)
(* since 0005, a tag that its column kind had (0001-0005). Copies made     *)
(* before 0003 whose rowids VACUUM changed are excepted.                   *)
IndexesFollow ==
  \A f \in Files \ renumbered :
    LET d == dbs[f] IN
    /\ d.fts = {Posting(r) : r \in d.rows}
    /\ d.version >= 2 =>
         /\ Split(d.version, d.rows) \subseteq d.mirror
         /\ \A m \in d.mirror \ Split(d.version, d.rows) :
              /\ d.version = 5 /\ m[1] \in Tags
              /\ \E r \in d.rows : r.pk = m[2] /\ r.keywords \cap Tags # {}

(* What was stored and not deleted is there after any number of upgrades   *)
(* and copies, under its id: found by every keyword it was stored with     *)
(* and by its kind once that is a keyword; with the lifetime it was given, *)
(* or, if it had none, about a month from the migration, however old it is *)
(* (0003-0005, server.go ExportSnapshot).                                  *)
NothingLost ==
  \A s \in stored : \E r \in dbs[s.file].rows :
    LET d == dbs[s.file] IN
    /\ r.id = s.id
    /\ s.keywords \subseteq r.keywords
    /\ \A kw \in s.keywords \cup (IF d.version = 5 /\ s.kind # Null THEN {Tag(s.kind)} ELSE {}) :
         d.version >= 2 => <<kw, MirrorKey(d.version, r)>> \in d.mirror
    /\ s.expires # Null => r.expires = s.expires
    /\ s.expires = Null /\ d.version >= 4 =>
         /\ r.expires > bounded[s.file] + Month - Hour
         /\ r.expires <= bounded[s.file] + Month

(* A process calls a server with an address and a key that somebody saved  *)
(* together, but for what its own environment overrides: overlapping       *)
(* saves never mix two endpoints. And it never uses the local file because *)
(* a set endpoint was unreadable, neither during a save nor after one that *)
(* was cut short (remotecfg.go Save, Resolve).                             *)
EndpointHonest ==
  \A p \in Procs :
    /\ ~proc[p].astray
    /\ proc[p].pc = "remote" =>
         \E c \in Configs \cup {NoConfig} :
           \A field \in {"addr", "apiKey"} :
             LET own == proc[p].env[field] IN
             /\ proc[p].cfg[field] = (IF own # None THEN own ELSE c[field])
             /\ proc[p].cfg[field] # None

(* Between remote commands that do not overlap the file says what the last *)
(* one reported, and after one that was cut short it is empty, whatever    *)
(* overlapped before (remotecfg.go Save, Remove).                          *)
OrderlyConfig ==
  ~SomeoneSaves =>
    /\ told.state = "set" => file = Whole(told.cfg)
    /\ told.state = "unset" => file = Absent
    /\ told.state = "cut" => file = Empty
=============================================================================
