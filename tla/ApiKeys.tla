------------------------------ MODULE ApiKeys -------------------------------
(***************************************************************************)
(* The apikeys feature at the level of its SQL statements: admins, each a  *)
(* process of its own running `recall server keys ...` on the same keys.db *)
(* as the server, create and revoke keys in write transactions.            *)
(*                                                                         *)
(* WithinTx is BEGIN IMMEDIATE: it takes SQLite's write lock before its    *)
(* first statement and works on a draft no other connection sees until the *)
(* commit. Whatever fails in between rolls the draft back, a killed        *)
(* process included.                                                       *)
(***************************************************************************)
EXTENDS KeyRing

CONSTANTS
  Admins,
  NoOne     \* nobody holds the write lock

ASSUME AdminsAssumption == NoOne \notin Admins

VARIABLES
  lock,   \* the admin inside a write transaction, or NoOne
  draft,  \* the database as that transaction has left it
  cmd,    \* what each admin's command is doing
  now     \* the clock commands read

vars == <<spaces, keys, lock, draft, cmd, now>>

(***************************************************************************)
(* A command: the key it is about, the aggregate it holds in memory ("key")*)
(* and the statement that comes next ("pc"). An admin who is idle still    *)
(* knows what the last command was and what it answered.                   *)
(***************************************************************************)
Idle == [op |-> "none", pc |-> "idle", id |-> NoKey, key |-> NoKey, reply |-> "none"]

Committed == [spaces |-> spaces, keys |-> keys]

EmptyDraft == [spaces |-> {}, keys |-> [id \in KeyIds |-> NoKey]]

InTx(a) == cmd[a].pc \in {"load", "space", "key", "commit"}

Init ==
  /\ RingInit
  /\ lock = NoOne
  /\ draft = EmptyDraft
  /\ cmd = [a \in Admins |-> Idle]
  /\ now = 1

Goto(a, pc) == cmd' = [cmd EXCEPT ![a].pc = pc]

Answer(a, reply) ==
  cmd' = [cmd EXCEPT ![a] = [Idle EXCEPT !.op = cmd[a].op, !.id = cmd[a].id, !.reply = reply]]

-----------------------------------------------------------------------------
(* The aggregate of a new key is built before the transaction begins; a    *)
(* bad space name ends the command there. NewID (UUIDv7) repeats no id:    *)
(* one whose create failed names no row and stands for a new one.          *)
CreateKey(a, id, name, space) ==
  /\ cmd[a].pc = "idle"
  /\ keys[id] = NoKey
  /\ \A b \in Admins : cmd[b].op = "create" => cmd[b].id # id \/ cmd[b].reply = "failed"
  /\ ValidateSpaceName(space)
  /\ cmd' = [cmd EXCEPT ![a] = [op |-> "create", pc |-> "begin", id |-> id,
                                key |-> NewKey(name, space), reply |-> "none"]]
  /\ UNCHANGED <<spaces, keys, lock, draft, now>>

RevokeKey(a, id) ==
  /\ cmd[a].pc = "idle"
  /\ cmd' = [cmd EXCEPT ![a] = [op |-> "revoke", pc |-> "begin", id |-> id,
                                key |-> NoKey, reply |-> "none"]]
  /\ UNCHANGED <<spaces, keys, lock, draft, now>>

(* A plausible mistake, BEGIN for BEGIN IMMEDIATE: writers do not wait.    *)
Begin_Deferred(a) ==
  /\ cmd[a].pc = "begin"
  /\ lock' = a
  /\ draft' = Committed
  /\ Goto(a, IF cmd[a].op = "revoke" THEN "load" ELSE "space")
  /\ UNCHANGED <<spaces, keys, now>>

Begin(a) ==
  /\ cmd[a].pc = "begin"
  /\ lock = NoOne
  /\ lock' = a
  /\ draft' = Committed
  /\ Goto(a, IF cmd[a].op = "revoke" THEN "load" ELSE "space")
  /\ UNCHANGED <<spaces, keys, now>>

(* GetByID, then Revoke on the aggregate with a clock reading of its own.  *)
LoadForRevoke(a) ==
  /\ cmd[a].pc = "load"
  /\ draft.keys[cmd[a].id] # NoKey
  /\ cmd' = [cmd EXCEPT ![a].pc = "space",
                        ![a].key = Revoked(draft.keys[cmd[a].id], now)]
  /\ UNCHANGED <<spaces, keys, lock, draft, now>>

(* A plausible mistake, Save outside the transaction: the space row is     *)
(* committed at once.                                                      *)
SaveSpace_Autocommit(a) ==
  /\ cmd[a].pc = "space"
  /\ spaces' = spaces \cup {cmd[a].key.space}
  /\ draft' = [draft EXCEPT !.spaces = @ \cup {cmd[a].key.space}]
  /\ Goto(a, "key")
  /\ UNCHANGED <<keys, lock, now>>

(* Save, first statement: INSERT INTO spaces ... ON CONFLICT DO NOTHING.   *)
SaveSpace(a) ==
  /\ cmd[a].pc = "space"
  /\ draft' = [draft EXCEPT !.spaces = @ \cup {cmd[a].key.space}]
  /\ Goto(a, "key")
  /\ UNCHANGED <<spaces, keys, lock, now>>

(* A plausible mistake, ON CONFLICT (id) DO NOTHING: the row wins.         *)
Upserted_DoNothing(row, key) == IF row = NoKey THEN key ELSE row

(* Save, second statement: a row that exists keeps all but revoked_at.     *)
Upserted(row, key) ==
  IF row = NoKey THEN key ELSE [row EXCEPT !.revoked_at = key.revoked_at]

SaveKey(a) ==
  /\ cmd[a].pc = "key"
  /\ draft' = [draft EXCEPT !.keys[cmd[a].id] = Upserted(@, cmd[a].key)]
  /\ Goto(a, "commit")
  /\ UNCHANGED <<spaces, keys, lock, now>>

Commit(a) ==
  /\ cmd[a].pc = "commit"
  /\ spaces' = draft.spaces
  /\ keys' = draft.keys
  /\ lock' = NoOne
  /\ draft' = EmptyDraft
  /\ Answer(a, "ok")
  /\ UNCHANGED now

Rollback(a, reply) ==
  /\ lock' = NoOne
  /\ draft' = EmptyDraft
  /\ Answer(a, reply)
  /\ UNCHANGED <<spaces, keys, now>>

(* KeyNotFoundError is returned from inside the transaction.               *)
KeyNotFound(a) ==
  /\ cmd[a].pc = "load"
  /\ draft.keys[cmd[a].id] = NoKey
  /\ Rollback(a, "key_not_found")

(* A statement or the commit fails, or the admin's process is killed.      *)
Fail(a) == InTx(a) /\ Rollback(a, "failed")

(* busy_timeout runs out before the lock is free, or the process is killed.*)
GiveUp(a) ==
  /\ cmd[a].pc = "begin"
  /\ Answer(a, "failed")
  /\ UNCHANGED <<spaces, keys, lock, draft, now>>

Tick ==
  /\ now < MaxTime
  /\ now' = now + 1
  /\ UNCHANGED <<spaces, keys, lock, draft, cmd>>

Next ==
  \/ \E a \in Admins :
       \/ \E id \in KeyIds :
            \/ \E name \in Labels, space \in Spaces : CreateKey(a, id, name, space)
            \/ RevokeKey(a, id)
       \/ Begin(a) \/ LoadForRevoke(a) \/ KeyNotFound(a)
       \/ SaveSpace(a) \/ SaveKey(a) \/ Commit(a)
       \/ Fail(a) \/ GiveUp(a)
  \/ Tick

Spec == Init /\ [][Next]_vars

-----------------------------------------------------------------------------
Database == [spaces : SUBSET ValidSpaces, keys : [KeyIds -> Key \cup {NoKey}]]

Command == [op : {"none", "create", "revoke"},
            pc : {"idle", "begin", "load", "space", "key", "commit"},
            id : KeyIds \cup {NoKey}, key : Key \cup {NoKey},
            reply : {"none", "ok", "key_not_found", "failed"}]

(* Every row and every pending command has the shape the schema gives it,  *)
(* and the write lock is held by exactly the admin inside a transaction    *)
(* (managekeys.go Execute, apikey_repository.go Save).                     *)
TypeOK ==
  /\ RingTypeOK
  /\ draft \in Database
  /\ cmd \in [Admins -> Command]
  /\ now \in 1..MaxTime
  /\ lock \in Admins \cup {NoOne}
  /\ \A a \in Admins : InTx(a) <=> lock = a

(* A space is listed exactly when some key, active or revoked, unlocks it: *)
(* Save's two statements never come apart, whoever fails or dies between   *)
(* them (apikey_repository.go Save).                                       *)
SpacesHaveKeys == spaces = {keys[id].space : id \in {k \in KeyIds : keys[k] # NoKey}}

(* A key that was issued keeps its name and its space for ever, and the    *)
(* first revocation timestamp for ever, whichever admins revoke it         *)
(* together (apikey_aggregate.go Revoke, the upsert of Save).              *)
RevocationSticks ==
  [][\A id \in KeyIds : keys[id] # NoKey =>
       /\ keys'[id] # NoKey
       /\ keys'[id].name = keys[id].name
       /\ keys'[id].space = keys[id].space
       /\ keys[id].revoked_at # Never => keys'[id] = keys[id]]_vars

(* A revoke that answered ok leaves its key revoked for ever after, with a *)
(* timestamp the clock has shown (managekeys.go RevokeKeyCommand.Execute). *)
RevokeIsKept ==
  \A a \in Admins : cmd[a].op = "revoke" /\ cmd[a].reply = "ok" =>
    /\ keys[cmd[a].id] # NoKey
    /\ keys[cmd[a].id].revoked_at \in 1..now

(* Every transaction is one step of the key ring, or none: no admin sees   *)
(* or leaves half of another's command (managekeys.go Create, Revoke).     *)
ImplementsKeyRing == RingSpec
=============================================================================
