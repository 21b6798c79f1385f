---------------------------- MODULE MemoryStore -----------------------------
(***************************************************************************)
(* The memories feature over the embedded database: the use-cases of       *)
(* managememories (Store, Rate, Delete, Get), the sqlite repository and    *)
(* reader under them, and as much of SQLite as they rely on.               *)
(*                                                                         *)
(* Callers run in processes that share one file. A command is a BEGIN      *)
(* IMMEDIATE transaction: it holds the one write lock, sees its own        *)
(* uncommitted "work" copy of the database, and every SQL statement is a   *)
(* step after which the caller may fail or its process may die. Reads see  *)
(* the committed database "db".                                            *)
(*                                                                         *)
(* Names with an underscore are deliberate variants of the definition that *)
(* follows them, each with one plausible bug: PROJECT.json says which      *)
(* property notices it. Nothing else uses them.                            *)
(*                                                                         *)
(* Abstracted: content, summary, source, lifetime and dates (immutable     *)
(* columns no statement here branches on), and the events (the kernel      *)
(* publishes them in the transaction and nothing subscribes to them).      *)
(***************************************************************************)
EXTENDS Naturals, FiniteSets

CONSTANTS
  Callers,     \* concurrent callers, each with a connection
  Ids,         \* the uuids NewID can draw
  Keywords,
  Pks,         \* integer primary keys SQLite can assign
  NoId,        \* the empty string / NULL
  NoCaller,
  MaxVotes,    \* bound: votes on one memory, cast and being cast
  MaxReads     \* bound: counted reads of one memory, made and being made

ASSUME PksAssumption == Pks \subseteq Nat
ASSUME NoneAssumption == NoId \notin Ids /\ NoCaller \notin Callers
ASSUME BoundAssumption == MaxVotes \in Nat /\ MaxReads \in Nat

VARIABLES
  db,          \* the committed database
  writer,      \* the caller whose transaction holds the write lock
  work,        \* the database as that transaction sees it
  pc,          \* the statement each caller executes next
  req,         \* the call it makes
  agg,         \* the aggregate it is about to Save
  reply,       \* what it will answer
  issued,      \* the ids handed out by NewID
  deleted,     \* history: ids whose deletion committed
  corrections  \* history: the committed corrections of each id

vars == <<db, writer, work, pc, req, agg, reply, issued, deleted, corrections>>

-----------------------------------------------------------------------------
(* The schema: memories by pk, the keyword mirror, the full-text postings. *)

Row == [id : Ids, keywords : SUBSET Keywords, superseded_by : Ids \cup {NoId},
        votes_up : Nat, votes_down : Nat, access_count : Nat]

NoRow == [id |-> NoId, keywords |-> {}, superseded_by |-> NoId,
          votes_up |-> 0, votes_down |-> 0, access_count |-> 0]

EmptyDb == [memories |-> [k \in Pks |-> NoRow], memory_keywords |-> {}, memories_fts |-> {}]

Used(d) == {k \in Pks : d.memories[k] # NoRow}

(* The pk of an id: at most one, "id text NOT NULL UNIQUE".                *)
PkOf(d, i) == {k \in Used(d) : d.memories[k].id = i}

Present(d, i) == PkOf(d, i) # {}

(* integer PRIMARY KEY without AUTOINCREMENT: one more than the largest    *)
(* pk in use, so the pk of a deleted last row is assigned again.           *)
IsNextPk(d, k) ==
  /\ \A u \in Used(d) : u < k
  /\ k = 1 \/ k - 1 \in Used(d)

Postings(k, keywords) == {k} \X keywords

(* The statements. Triggers keep the full-text index: an INSERT adds the   *)
(* postings of the new row, a DELETE removes those of the old row, an      *)
(* UPDATE does both.                                                       *)
InsertRow(d, k, row) ==
  [d EXCEPT !.memories[k] = row,
            !.memories_fts = @ \cup Postings(k, row.keywords)]

UpdateRow(d, k, row) ==
  [d EXCEPT !.memories[k] = row,
            !.memories_fts = (@ \ Postings(k, d.memories[k].keywords))
                               \cup Postings(k, row.keywords)]

DeleteRow(d, k) ==
  [d EXCEPT !.memories[k] = NoRow,
            !.memories_fts = @ \ Postings(k, d.memories[k].keywords)]

InsertKeywords(d, k, keywords) ==
  [d EXCEPT !.memory_keywords = @ \cup Postings(k, keywords)]

DeleteKeywords_Forgotten(d, k) == d

DeleteKeywords(d, k) ==
  [d EXCEPT !.memory_keywords = {p \in @ : p[1] # k}]

-----------------------------------------------------------------------------
(* The aggregate: Memory as the repository restores and saves it.          *)

NewMemory(i, keywords) == [NoRow EXCEPT !.id = i, !.keywords = keywords]

(* RestoreMemory of the row: access_count is not part of the aggregate.    *)
Restore(row) == [row EXCEPT !.access_count = 0]

Rated(m, up) == IF up THEN [m EXCEPT !.votes_up = @ + 1]
                      ELSE [m EXCEPT !.votes_down = @ + 1]

SupersededBy_Self(m, i) == [m EXCEPT !.superseded_by = m.id]

SupersededBy(m, i) == [m EXCEPT !.superseded_by = i]

Upserted_WholeRow(row, m) == m

(* Save's upsert of an existing row: ON CONFLICT (id) DO UPDATE sets these *)
(* three columns and no other.                                             *)
Upserted(row, m) ==
  [row EXCEPT !.superseded_by = m.superseded_by,
              !.votes_up = m.votes_up, !.votes_down = m.votes_down]

-----------------------------------------------------------------------------
Ops == {"store", "rate", "delete", "get"}

Request == [op : Ops, target : Ids \cup {NoId}, id : Ids \cup {NoId},
            keywords : SUBSET Keywords, up : BOOLEAN]

NoRequest == [op |-> "get", target |-> NoId, id |-> NoId, keywords |-> {}, up |-> FALSE]

Replies == {"none", "ok", "not_found", "superseded", "no_keywords", "error"}

Steps == {"idle", "begin", "load", "save", "mirror", "unmirror", "remove",
          "commit", "read", "bump", "reply"}

InTx == {"load", "save", "mirror", "unmirror", "remove", "commit"}

Init ==
  /\ db = EmptyDb /\ work = EmptyDb
  /\ writer = NoCaller
  /\ pc = [c \in Callers |-> "idle"]
  /\ req = [c \in Callers |-> NoRequest]
  /\ agg = [c \in Callers |-> NoRow]
  /\ reply = [c \in Callers |-> "none"]
  /\ issued = {} /\ deleted = {}
  /\ corrections = [i \in Ids |-> {}]

Goto(c, step) == pc' = [pc EXCEPT ![c] = step]

Reply(c, answer) == Goto(c, "reply") /\ reply' = [reply EXCEPT ![c] = answer]

history == <<deleted, corrections>>

-----------------------------------------------------------------------------
(* Calls arrive.                                                           *)

InFlight(op, i) == Cardinality({c \in Callers : pc[c] # "idle" /\ req[c].op = op /\ req[c].target = i})

Rating(i) == {db.memories[k].votes_up + db.memories[k].votes_down : k \in PkOf(db, i)}

Reads(i) == {db.memories[k].access_count : k \in PkOf(db, i)}

Invoke(c, r, step) ==
  /\ pc[c] = "idle"
  /\ req' = [req EXCEPT ![c] = r]
  /\ Goto(c, step)
  /\ UNCHANGED <<db, writer, work, agg, reply, history>>

(* StoreCommand.Execute draws the new id first.                            *)
InvokeStore(c) ==
  \E i \in Ids \ issued, t \in Ids \cup {NoId}, keywords \in SUBSET Keywords :
    /\ t # i
    /\ Invoke(c, [NoRequest EXCEPT !.op = "store", !.id = i, !.target = t, !.keywords = keywords],
              "begin")
    /\ issued' = issued \cup {i}

InvokeRate(c) ==
  \E i \in Ids, up \in BOOLEAN :
    /\ \A n \in Rating(i) : n + InFlight("rate", i) < MaxVotes
    /\ Invoke(c, [NoRequest EXCEPT !.op = "rate", !.target = i, !.up = up], "begin")
    /\ UNCHANGED issued

InvokeDelete(c) ==
  \E i \in Ids :
    /\ Invoke(c, [NoRequest EXCEPT !.op = "delete", !.target = i], "begin")
    /\ UNCHANGED issued

InvokeGet(c) ==
  \E i \in Ids :
    /\ \A n \in Reads(i) : n + InFlight("get", i) < MaxReads
    /\ Invoke(c, [NoRequest EXCEPT !.target = i], "read")
    /\ UNCHANGED issued

-----------------------------------------------------------------------------
(* The transaction: WithinTx begins it, runs the use-case, then commits,   *)
(* or rolls back on the first error.                                       *)

(* NewMemory validates before the transaction opens; its rules are         *)
(* represented by one, a memory has at least one keyword.                  *)
Valid(r) == r.op = "store" => r.keywords # {}

RejectInvalid(c) ==
  /\ pc[c] = "begin" /\ ~Valid(req[c])
  /\ Reply(c, "no_keywords")
  /\ UNCHANGED <<db, writer, work, req, agg, issued, history>>

Begin_WithoutLock(c) ==
  /\ pc[c] = "begin" /\ Valid(req[c])
  /\ writer' = c /\ work' = db
  /\ Goto(c, "load")
  /\ UNCHANGED <<db, req, agg, reply, issued, history>>

Begin(c) ==
  /\ pc[c] = "begin" /\ Valid(req[c])
  /\ writer = NoCaller
  /\ writer' = c /\ work' = db
  /\ IF req[c].target = NoId
     THEN /\ agg' = [agg EXCEPT ![c] = NewMemory(req[c].id, req[c].keywords)]
          /\ Goto(c, "save")
     ELSE Goto(c, "load") /\ UNCHANGED agg
  /\ UNCHANGED <<db, req, reply, issued, history>>

Busy_WaitForever(c) == FALSE

(* busy_timeout ran out while another transaction held the lock.           *)
Busy(c) ==
  /\ pc[c] = "begin" /\ Valid(req[c])
  /\ writer # NoCaller
  /\ Reply(c, "error")
  /\ UNCHANGED <<db, writer, work, req, agg, issued, history>>

Rollback_LockKept(c, answer) ==
  /\ work' = EmptyDb
  /\ agg' = [agg EXCEPT ![c] = NoRow]
  /\ Reply(c, answer)
  /\ UNCHANGED <<db, writer, req, issued, history>>

(* The transaction ends without effect.                                    *)
Rollback(c, answer) ==
  /\ writer' = NoCaller
  /\ work' = EmptyDb
  /\ agg' = [agg EXCEPT ![c] = NoRow]
  /\ Reply(c, answer)
  /\ UNCHANGED <<db, req, issued, history>>

LoadMissing(c) ==
  /\ pc[c] = "load"
  /\ ~Present(work, req[c].target)
  /\ Rollback(c, "not_found")

(* Rate and MarkSuperseded refuse a memory that is already superseded.     *)
LoadSuperseded(c) ==
  /\ pc[c] = "load" /\ req[c].op \in {"store", "rate"}
  /\ \E k \in PkOf(work, req[c].target) : work.memories[k].superseded_by # NoId
  /\ Rollback(c, "superseded")

LoadForUpdate_Unchecked(c) ==
  /\ pc[c] = "load" /\ req[c].op \in {"store", "rate"}
  /\ \E k \in PkOf(work, req[c].target) :
       LET m == Restore(work.memories[k]) IN
       agg' = [agg EXCEPT ![c] = IF req[c].op = "rate" THEN Rated(m, req[c].up)
                                                       ELSE SupersededBy(m, req[c].id)]
  /\ Goto(c, "save")
  /\ UNCHANGED <<db, writer, work, req, reply, issued, history>>

LoadForUpdate(c) ==
  /\ pc[c] = "load" /\ req[c].op \in {"store", "rate"}
  /\ \E k \in PkOf(work, req[c].target) :
       LET m == Restore(work.memories[k]) IN
       /\ m.superseded_by = NoId
       /\ agg' = [agg EXCEPT ![c] = IF req[c].op = "rate" THEN Rated(m, req[c].up)
                                                           ELSE SupersededBy(m, req[c].id)]
  /\ Goto(c, "save")
  /\ UNCHANGED <<db, writer, work, req, reply, issued, history>>

LoadForDelete(c) ==
  /\ pc[c] = "load" /\ req[c].op = "delete"
  /\ Present(work, req[c].target)
  /\ Goto(c, "unmirror")
  /\ UNCHANGED <<db, writer, work, req, agg, reply, issued, history>>

(* MemoryRepository.Save, first statement: INSERT ... ON CONFLICT UPDATE.  *)
SaveInsert(c) ==
  /\ pc[c] = "save" /\ ~Present(work, agg[c].id)
  /\ \E k \in Pks : IsNextPk(work, k) /\ work' = InsertRow(work, k, agg[c])
  /\ Goto(c, "mirror")
  /\ UNCHANGED <<db, writer, req, agg, reply, issued, history>>

SaveUpdate(c) ==
  /\ pc[c] = "save"
  /\ \E k \in PkOf(work, agg[c].id) : work' = UpdateRow(work, k, Upserted(work.memories[k], agg[c]))
  /\ Goto(c, "mirror")
  /\ UNCHANGED <<db, writer, req, agg, reply, issued, history>>

SaveKeywords_OldOnly(c) ==
  /\ pc[c] = "mirror"
  /\ \E k \in PkOf(work, agg[c].id) : work' = InsertKeywords(work, k, agg[c].keywords)
  /\ Goto(c, "commit")
  /\ UNCHANGED <<db, writer, req, agg, reply, issued, history>>

(* Save, second part: resolve the pk and INSERT OR IGNORE the keywords.    *)
(* A Store that has saved the memory it corrects goes on to the new one.   *)
SaveKeywords(c) ==
  /\ pc[c] = "mirror"
  /\ \E k \in PkOf(work, agg[c].id) : work' = InsertKeywords(work, k, agg[c].keywords)
  /\ IF req[c].op = "store" /\ agg[c].id # req[c].id
     THEN /\ agg' = [agg EXCEPT ![c] = NewMemory(req[c].id, req[c].keywords)]
          /\ Goto(c, "save")
     ELSE Goto(c, "commit") /\ UNCHANGED agg
  /\ UNCHANGED <<db, writer, req, reply, issued, history>>

(* MemoryRepository.Delete: the mirror rows by pk, then the memory.        *)
RemoveKeywords(c) ==
  /\ pc[c] = "unmirror"
  /\ \E k \in PkOf(work, req[c].target) : work' = DeleteKeywords(work, k)
  /\ Goto(c, "remove")
  /\ UNCHANGED <<db, writer, req, agg, reply, issued, history>>

RemoveMemory(c) ==
  /\ pc[c] = "remove"
  /\ \E k \in PkOf(work, req[c].target) : work' = DeleteRow(work, k)
  /\ Goto(c, "commit")
  /\ UNCHANGED <<db, writer, req, agg, reply, issued, history>>

Commit(c) ==
  /\ pc[c] = "commit"
  /\ db' = work
  /\ writer' = NoCaller /\ work' = EmptyDb
  /\ agg' = [agg EXCEPT ![c] = NoRow]
  /\ Reply(c, "ok")
  /\ deleted' = IF req[c].op = "delete" THEN deleted \cup {req[c].target} ELSE deleted
  /\ corrections' = IF req[c].op = "store" /\ req[c].target # NoId
                    THEN [corrections EXCEPT ![req[c].target] = @ \cup {req[c].id}]
                    ELSE corrections
  /\ UNCHANGED <<req, issued>>

(* Any statement, COMMIT included, may fail (disk full, I/O, a cancelled   *)
(* context): WithinTx rolls back and the use-case returns the error.       *)
StatementFails(c) ==
  /\ pc[c] \in InTx
  /\ Rollback(c, "error")

-----------------------------------------------------------------------------
(* Get: the SELECT, then, outside any transaction, the access-count        *)
(* UPDATE, whose error is dropped.                                         *)

ReadRow(c) ==
  /\ pc[c] = "read"
  /\ IF Present(db, req[c].target)
     THEN Goto(c, "bump") /\ reply' = [reply EXCEPT ![c] = "ok"]
     ELSE Reply(c, "not_found")
  /\ UNCHANGED <<db, writer, work, req, agg, issued, history>>

(* The row may have been deleted since the SELECT: no row is updated.      *)
BumpAccess(c) ==
  /\ pc[c] = "bump"
  /\ writer = NoCaller
  /\ \/ \E k \in PkOf(db, req[c].target) :
          db' = UpdateRow(db, k, [db.memories[k] EXCEPT !.access_count = @ + 1])
     \/ ~Present(db, req[c].target) /\ UNCHANGED db
  /\ Goto(c, "reply")
  /\ UNCHANGED <<writer, work, req, agg, reply, issued, history>>

BumpLost(c) ==
  /\ pc[c] = "bump"
  /\ Goto(c, "reply")
  /\ UNCHANGED <<db, writer, work, req, agg, reply, issued, history>>

ReadFails(c) ==
  /\ pc[c] = "read"
  /\ Reply(c, "error")
  /\ UNCHANGED <<db, writer, work, req, agg, issued, history>>

-----------------------------------------------------------------------------
Reset(c) ==
  /\ Goto(c, "idle")
  /\ req' = [req EXCEPT ![c] = NoRequest]
  /\ reply' = [reply EXCEPT ![c] = "none"]
  /\ UNCHANGED <<db, issued, history>>

Return(c) ==
  /\ pc[c] = "reply"
  /\ Reset(c)
  /\ UNCHANGED <<writer, work, agg>>

(* The process dies: the next opener of the file finds no trace of an      *)
(* uncommitted transaction. After the commit, only the answer is lost.     *)
Crash(c) ==
  /\ pc[c] # "idle"
  /\ Reset(c)
  /\ agg' = [agg EXCEPT ![c] = NoRow]
  /\ IF writer = c THEN writer' = NoCaller /\ work' = EmptyDb
                   ELSE UNCHANGED <<writer, work>>

Call(c) == InvokeStore(c) \/ InvokeRate(c) \/ InvokeDelete(c) \/ InvokeGet(c)

Step(c) ==
  \/ RejectInvalid(c) \/ Begin(c) \/ Busy(c)
  \/ LoadMissing(c) \/ LoadSuperseded(c) \/ LoadForUpdate(c) \/ LoadForDelete(c)
  \/ SaveInsert(c) \/ SaveUpdate(c) \/ SaveKeywords(c)
  \/ RemoveKeywords(c) \/ RemoveMemory(c)
  \/ Commit(c) \/ StatementFails(c)
  \/ ReadRow(c) \/ BumpAccess(c) \/ BumpLost(c) \/ ReadFails(c)
  \/ Return(c)

Next == \E c \in Callers : Call(c) \/ Step(c) \/ Crash(c)

Spec == Init /\ [][Next]_vars

(* A caller that is running keeps running: every blocking point of the     *)
(* code has a way out (the lock, or busy_timeout).                         *)
FairSpec == Spec /\ \A c \in Callers : WF_vars(Step(c))

-----------------------------------------------------------------------------
(* Properties.                                                             *)

Database == [memories : [Pks -> Row \cup {NoRow}],
             memory_keywords : SUBSET (Pks \X Keywords),
             memories_fts : SUBSET (Pks \X Keywords)]

(* Every variable stays in its type.                                       *)
TypeOK ==
  /\ db \in Database /\ work \in Database
  /\ writer \in Callers \cup {NoCaller}
  /\ pc \in [Callers -> Steps]
  /\ req \in [Callers -> Request]
  /\ agg \in [Callers -> Row \cup {NoRow}]
  /\ reply \in [Callers -> Replies]
  /\ issued \in SUBSET Ids /\ deleted \in SUBSET Ids
  /\ corrections \in [Ids -> SUBSET Ids]

(* The postings the keywords columns call for.                             *)
Indexed(d) == {p \in Pks \X Keywords : p[2] \in d.memories[p[1]].keywords}

(* The keyword mirror is exactly what the keywords columns say: a keyword  *)
(* search neither misses a memory nor returns one under the words of a     *)
(* deleted memory whose pk it was assigned (memory_repository.go keeps the *)
(* mirror by hand, with two statements per change).                        *)
MirrorInSync == db.memory_keywords = Indexed(db)

(* The full-text index is exactly what the rows say, through every insert, *)
(* update (votes, supersede, access bump) and delete trigger.              *)
FtsInSync == db.memories_fts = Indexed(db)

(* Both at once, at every commit: what a search finds is what is stored.   *)
IndexesInSync == MirrorInSync /\ FtsInSync

(* A superseded_by link that can be followed leads to a memory stored      *)
(* later (a larger pk): following corrections never goes round in a        *)
(* circle, although pks are reused.                                        *)
ForwardIn(d) ==
  \A j, k \in Used(d) : d.memories[j].superseded_by = d.memories[k].id => j < k

LinksForward == ForwardIn(db)

(* A correction and the mark on the memory it corrects are visible         *)
(* together or not at all; a mark dangles only after a deletion            *)
(* (StoreCommand writes both rows in one transaction).                     *)
CorrectionIsWhole ==
  \A k \in Used(db) :
    /\ db.memories[k].superseded_by # NoId =>
         Present(db, db.memories[k].superseded_by) \/ db.memories[k].superseded_by \in deleted
    /\ \A i \in corrections[db.memories[k].id] : db.memories[k].superseded_by = i

(* "superseded at most once": of all the Stores that correct the same      *)
(* memory, however they interleave, at most one ever succeeds.             *)
OneCorrection == \A i \in Ids : Cardinality(corrections[i]) <= 1

(* A superseded memory is frozen: its link and its votes never change      *)
(* again ("rating a superseded memory is meaningless") until it is deleted.*)
FrozenRow(k) ==
  db.memories[k].superseded_by # NoId =>
    \/ db.memories'[k].id # db.memories[k].id
    \/ [db.memories'[k] EXCEPT !.access_count = 0] = [db.memories[k] EXCEPT !.access_count = 0]

SupersededFrozen == [][\A k \in Pks : FrozenRow(k)]_db

(* Memory by memory, call by call, this is MemoryService: a call takes     *)
(* effect at its COMMIT (a refusal at its SELECT), whole, once, or never.  *)
RowView(row) == [present |-> TRUE, keywords |-> row.keywords, superseded_by |-> row.superseded_by,
                 votes_up |-> row.votes_up, votes_down |-> row.votes_down,
                 access_count |-> row.access_count]

NoView == [present |-> FALSE, keywords |-> {}, superseded_by |-> NoId,
           votes_up |-> 0, votes_down |-> 0, access_count |-> 0]

Phase(c) ==
  CASE pc[c] = "idle" -> "idle"
    [] pc[c] = "bump" -> "performed"
    [] pc[c] = "reply" -> IF req[c].op = "get" /\ reply[c] = "ok" THEN "counted" ELSE "performed"
    [] OTHER -> "invoked"

(* The memories by id, and what each caller waits for.                     *)
View(d) == [i \in Ids |-> IF Present(d, i)
                          THEN RowView(d.memories[CHOOSE k \in PkOf(d, i) : TRUE])
                          ELSE NoView]

CallView == [c \in Callers |-> [phase |-> Phase(c), req |-> req[c], reply |-> reply[c]]]

Service == INSTANCE MemoryService WITH memories <- View(db), call <- CallView

ImplementsService == Service!Spec

(* A call is answered, or its process dies: no interleaving of             *)
(* transactions leaves a caller waiting for ever.                          *)
CallsAnswered == \A c \in Callers : pc[c] # "idle" ~> pc[c] = "idle"

(* Whatever becomes of the transaction that holds it, the write lock is    *)
(* free again.                                                             *)
LockReleased == writer # NoCaller ~> writer = NoCaller

-----------------------------------------------------------------------------
(* The inductive invariant behind the index and link invariants.           *)

(* An id names at most one row.                                            *)
UniqueIn(d) == \A j, k \in Used(d) : d.memories[j].id = d.memories[k].id => j = k

Sound(d) == UniqueIn(d) /\ ForwardIn(d) /\ d.memories_fts = Indexed(d)

Synced(d) == d.memory_keywords = Indexed(d)

(* Between two statements of a transaction the mirror lags behind the rows *)
(* by keywords of one memory only, the one being saved or removed.         *)
Lagging(d, i) ==
  /\ d.memory_keywords \subseteq Indexed(d)
  /\ \A p \in Indexed(d) \ d.memory_keywords : d.memories[p[1]].id = i

LockInv == \A c \in Callers : pc[c] \in InTx <=> writer = c

RequestOK(c) ==
  /\ req[c].op = "store" => req[c].id \in Ids /\ req[c].target # req[c].id
  /\ req[c].op # "store" => req[c].id = NoId
  /\ pc[c] # "idle" /\ req[c].op # "store" => req[c].target \in Ids

(* The id of a Store in progress is in no committed row and in no other    *)
(* Store in progress.                                                      *)
Storing(c) == req[c].op = "store" /\ pc[c] \notin {"idle", "reply"}

FreshIds ==
  /\ \A k \in Used(db) : db.memories[k].id \in issued
  /\ \A c \in Callers : Storing(c) => req[c].id \in issued /\ ~Present(db, req[c].id)
  /\ \A b, c \in Callers : Storing(b) /\ Storing(c) /\ req[b].id = req[c].id => b = c

(* The aggregate in hand is the new memory, or the loaded one with its     *)
(* link set to the new memory (Store) or with one more vote (Rate).        *)
AggregateOK(c) ==
  /\ agg[c] \in Row
  /\ agg[c].superseded_by \in {NoId, req[c].id} \ {agg[c].id}
  /\ \A k \in PkOf(work, agg[c].id) : work.memories[k].keywords = agg[c].keywords

TransactionOK(c) ==
  /\ Sound(work)
  /\ \A k \in Used(work) : Present(db, work.memories[k].id) \/ work.memories[k].id = req[c].id
  /\ pc[c] \in {"load", "save", "unmirror", "commit"} => Synced(work)
  /\ pc[c] \in {"load", "save"} => ~Present(work, req[c].id)
  /\ pc[c] \in {"save", "mirror"} => AggregateOK(c)
  /\ pc[c] = "save" => agg[c].id = req[c].id \/ Present(work, agg[c].id)
  /\ pc[c] = "mirror" => /\ Lagging(work, agg[c].id)
                         /\ agg[c].id # req[c].id => ~Present(work, req[c].id)
  /\ pc[c] = "remove" => /\ Lagging(work, req[c].target)
                         /\ \A p \in work.memory_keywords :
                              work.memories[p[1]].id # req[c].target

IInv ==
  /\ TypeOK
  /\ LockInv
  /\ \A c \in Callers : RequestOK(c)
  /\ FreshIds
  /\ Sound(db) /\ Synced(db)
  /\ \A c \in Callers : writer = c => TransactionOK(c)
=============================================================================
