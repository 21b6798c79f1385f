----------------------------- MODULE Migrations -----------------------------
(***************************************************************************)
(* The schema migrations 0001 to 0005 as functions from one database to    *)
(* the next, and what a release of recall writes at each version.          *)
(*                                                                         *)
(* A database is its schema version, the rows of memories, the keyword     *)
(* mirror and the full-text postings. The mirror names a memory by its id  *)
(* at version 2 and by its pk (the rowid) from version 3 on; a posting is  *)
(* the rowid and the text indexed under it, of which the keywords are the  *)
(* part a migration touches. Times are natural numbers, Hour of them make  *)
(* an hour.                                                                *)
(***************************************************************************)
EXTENDS Integers, FiniteSets

CONSTANTS
  Ids,     \* ids of memories
  Words,   \* keywords that are not tags
  Kinds,   \* values of the old column kind
  Hour,    \* clock units in an hour
  Month,   \* what a memory without a lifetime gets at 0004
  Null     \* SQL's NULL, and the kind of a row that has none

ASSUME MigrationsAssumption ==
  /\ Hour \in Nat \ {0} /\ Month \in Nat /\ Month >= Hour
  /\ Null \notin Nat /\ Null \notin Kinds

Versions == 0..5

(* The keyword kind:k, as 0005 writes it and agents may have before.       *)
Tag(k) == [kind |-> k]
Tags == {Tag(k) : k \in Kinds}
Keyword == Words \cup Tags

Row == [pk : Nat, id : Ids, kind : Kinds \cup {Null}, keywords : SUBSET Keyword,
        created : Nat, expires : Nat \cup {Null}]

Database == [version : Versions, rows : SUBSET Row,
             mirror : SUBSET (Keyword \X (Ids \cup Nat)), fts : SUBSET (Nat \X SUBSET Keyword)]

(* A file that nobody has opened yet.                                      *)
NoDatabase == [version |-> 0, rows |-> {}, mirror |-> {}, fts |-> {}]

(* The name of a row in the mirror.                                        *)
MirrorKey(version, r) == IF version < 3 THEN r.id ELSE r.pk

(* 0002 and 0003 fill the mirror from the packed keywords of every row.    *)
Split(version, rows) ==
  UNION {{<<kw, MirrorKey(version, r)>> : kw \in r.keywords} : r \in rows}

Posting(r) == <<r.pk, r.keywords>>

-----------------------------------------------------------------------------
CreateMemories(db) == [NoDatabase EXCEPT !.version = 1]

AddMirror(db) ==
  [db EXCEPT !.version = 2, !.mirror = Split(2, db.rows)]

(* The rows under rowids without gaps, in the same order.                  *)
Renumbered(rows) == {[r EXCEPT !.pk = Cardinality({s \in rows : s.pk <= r.pk})] : r \in rows}

(* A plausible mistake: the rebuilt table hands out pks of its own.        *)
IntegerPk_Renumbered(db) ==
  LET rows == Renumbered(db.rows)
  IN  [db EXCEPT !.version = 3, !.rows = rows, !.mirror = Split(3, rows)]

(* pk is copied from the rowid, so postings stay valid; the mirror is      *)
(* dropped and filled again by pk.                                         *)
IntegerPk(db) ==
  [db EXCEPT !.version = 3, !.mirror = Split(3, db.rows)]

(* A plausible mistake: the month counts from the memory's creation.       *)
Bounded_FromCreation(r, now) ==
  IF r.expires = Null THEN [r EXCEPT !.expires = r.created + Month] ELSE r

(* A row that never expired lives for a month from now, in whole hours     *)
(* after its creation and at least one.                                    *)
Bounded(r, now) ==
  LET hours == (now + Month - r.created) \div Hour
      ttl   == IF hours < 1 THEN 1 ELSE hours
  IN  IF r.expires = Null THEN [r EXCEPT !.expires = r.created + ttl * Hour] ELSE r

RequireTTL(db, now) ==
  [db EXCEPT !.version = 4, !.rows = {Bounded(r, now) : r \in db.rows}]

(* keywords NOT LIKE '% kind:%': a row that carries any tag keeps what it  *)
(* says; the column is gone afterwards.                                    *)
Folded(r) ==
  [r EXCEPT !.kind = Null,
            !.keywords = IF r.kind # Null /\ r.keywords \cap Tags = {}
                         THEN r.keywords \cup {Tag(r.kind)} ELSE r.keywords]

(* The update trigger takes the old posting out and puts the new one in;   *)
(* the mirror gets the tag of every row, retagged or not.                  *)
FoldKind(db) ==
  [db EXCEPT !.version = 5,
             !.rows = {Folded(r) : r \in db.rows},
             !.mirror = db.mirror \cup {<<Tag(r.kind), r.pk>> : r \in {s \in db.rows : s.kind # Null}},
             !.fts  = (db.fts \ {Posting(r) : r \in db.rows}) \cup {Posting(Folded(r)) : r \in db.rows}]

(* The next migration a database has not seen (schema_migrations).         *)
Migrated(db, now) ==
  CASE db.version = 0 -> CreateMemories(db)
    [] db.version = 1 -> AddMirror(db)
    [] db.version = 2 -> IntegerPk(db)
    [] db.version = 3 -> RequireTTL(db, now)
    [] db.version = 4 -> FoldKind(db)

-----------------------------------------------------------------------------
(* What a release writes into a database of its own version. The rowid of  *)
(* a new row is one above the largest in use. Releases before 0002 know no *)
(* mirror; the triggers keep the postings.                                 *)
IsNewPk(db, pk) ==
  IF db.rows = {} THEN pk = 1
  ELSE /\ \A r \in db.rows : r.pk < pk
       /\ \E r \in db.rows : r.pk + 1 = pk

Inserted(db, r) ==
  [db EXCEPT !.rows = @ \cup {r},
             !.fts  = @ \cup {Posting(r)},
             !.mirror = IF db.version < 2 THEN @ ELSE @ \cup Split(db.version, {r})]

Deleted(db, r) ==
  [db EXCEPT !.rows = @ \ {r},
             !.fts  = @ \ {Posting(r)},
             !.mirror = {m \in @ : m[2] # MirrorKey(db.version, r)}]
=============================================================================
