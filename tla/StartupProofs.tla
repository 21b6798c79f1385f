--------------------------- MODULE StartupProofs ----------------------------
(***************************************************************************)
(* Theorems about Startup: for any number of processes, files and          *)
(* memories, any releases, endpoints and environments. The invariant has   *)
(* three parts: the files (DbInv), what a process knows of its file        *)
(* (ProcInv), and remote.json (ConfigInv).                                 *)
(***************************************************************************)
EXTENDS Startup, FiniteSetTheorems, TLAPS

-----------------------------------------------------------------------------
(***************************************************************************)
(* What each migration, insertion and deletion keeps of a database, for    *)
(* any rows, keywords and kinds: that it is sound, that the indexes follow *)
(* the rows, and that a memory that was stored can be found.               *)
(***************************************************************************)
Unique(rows) == \A r, s \in rows : r.pk = s.pk \/ r.id = s.id => r = s

Columns(version, r) ==
  /\ r.kind = Null <=> version = 5
  /\ version >= 4 => r.expires # Null

Sound(d) ==
  /\ d \in Database
  /\ IsFiniteSet(d.rows)
  /\ Unique(d.rows)
  /\ \A r \in d.rows : Columns(d.version, r)
  /\ d.version = 0 => d.rows = {}

(* The tag that 0005 added to the mirror alone.                            *)
Leftover(d, m) ==
  /\ d.version = 5 /\ m[1] \in Tags
  /\ \E r \in d.rows : r.pk = m[2] /\ r.keywords \cap Tags # {}

MirrorFollows(d) ==
  /\ Split(d.version, d.rows) \subseteq d.mirror
  /\ \A m \in d.mirror \ Split(d.version, d.rows) : Leftover(d, m)

Follows(d) ==
  /\ d.fts = {Posting(r) : r \in d.rows}
  /\ d.version >= 2 => MirrorFollows(d)

-----------------------------------------------------------------------------
(* Whole hours.                                                            *)
LEMMA WholeHours ==
  ASSUME NEW x \in Nat
  PROVE  /\ x \div Hour \in Nat
         /\ (x \div Hour) * Hour <= x
         /\ x < (x \div Hour) * Hour + Hour
<1>1. Hour \in Nat /\ Hour > 0
  BY MigrationsAssumption
<1>2. x = Hour * (x \div Hour) + (x % Hour) /\ x % Hour \in 0..(Hour - 1) /\ x \div Hour \in Int
  BY <1>1
<1> QED BY <1>1, <1>2

(* The lifetime 0004 gives: whole hours after the creation, at most a      *)
(* month from now and less than an hour short of it.                       *)
LEMMA BoundedRow ==
  ASSUME NEW r \in Row, NEW time \in Nat, r.created <= time
  PROVE  LET b == Bounded(r, time)
         IN  /\ b \in Row
             /\ b.pk = r.pk /\ b.id = r.id /\ b.kind = r.kind /\ b.keywords = r.keywords
             /\ b.created = r.created
             /\ r.expires # Null => b = r
             /\ r.expires = Null => /\ b.expires \in Nat
                                    /\ b.expires > time + Month - Hour
                                    /\ b.expires <= time + Month
<1> DEFINE x == time + Month - r.created
           hours == x \div Hour
           ttl == IF hours < 1 THEN 1 ELSE hours
<1>1. /\ x \in Nat /\ Hour \in Nat /\ Month \in Nat /\ Hour > 0
      /\ x >= Month /\ Month >= Hour /\ r.created \in Nat
  BY MigrationsAssumption DEF Row
<1>2. hours \in Nat /\ hours * Hour <= x /\ x < hours * Hour + Hour
  BY <1>1, WholeHours
<1>3. ttl = hours
  <2>1. hours = 0 => x < Hour
    <3> HIDE DEF x, hours
    <3> SUFFICES ASSUME hours = 0 PROVE x < Hour
      OBVIOUS
    <3>1. x < 0 * Hour + Hour
      BY <1>2
    <3> QED BY <1>1, <3>1
  <2> HIDE DEF x, hours
  <2> QED BY <1>1, <1>2, <2>1
<1>4. CASE r.expires = Null
  <2>1. Bounded(r, time) = [r EXCEPT !.expires = r.created + hours * Hour]
    BY <1>3, <1>4 DEF Bounded
  <2>2. hours * Hour \in Nat
    BY <1>1, <1>2
  <2>3. PICK y \in Nat : y = hours * Hour
    BY <2>2
  <2>4. /\ r.created + y > time + Month - Hour
        /\ r.created + y <= time + Month
        /\ r.created + y \in Nat
    BY <1>1, <1>2, <2>3
  <2> HIDE DEF hours, x
  <2> QED BY <1>4, <2>1, <2>3, <2>4 DEF Row
<1>5. CASE r.expires # Null
  BY <1>5 DEF Bounded
<1> QED BY <1>4, <1>5

LEMMA FoldedRow ==
  ASSUME NEW r \in Row
  PROVE  /\ Folded(r) \in Row
         /\ Folded(r).pk = r.pk /\ Folded(r).id = r.id
         /\ Folded(r).created = r.created /\ Folded(r).expires = r.expires
         /\ Folded(r).kind = Null
         /\ r.keywords \subseteq Folded(r).keywords
         /\ r.kind # Null /\ r.keywords \cap Tags = {} =>
              Folded(r).keywords = r.keywords \cup {Tag(r.kind)}
         /\ ~(r.kind # Null /\ r.keywords \cap Tags = {}) => Folded(r).keywords = r.keywords
<1>1. r.kind # Null => Tag(r.kind) \in Keyword
  BY DEF Row, Keyword, Tags
<1> HIDE DEF Tag
<1> QED BY <1>1 DEF Folded, Row

(* The image of a finite set under a function is finite.                   *)
LEMMA FiniteImage ==
  ASSUME NEW S, IsFiniteSet(S), NEW f, f \in [S -> {f[s] : s \in S}]
  PROVE  IsFiniteSet({f[s] : s \in S})
<1>1. f \in Surjection(S, {f[s] : s \in S})
  BY DEF Surjection
<1> QED BY <1>1, FS_Surjection

SameButPk(r, s) ==
  /\ r.id = s.id /\ r.kind = s.kind /\ r.keywords = s.keywords
  /\ r.created = s.created /\ r.expires = s.expires

(* VACUUM keeps rows apart.                                                *)
LEMMA RenumberedRows ==
  ASSUME NEW rows, rows \subseteq Row, IsFiniteSet(rows), Unique(rows)
  PROVE  /\ Renumbered(rows) \subseteq Row
         /\ IsFiniteSet(Renumbered(rows))
         /\ Unique(Renumbered(rows))
         /\ \A r \in Renumbered(rows) : \E s \in rows : SameButPk(r, s)
         /\ \A s \in rows : \E r \in Renumbered(rows) : SameButPk(r, s)
<1> DEFINE Upto(r) == {s \in rows : s.pk <= r.pk}
           Pk(r) == Cardinality(Upto(r))
           New(r) == [r EXCEPT !.pk = Pk(r)]
<1>1. \A r \in rows : IsFiniteSet(Upto(r)) /\ Pk(r) \in Nat
  <2> TAKE r \in rows
  <2>1. Upto(r) \in SUBSET rows
    OBVIOUS
  <2>2. IsFiniteSet(Upto(r))
    BY <2>1, FS_Subset
  <2> QED BY <2>2, FS_CardinalityType
<1>2. \A r, s \in rows : Pk(r) = Pk(s) => r = s
  <2> SUFFICES ASSUME NEW r \in rows, NEW s \in rows, Pk(r) = Pk(s), r.pk <= s.pk
               PROVE  r = s
    BY DEF Row
  <2>1. Upto(r) \in SUBSET Upto(s)
    BY DEF Row
  <2>2. Upto(r) = Upto(s)
    BY <1>1, <2>1, FS_Subset
  <2>3. s.pk <= r.pk
    BY <2>2 DEF Row
  <2> QED BY <2>3 DEF Row, Unique
<1>3. Renumbered(rows) = {New(r) : r \in rows}
  BY DEF Renumbered
<1>4. \A r \in rows : New(r) \in Row /\ New(r).pk = Pk(r) /\ New(r).id = r.id
  <2> HIDE DEF Pk
  <2> QED BY <1>1 DEF Row
<1> HIDE DEF Pk
<1>5. Renumbered(rows) \subseteq Row
  BY <1>3, <1>4
<1>6. Unique(Renumbered(rows))
  <2> SUFFICES ASSUME NEW r \in rows, NEW s \in rows,
                      New(r).pk = New(s).pk \/ New(r).id = New(s).id
               PROVE  New(r) = New(s)
    BY <1>3 DEF Unique
  <2> QED BY <1>2, <1>4 DEF Unique
<1>7. IsFiniteSet(Renumbered(rows))
  <2> DEFINE f == [r \in rows |-> New(r)]
  <2>1. Renumbered(rows) = {f[r] : r \in rows}
    BY <1>3
  <2>2. f \in [rows -> {f[r] : r \in rows}]
    OBVIOUS
  <2> HIDE DEF f
  <2> QED BY <2>1, <2>2, FiniteImage
<1>8. \A r \in rows : New(r) \in Renumbered(rows) /\ SameButPk(New(r), r)
  BY <1>1, <1>3 DEF Row, SameButPk
<1> HIDE DEF New
<1> QED BY <1>3, <1>5, <1>6, <1>7, <1>8

(* An UPDATE of every row that touches neither pk nor id.                  *)
LEMMA RewrittenRows ==
  ASSUME NEW rows, rows \subseteq Row, IsFiniteSet(rows), Unique(rows), NEW f,
         f \in [rows -> Row], \A r \in rows : f[r].pk = r.pk /\ f[r].id = r.id
  PROVE  LET new == {f[r] : r \in rows}
         IN  new \subseteq Row /\ IsFiniteSet(new) /\ Unique(new)
<1>1. {f[r] : r \in rows} \subseteq Row
  OBVIOUS
<1>2. IsFiniteSet({f[r] : r \in rows})
  <2>1. f \in [rows -> {f[r] : r \in rows}]
    OBVIOUS
  <2> QED BY <2>1, FiniteImage
<1>3. Unique({f[r] : r \in rows})
  BY DEF Unique
<1> QED BY <1>1, <1>2, <1>3

LEMMA SplitType ==
  ASSUME NEW version, NEW rows, rows \subseteq Row
  PROVE  Split(version, rows) \subseteq Keyword \X (Ids \cup Nat)
BY DEF Split, MirrorKey, Row

-----------------------------------------------------------------------------
(* The migrations, one by one, keep a database sound.                      *)
LEMMA AddMirrorSound ==
  ASSUME NEW d, Sound(d), d.version = 1
  PROVE  Sound(AddMirror(d)) /\ AddMirror(d).version = 2 /\ AddMirror(d).rows = d.rows
<1>1. Split(2, d.rows) \subseteq Keyword \X (Ids \cup Nat)
  BY SplitType DEF Sound, Database
<1>2. /\ AddMirror(d).version = 2 /\ AddMirror(d).rows = d.rows
      /\ AddMirror(d).mirror = Split(2, d.rows) /\ AddMirror(d).fts = d.fts
  BY DEF AddMirror, Sound, Database
<1>3. AddMirror(d) \in Database
  <2>1. 2 \in Versions /\ d \in Database
    BY DEF Versions, Sound
  <2> QED BY <1>1, <2>1 DEF AddMirror, Database
<1> QED BY <1>2, <1>3 DEF Sound, Columns

LEMMA IntegerPkSound ==
  ASSUME NEW d, Sound(d), d.version = 2
  PROVE  Sound(IntegerPk(d)) /\ IntegerPk(d).version = 3 /\ IntegerPk(d).rows = d.rows
<1>1. Split(3, d.rows) \subseteq Keyword \X (Ids \cup Nat)
  BY SplitType DEF Sound, Database
<1>2. /\ IntegerPk(d).version = 3 /\ IntegerPk(d).rows = d.rows
      /\ IntegerPk(d).mirror = Split(3, d.rows) /\ IntegerPk(d).fts = d.fts
  BY DEF IntegerPk, Sound, Database
<1>3. IntegerPk(d) \in Database
  <2>1. 3 \in Versions /\ d \in Database
    BY DEF Versions, Sound
  <2> QED BY <1>1, <2>1 DEF IntegerPk, Database
<1> QED BY <1>2, <1>3 DEF Sound, Columns

LEMMA RequireTTLSound ==
  ASSUME NEW d, Sound(d), d.version = 3, NEW time \in Nat, \A r \in d.rows : r.created <= time
  PROVE  LET e == RequireTTL(d, time)
         IN  /\ Sound(e) /\ e.version = 4
             /\ e.rows = {Bounded(r, time) : r \in d.rows} /\ e.mirror = d.mirror /\ e.fts = d.fts
<1> DEFINE e == RequireTTL(d, time)
           f == [r \in d.rows |-> Bounded(r, time)]
<1>1. \A r \in d.rows : /\ f[r] \in Row /\ f[r].pk = r.pk /\ f[r].id = r.id
                        /\ f[r].kind = r.kind /\ f[r].expires # Null
  BY BoundedRow, MigrationsAssumption DEF Sound, Database
<1>2. e.rows = {f[r] : r \in d.rows} /\ e.version = 4 /\ e.mirror = d.mirror /\ e.fts = d.fts
  BY DEF RequireTTL, Sound, Database
<1>3. f \in [d.rows -> Row]
  BY <1>1
<1> HIDE DEF f
<1>4. e.rows \subseteq Row /\ IsFiniteSet(e.rows) /\ Unique(e.rows)
  BY <1>1, <1>2, <1>3, RewrittenRows DEF Sound, Database
<1>5. e \in Database
  <2>1. {Bounded(r, time) : r \in d.rows} \subseteq Row
    BY BoundedRow, MigrationsAssumption DEF Sound, Database
  <2>2. 4 \in Versions /\ d \in Database
    BY DEF Versions, Sound
  <2> QED BY <2>1, <2>2 DEF RequireTTL, Database
<1>6. \A r \in e.rows : Columns(4, r)
  BY <1>1, <1>2 DEF Sound, Columns
<1>7. e.rows = {Bounded(r, time) : r \in d.rows}
  BY DEF RequireTTL, Sound, Database
<1>8. Sound(e)
  BY <1>2, <1>4, <1>5, <1>6 DEF Sound
<1> QED BY <1>2, <1>7, <1>8

LEMMA FoldKindSound ==
  ASSUME NEW d, Sound(d), d.version = 4
  PROVE  LET e == FoldKind(d)
         IN  /\ Sound(e) /\ e.version = 5
             /\ e.rows = {Folded(r) : r \in d.rows}
             /\ e.mirror = d.mirror \cup {<<Tag(r.kind), r.pk>> : r \in {s \in d.rows : s.kind # Null}}
             /\ e.fts = (d.fts \ {Posting(r) : r \in d.rows}) \cup {Posting(Folded(r)) : r \in d.rows}
<1> DEFINE e == FoldKind(d)
           f == [r \in d.rows |-> Folded(r)]
<1>1. \A r \in d.rows : /\ f[r] \in Row /\ f[r].pk = r.pk /\ f[r].id = r.id
                        /\ f[r].kind = Null /\ f[r].expires = r.expires
  BY FoldedRow DEF Sound, Database
<1>2. /\ e.rows = {Folded(r) : r \in d.rows} /\ e.version = 5
      /\ e.mirror = d.mirror \cup {<<Tag(r.kind), r.pk>> : r \in {s \in d.rows : s.kind # Null}}
      /\ e.fts = (d.fts \ {Posting(r) : r \in d.rows}) \cup {Posting(Folded(r)) : r \in d.rows}
  BY DEF FoldKind, Sound, Database
<1>3. f \in [d.rows -> Row]
  BY <1>1
<1>4. e.rows = {f[r] : r \in d.rows}
  BY <1>2
<1> HIDE DEF f
<1>5. e.rows \subseteq Row /\ IsFiniteSet(e.rows) /\ Unique(e.rows)
  <2>1. d.rows \subseteq Row /\ IsFiniteSet(d.rows) /\ Unique(d.rows)
    BY DEF Sound, Database
  <2>2. LET new == {f[r] : r \in d.rows} IN new \subseteq Row /\ IsFiniteSet(new) /\ Unique(new)
    BY <1>1, <1>3, <2>1, RewrittenRows
  <2> QED BY <1>4, <2>2
<1>6. e.mirror \subseteq Keyword \X (Ids \cup Nat)
  <2>1. \A r \in d.rows : r.kind # Null => Tag(r.kind) \in Keyword
    BY DEF Sound, Database, Row, Keyword, Tags
  <2> HIDE DEF Tag
  <2> QED BY <1>2, <2>1 DEF Sound, Database, Row
<1>7. e.fts \subseteq Nat \X SUBSET Keyword
  <2>1. \A r \in d.rows : Posting(Folded(r)) \in Nat \X SUBSET Keyword
    BY FoldedRow DEF Posting, Sound, Database, Row
  <2> HIDE DEF Posting
  <2> QED BY <1>2, <2>1 DEF Sound, Database
<1>8. e \in Database
  <2>1. {Folded(r) : r \in d.rows} \subseteq Row
    BY FoldedRow DEF Sound, Database
  <2>2. 5 \in Versions /\ d \in Database
    BY DEF Versions, Sound
  <2>3. FoldKind(d) = [d EXCEPT !.version = 5, !.rows = {Folded(r) : r \in d.rows},
                                !.mirror = e.mirror, !.fts = e.fts]
    BY <1>2 DEF FoldKind
  <2> QED BY <1>6, <1>7, <2>1, <2>2, <2>3 DEF Database
<1>9. \A r \in e.rows : Columns(5, r)
  BY <1>1, <1>4 DEF Sound, Columns
<1> QED BY <1>2, <1>5, <1>8, <1>9 DEF Sound

LEMMA MigratedSound ==
  ASSUME NEW d, Sound(d), d.version < 5, NEW time \in Nat, \A r \in d.rows : r.created <= time
  PROVE  LET e == Migrated(d, time)
         IN  /\ Sound(e) /\ e.version = d.version + 1
             /\ \A r \in e.rows : r.created <= time
<1>0. d.version \in 0..5
  BY DEF Sound, Database, Versions
<1>1. CASE d.version = 0
  <2>1. Migrated(d, time) = [version |-> 1, rows |-> {}, mirror |-> {}, fts |-> {}]
    <3>1. Migrated(d, time) = CreateMemories(d)
      BY <1>1 DEF Migrated
    <3>2. CreateMemories(d) = [version |-> 1, rows |-> {}, mirror |-> {}, fts |-> {}]
      BY DEF CreateMemories, NoDatabase
    <3> QED BY <3>1, <3>2
  <2> QED BY <1>1, <2>1, FS_EmptySet DEF Sound, Database, Versions, Unique
<1>2. CASE d.version = 1
  BY <1>2, AddMirrorSound DEF Migrated
<1>3. CASE d.version = 2
  BY <1>3, IntegerPkSound DEF Migrated
<1>4. CASE d.version = 3
  <2>1. \A r \in d.rows : Bounded(r, time).created = r.created
    BY BoundedRow DEF Sound, Database
  <2> QED BY <1>4, <2>1, RequireTTLSound DEF Migrated
<1>5. CASE d.version = 4
  <2>1. \A r \in d.rows : Folded(r).created = r.created
    BY FoldedRow DEF Sound, Database
  <2> QED BY <1>5, <2>1, FoldKindSound DEF Migrated
<1> QED BY <1>0, <1>1, <1>2, <1>3, <1>4, <1>5

-----------------------------------------------------------------------------
(* The migrations, one by one, keep postings and mirror with the rows.     *)
LEMMA SplitOf ==
  ASSUME NEW version, NEW rows, NEW kw, NEW key
  PROVE  <<kw, key>> \in Split(version, rows) <=>
           \E r \in rows : kw \in r.keywords /\ key = MirrorKey(version, r)
BY DEF Split

(* Before 0005 the mirror says no more than the rows.                      *)
LEMMA ExactMirror ==
  ASSUME NEW d, Follows(d), d.version \in 2..4
  PROVE  d.mirror = Split(d.version, d.rows)
<1>1. MirrorFollows(d)
  BY DEF Follows
<1>2. \A m : ~Leftover(d, m)
  BY DEF Leftover
<1> QED BY <1>1, <1>2 DEF MirrorFollows

LEMMA MigratedIndexes ==
  ASSUME NEW d, Sound(d), Follows(d), d.version < 4, NEW time \in Nat,
         \A r \in d.rows : r.created <= time
  PROVE  Follows(Migrated(d, time))
<1>0. d.version \in 0..3
  BY DEF Sound, Database, Versions
<1>1. CASE d.version = 0
  <2>1. Migrated(d, time) = [version |-> 1, rows |-> {}, mirror |-> {}, fts |-> {}]
    <3>1. Migrated(d, time) = CreateMemories(d)
      BY <1>1 DEF Migrated
    <3>2. CreateMemories(d) = [version |-> 1, rows |-> {}, mirror |-> {}, fts |-> {}]
      BY DEF CreateMemories, NoDatabase
    <3> QED BY <3>1, <3>2
  <2> QED BY <2>1 DEF Follows
<1>2. CASE d.version = 1
  <2>1. /\ AddMirror(d).version = 2 /\ AddMirror(d).rows = d.rows
        /\ AddMirror(d).mirror = Split(2, d.rows) /\ AddMirror(d).fts = d.fts
    BY DEF AddMirror, Sound, Database
  <2> QED BY <1>2, <2>1 DEF Migrated, Follows, MirrorFollows
<1>3. CASE d.version = 2
  <2>1. /\ IntegerPk(d).version = 3 /\ IntegerPk(d).rows = d.rows
        /\ IntegerPk(d).mirror = Split(3, d.rows) /\ IntegerPk(d).fts = d.fts
    BY DEF IntegerPk, Sound, Database
  <2> QED BY <1>3, <2>1 DEF Migrated, Follows, MirrorFollows
<1>4. CASE d.version = 3
  <2> DEFINE e == RequireTTL(d, time)
             f == [r \in d.rows |-> Bounded(r, time)]
  <2>1. /\ e.version = 4 /\ e.rows = {Bounded(r, time) : r \in d.rows}
        /\ e.mirror = d.mirror /\ e.fts = d.fts
    BY <1>4, RequireTTLSound
  <2>2. \A r \in d.rows : f[r].pk = r.pk /\ f[r].keywords = r.keywords
    BY BoundedRow DEF Sound, Database
  <2>3. f \in [d.rows -> e.rows] /\ e.rows = {f[r] : r \in d.rows}
    BY <2>1
  <2> HIDE DEF f, e
  <2>4. /\ {Posting(r) : r \in e.rows} = {Posting(r) : r \in d.rows}
        /\ Split(4, e.rows) = Split(3, d.rows)
    BY <2>2, <2>3 DEF Posting, Split, MirrorKey
  <2>5. d.fts = {Posting(r) : r \in d.rows} /\ d.mirror = Split(3, d.rows)
    BY <1>4, ExactMirror DEF Follows
  <2>6. Follows(e)
    BY <2>1, <2>4, <2>5 DEF Follows, MirrorFollows
  <2> QED BY <1>4, <2>6 DEF Migrated, e
<1> QED BY <1>0, <1>1, <1>2, <1>3, <1>4

(* 0005: the update trigger moves every posting; a row without a tag gets  *)
(* its kind in both places, another one in the mirror alone.               *)
LEMMA FoldedIndexes ==
  ASSUME NEW d, Sound(d), Follows(d), d.version = 4
  PROVE  Follows(FoldKind(d))
<1> DEFINE e == FoldKind(d)
           Tagged == {<<Tag(r.kind), r.pk>> : r \in {s \in d.rows : s.kind # Null}}
<1>1. /\ e.version = 5 /\ e.rows = {Folded(r) : r \in d.rows}
      /\ e.mirror = d.mirror \cup Tagged
      /\ e.fts = (d.fts \ {Posting(r) : r \in d.rows}) \cup {Posting(Folded(r)) : r \in d.rows}
  BY FoldKindSound
<1>2. d.fts = {Posting(r) : r \in d.rows} /\ d.mirror = Split(4, d.rows)
  BY ExactMirror DEF Follows
<1>3. \A r \in d.rows : r \in Row
  BY DEF Sound, Database
<1> HIDE DEF e, Tagged
<1>4. e.fts = {Posting(r) : r \in e.rows}
  BY <1>1, <1>2
<1>5. Split(5, e.rows) \subseteq e.mirror
  <2> SUFFICES ASSUME NEW r \in d.rows, NEW kw \in Folded(r).keywords
               PROVE  <<kw, r.pk>> \in e.mirror
    BY <1>1, <1>3, FoldedRow DEF Split, MirrorKey
  <2>1. CASE kw \in r.keywords
    BY <1>1, <1>2, <2>1 DEF Split, MirrorKey
  <2>2. CASE kw \notin r.keywords
    <3>1. r.kind # Null /\ kw = Tag(r.kind)
      BY <1>3, <2>2, FoldedRow
    <3> QED BY <1>1, <3>1 DEF Tagged
  <2> QED BY <2>1, <2>2
<1>6. \A m \in e.mirror \ Split(5, e.rows) : Leftover(e, m)
  <2> SUFFICES ASSUME NEW m \in e.mirror, m \notin Split(5, e.rows)
               PROVE  Leftover(e, m)
    OBVIOUS
  <2>1. Split(4, d.rows) \subseteq Split(5, e.rows)
    <3> SUFFICES ASSUME NEW r \in d.rows, NEW kw \in r.keywords
                 PROVE  <<kw, r.pk>> \in Split(5, e.rows)
      BY DEF Split, MirrorKey
    <3>1. Folded(r) \in e.rows /\ Folded(r).pk = r.pk /\ kw \in Folded(r).keywords
      BY <1>1, <1>3, FoldedRow
    <3> QED BY <3>1 DEF Split, MirrorKey
  <2>2. m \in Tagged
    BY <1>1, <1>2, <2>1
  <2>3. PICK r \in d.rows : r.kind # Null /\ m = <<Tag(r.kind), r.pk>>
    BY <2>2 DEF Tagged
  <2>4. Folded(r) \in e.rows /\ Folded(r).pk = r.pk
    BY <1>1, <1>3, FoldedRow
  <2>5. Tag(r.kind) \notin Folded(r).keywords
    BY <2>3, <2>4 DEF Split, MirrorKey
  <2>6. Folded(r).keywords = r.keywords /\ r.keywords \cap Tags # {}
    <3> HIDE DEF Tag
    <3> QED BY <1>3, <2>3, <2>5, FoldedRow
  <2>7. Tag(r.kind) \in Tags
    BY <1>3, <2>3 DEF Tags, Row
  <2> HIDE DEF Tag
  <2> QED BY <1>1, <2>3, <2>4, <2>6, <2>7 DEF Leftover
<1>7. Follows(e)
  BY <1>1, <1>4, <1>5, <1>6 DEF Follows, MirrorFollows
<1> QED BY <1>7 DEF e

LEMMA MigratedFollows ==
  ASSUME NEW d, Sound(d), Follows(d), d.version < 5, NEW time \in Nat,
         \A r \in d.rows : r.created <= time
  PROVE  Follows(Migrated(d, time))
<1>1. CASE d.version < 4
  BY <1>1, MigratedIndexes
<1>2. CASE d.version = 4
  BY <1>2, FoldedIndexes DEF Migrated
<1> QED BY <1>1, <1>2 DEF Sound, Database, Versions

-----------------------------------------------------------------------------
(* What a release writes keeps a database sound and its indexes with it.   *)
LEMMA InsertedFields ==
  ASSUME NEW d, d \in Database, NEW row \in Row
  PROVE  LET e == Inserted(d, row)
         IN  /\ e.version = d.version /\ e.rows = d.rows \cup {row}
             /\ e.fts = d.fts \cup {Posting(row)}
             /\ e.mirror = IF d.version < 2 THEN d.mirror ELSE d.mirror \cup Split(d.version, {row})
             /\ e \in Database
<1>1. Posting(row) \in Nat \X SUBSET Keyword
  BY DEF Posting, Row
<1>2. Split(d.version, {row}) \subseteq Keyword \X (Ids \cup Nat)
  BY SplitType
<1>3. d \in [version : Versions, rows : SUBSET Row, mirror : SUBSET (Keyword \X (Ids \cup Nat)),
             fts : SUBSET (Nat \X SUBSET Keyword)]
  BY DEF Database
<1> HIDE DEF Posting, Split
<1>4. CASE d.version < 2
  BY <1>1, <1>3, <1>4 DEF Inserted, Database
<1>5. CASE ~(d.version < 2)
  BY <1>1, <1>2, <1>3, <1>5 DEF Inserted, Database
<1> QED BY <1>4, <1>5

LEMMA InsertedSound ==
  ASSUME NEW d, Sound(d), d.version >= 1, NEW row \in Row, IsNewPk(d, row.pk),
         \A r \in d.rows : r.id # row.id, Columns(d.version, row)
  PROVE  Sound(Inserted(d, row))
<1>1. \A r \in d.rows : r.pk # row.pk
  BY DEF IsNewPk, Row, Sound, Database
<1>2. IsFiniteSet(d.rows \cup {row})
  BY FS_AddElement DEF Sound
<1>3. Unique(d.rows \cup {row})
  BY <1>1 DEF Sound, Unique
<1>4. LET e == Inserted(d, row)
      IN  e \in Database /\ e.rows = d.rows \cup {row} /\ e.version = d.version
  BY InsertedFields DEF Sound
<1>5. d.version # 0 /\ \A r \in d.rows \cup {row} : Columns(d.version, r)
  BY DEF Sound, Database, Versions
<1> QED BY <1>2, <1>3, <1>4, <1>5 DEF Sound

LEMMA InsertedFollows ==
  ASSUME NEW d, Sound(d), Follows(d), NEW row \in Row
  PROVE  Follows(Inserted(d, row))
<1> DEFINE e == Inserted(d, row)
<1>1. /\ e.version = d.version /\ e.rows = d.rows \cup {row}
      /\ e.fts = d.fts \cup {Posting(row)}
      /\ e.mirror = IF d.version < 2 THEN d.mirror ELSE d.mirror \cup Split(d.version, {row})
  BY InsertedFields DEF Sound
<1> HIDE DEF e
<1>2. e.fts = {Posting(r) : r \in e.rows}
  BY <1>1 DEF Follows
<1>3. ASSUME d.version >= 2
      PROVE  MirrorFollows(e)
  <2>1. e.mirror = d.mirror \cup Split(d.version, {row})
    BY <1>1, <1>3 DEF Sound, Database, Versions
  <2>2. Split(d.version, e.rows) = Split(d.version, d.rows) \cup Split(d.version, {row})
    BY <1>1 DEF Split
  <2>3. \A m \in e.mirror \ Split(e.version, e.rows) : Leftover(e, m)
    BY <1>1, <1>3, <2>1, <2>2 DEF Follows, MirrorFollows, Leftover
  <2> QED BY <1>1, <1>3, <2>1, <2>2, <2>3 DEF Follows, MirrorFollows
<1> QED BY <1>1, <1>2, <1>3 DEF Follows, e

LEMMA DeletedFields ==
  ASSUME NEW d, d \in Database, NEW row \in d.rows
  PROVE  LET e == Deleted(d, row)
         IN  /\ e.version = d.version /\ e.rows = d.rows \ {row}
             /\ e.fts = d.fts \ {Posting(row)}
             /\ e.mirror = {m \in d.mirror : m[2] # MirrorKey(d.version, row)}
             /\ e \in Database
BY DEF Deleted, Database

LEMMA DeletedSound ==
  ASSUME NEW d, Sound(d), NEW row \in d.rows
  PROVE  Sound(Deleted(d, row))
<1>1. IsFiniteSet(d.rows \ {row})
  BY FS_RemoveElement DEF Sound
<1>2. LET e == Deleted(d, row) IN e \in Database /\ e.rows = d.rows \ {row} /\ e.version = d.version
  BY DeletedFields DEF Sound
<1>3. Unique(d.rows \ {row}) /\ \A r \in d.rows \ {row} : Columns(d.version, r)
  BY DEF Sound, Unique
<1> QED BY <1>1, <1>2, <1>3 DEF Sound

(* Rows are told apart by what names them in the mirror.                   *)
LEMMA MirrorKeys ==
  ASSUME NEW d, Sound(d), NEW r \in d.rows, NEW s \in d.rows, r # s
  PROVE  MirrorKey(d.version, r) # MirrorKey(d.version, s) /\ r.pk # s.pk /\ r.id # s.id
BY DEF Sound, Unique, MirrorKey

LEMMA DeletedFollows ==
  ASSUME NEW d, Sound(d), Follows(d), NEW row \in d.rows
  PROVE  Follows(Deleted(d, row))
<1> DEFINE e == Deleted(d, row)
<1>1. /\ e.version = d.version /\ e.rows = d.rows \ {row}
      /\ e.fts = d.fts \ {Posting(row)}
      /\ e.mirror = {m \in d.mirror : m[2] # MirrorKey(d.version, row)}
  BY DeletedFields DEF Sound
<1> HIDE DEF e
<1>2. e.fts = {Posting(r) : r \in e.rows}
  <2>1. \A r \in d.rows : r # row => Posting(r) # Posting(row)
    BY MirrorKeys DEF Posting
  <2> QED BY <1>1, <2>1 DEF Follows
<1>3. ASSUME d.version >= 2
      PROVE  MirrorFollows(e)
  <2>1. MirrorFollows(d)
    BY <1>3 DEF Follows
  <2>2. Split(e.version, e.rows) \subseteq e.mirror
    <3> SUFFICES ASSUME NEW r \in e.rows, NEW kw \in r.keywords
                 PROVE  <<kw, MirrorKey(d.version, r)>> \in e.mirror
      BY <1>1 DEF Split
    <3>1. <<kw, MirrorKey(d.version, r)>> \in d.mirror
      BY <1>1, <2>1 DEF MirrorFollows, Split
    <3>2. MirrorKey(d.version, r) # MirrorKey(d.version, row)
      BY <1>1, MirrorKeys
    <3> QED BY <1>1, <3>1, <3>2
  <2>3. ASSUME NEW m \in e.mirror, m \notin Split(e.version, e.rows)
        PROVE  Leftover(e, m)
    <3>1. m \in d.mirror /\ m[2] # MirrorKey(d.version, row)
      BY <1>1
    <3>2. m \notin Split(d.version, d.rows)
      BY <1>1, <2>3, <3>1 DEF Split
    <3>3. Leftover(d, m)
      BY <2>1, <3>1, <3>2 DEF MirrorFollows
    <3>4. PICK r \in d.rows : r.pk = m[2] /\ r.keywords \cap Tags # {}
      BY <3>3 DEF Leftover
    <3>5. r # row
      BY <3>1, <3>3, <3>4 DEF Leftover, MirrorKey
    <3> QED BY <1>1, <3>3, <3>4, <3>5 DEF Leftover
  <2> QED BY <2>2, <2>3 DEF MirrorFollows
<1> QED BY <1>1, <1>2, <1>3 DEF Follows, e

-----------------------------------------------------------------------------
(* A stored memory: row r of d still is what was stored as s, and 0004, if *)
(* it gave it a lifetime, did so at b.                                     *)
Carries(d, s, b, r) ==
  /\ r.id = s.id
  /\ s.keywords \subseteq r.keywords
  /\ d.version < 5 => r.kind = s.kind
  /\ d.version >= 2 => \A kw \in s.keywords : <<kw, MirrorKey(d.version, r)>> \in d.mirror
  /\ d.version = 5 /\ s.kind # Null => <<Tag(s.kind), r.pk>> \in d.mirror
  /\ d.version < 4 \/ s.expires # Null => r.expires = s.expires
  /\ d.version >= 4 /\ s.expires = Null =>
       /\ r.expires > b + Month - Hour
       /\ r.expires <= b + Month

Kept(d, s, b) == \E r \in d.rows : Carries(d, s, b, r)

LEMMA MigratedKept ==
  ASSUME NEW d, Sound(d), d.version < 5, NEW time \in Nat, \A r \in d.rows : r.created <= time,
         NEW s, NEW b, Kept(d, s, b)
  PROVE  Kept(Migrated(d, time), s, IF d.version = 3 THEN time ELSE b)
<1>0. PICK r \in d.rows : Carries(d, s, b, r)
  BY DEF Kept
<1>1. d.version \in 1..4 /\ r \in Row /\ r.created <= time
  BY DEF Sound, Database, Versions
<1>2. CASE d.version = 1
  <2>1. /\ AddMirror(d).version = 2 /\ AddMirror(d).rows = d.rows
        /\ AddMirror(d).mirror = Split(2, d.rows)
    BY DEF AddMirror, Sound, Database
  <2>2. \A kw \in s.keywords : <<kw, MirrorKey(2, r)>> \in Split(2, d.rows)
    BY <1>0 DEF Carries, Split
  <2>3. Carries(AddMirror(d), s, b, r)
    BY <1>0, <1>2, <2>1, <2>2 DEF Carries
  <2> QED BY <1>2, <2>1, <2>3 DEF Kept, Migrated
<1>3. CASE d.version = 2
  <2>1. /\ IntegerPk(d).version = 3 /\ IntegerPk(d).rows = d.rows
        /\ IntegerPk(d).mirror = Split(3, d.rows)
    BY DEF IntegerPk, Sound, Database
  <2>2. \A kw \in s.keywords : <<kw, MirrorKey(3, r)>> \in Split(3, d.rows)
    BY <1>0 DEF Carries, Split
  <2>3. Carries(IntegerPk(d), s, b, r)
    BY <1>0, <1>3, <2>1, <2>2 DEF Carries
  <2> QED BY <1>3, <2>1, <2>3 DEF Kept, Migrated
<1>4. CASE d.version = 3
  <2> DEFINE e == RequireTTL(d, time)
             q == Bounded(r, time)
  <2>1. e.version = 4 /\ q \in e.rows /\ e.mirror = d.mirror
    BY <1>4, RequireTTLSound
  <2>2. /\ q.pk = r.pk /\ q.id = r.id /\ q.kind = r.kind /\ q.keywords = r.keywords
        /\ r.expires # Null => q.expires = r.expires
        /\ r.expires = Null => q.expires > time + Month - Hour /\ q.expires <= time + Month
    BY <1>1, BoundedRow
  <2>3. MirrorKey(4, q) = MirrorKey(3, r)
    BY <2>2 DEF MirrorKey
  <2> HIDE DEF e, q
  <2>4. Carries(e, s, time, q)
    BY <1>0, <1>4, <2>1, <2>2, <2>3 DEF Carries
  <2> QED BY <1>4, <2>1, <2>4 DEF Kept, Migrated, e
<1>5. CASE d.version = 4
  <2> DEFINE e == FoldKind(d)
             q == Folded(r)
             Tagged == {<<Tag(t.kind), t.pk>> : t \in {u \in d.rows : u.kind # Null}}
  <2>1. e.version = 5 /\ q \in e.rows /\ e.mirror = d.mirror \cup Tagged
    BY <1>5, FoldKindSound
  <2>2. /\ q.pk = r.pk /\ q.id = r.id /\ q.expires = r.expires
        /\ r.keywords \subseteq q.keywords
    BY <1>1, FoldedRow
  <2>3. MirrorKey(5, q) = MirrorKey(4, r)
    BY <2>2 DEF MirrorKey
  <2>4. s.kind # Null => <<Tag(s.kind), r.pk>> \in Tagged
    BY <1>0, <1>5 DEF Carries
  <2> HIDE DEF e, q, Tagged
  <2>5. Carries(e, s, b, q)
    BY <1>0, <1>5, <2>1, <2>2, <2>3, <2>4 DEF Carries
  <2> QED BY <1>5, <2>1, <2>5 DEF Kept, Migrated, e
<1> QED BY <1>1, <1>2, <1>3, <1>4, <1>5

LEMMA InsertedKept ==
  ASSUME NEW d, Sound(d), NEW row \in Row, NEW s, NEW b, Kept(d, s, b)
  PROVE  Kept(Inserted(d, row), s, b)
<1> DEFINE e == Inserted(d, row)
<1>0. /\ e.version = d.version /\ e.rows = d.rows \cup {row}
      /\ e.mirror = IF d.version < 2 THEN d.mirror ELSE d.mirror \cup Split(d.version, {row})
  BY InsertedFields DEF Sound
<1>1. e.version = d.version /\ e.rows = d.rows \cup {row} /\ d.mirror \subseteq e.mirror
  BY <1>0
<1>2. PICK r \in d.rows : Carries(d, s, b, r)
  BY DEF Kept
<1> HIDE DEF e
<1>3. Carries(e, s, b, r)
  BY <1>1, <1>2 DEF Carries
<1> QED BY <1>1, <1>3 DEF Kept, e

(* A memory is kept as it was just stored.                                 *)
LEMMA StoredKept ==
  ASSUME NEW d, Sound(d), NEW row \in Row, Columns(d.version, row), NEW s, NEW b,
         s.id = row.id, s.keywords = row.keywords, s.kind = row.kind, s.expires = row.expires
  PROVE  Kept(Inserted(d, row), s, b)
<1> DEFINE e == Inserted(d, row)
<1>0. /\ e.version = d.version /\ e.rows = d.rows \cup {row}
      /\ e.mirror = IF d.version < 2 THEN d.mirror ELSE d.mirror \cup Split(d.version, {row})
  BY InsertedFields DEF Sound
<1>1. /\ e.version = d.version /\ row \in e.rows
      /\ d.version >= 2 => Split(d.version, {row}) \subseteq e.mirror
  BY <1>0 DEF Sound, Database, Versions
<1>2. \A kw \in s.keywords : <<kw, MirrorKey(d.version, row)>> \in Split(d.version, {row})
  BY DEF Split
<1>3. d.version \in 0..5
  BY DEF Sound, Database, Versions
<1> HIDE DEF e
<1>4. Carries(e, s, b, row)
  BY <1>1, <1>2, <1>3 DEF Carries, Columns
<1> QED BY <1>1, <1>4 DEF Kept, e

LEMMA DeletedKept ==
  ASSUME NEW d, Sound(d), NEW row \in d.rows, NEW s, NEW b, Kept(d, s, b), s.id # row.id
  PROVE  Kept(Deleted(d, row), s, b)
<1> DEFINE e == Deleted(d, row)
<1>1. /\ e.version = d.version /\ e.rows = d.rows \ {row}
      /\ e.mirror = {m \in d.mirror : m[2] # MirrorKey(d.version, row)}
  BY DeletedFields DEF Sound
<1>2. PICK r \in d.rows : Carries(d, s, b, r)
  BY DEF Kept
<1>3. r # row
  BY <1>2 DEF Carries
<1>4. MirrorKey(d.version, r) # MirrorKey(d.version, row) /\ r.pk # row.pk
  BY <1>3, MirrorKeys
<1>5. d.version = 5 => MirrorKey(d.version, row) = row.pk
  BY DEF MirrorKey
<1> HIDE DEF e
<1>6. Carries(e, s, b, r)
  BY <1>1, <1>2, <1>4, <1>5 DEF Carries
<1> QED BY <1>1, <1>3, <1>6 DEF Kept, e

(* An export keeps a database sound and what is stored in it, the rows     *)
(* numbered anew or not.                                                   *)
LEMMA RenumberedKept ==
  ASSUME NEW d, Sound(d), d.version \in 1..2, NEW e, e = [d EXCEPT !.rows = Renumbered(d.rows)]
  PROVE  /\ Sound(e) /\ e.version = d.version
         /\ \A time \in Nat : (\A r \in d.rows : r.created <= time) => \A r \in e.rows : r.created <= time
         /\ \A s, b : Kept(d, s, b) => Kept(e, s, b)
<1> DEFINE rows == Renumbered(d.rows)
<1>0. d.rows \subseteq Row /\ IsFiniteSet(d.rows) /\ Unique(d.rows)
  BY DEF Sound, Database
<1>1. /\ rows \subseteq Row /\ IsFiniteSet(rows) /\ Unique(rows)
      /\ \A r \in rows : \E s \in d.rows : SameButPk(r, s)
      /\ \A s \in d.rows : \E r \in rows : SameButPk(r, s)
  BY <1>0, RenumberedRows
<1> HIDE DEF rows
<1>2. e.version = d.version /\ e.rows = rows /\ e.mirror = d.mirror /\ e \in Database
  BY <1>1 DEF Sound, Database, rows
<1>3. \A r \in rows : Columns(d.version, r)
  BY <1>1 DEF Sound, Columns, SameButPk
<1>4. Sound(e)
  BY <1>1, <1>2, <1>3 DEF Sound
<1>5. \A time \in Nat : (\A r \in d.rows : r.created <= time) => \A r \in e.rows : r.created <= time
  BY <1>1, <1>2 DEF SameButPk
<1>6. ASSUME NEW s, NEW b, Kept(d, s, b)
      PROVE  Kept(e, s, b)
  <2>1. PICK q \in d.rows : Carries(d, s, b, q)
    BY <1>6 DEF Kept
  <2>2. PICK r \in rows : /\ r.id = q.id /\ r.kind = q.kind /\ r.keywords = q.keywords
                          /\ r.expires = q.expires
    BY <1>1 DEF SameButPk
  <2>3. MirrorKey(e.version, r) = MirrorKey(d.version, q)
    BY <1>2, <2>2 DEF MirrorKey
  <2>4. Carries(e, s, b, r)
    BY <1>2, <2>1, <2>2, <2>3 DEF Carries
  <2> QED BY <1>2, <2>4 DEF Kept
<1> QED BY <1>2, <1>4, <1>5, <1>6

-----------------------------------------------------------------------------
(***************************************************************************)
(* The processes: the invariant of Startup.                                *)
(***************************************************************************)
Stored == [file : Files, id : Ids, kind : Kinds \cup {Null}, keywords : SUBSET Keyword,
           expires : Nat \cup {Null}]

FileOK(f) ==
  /\ Sound(dbs[f])
  /\ dbs[f].version <= installed
  /\ \A r \in dbs[f].rows : r.created <= now
  /\ f \notin renumbered => Follows(dbs[f])

DbInv ==
  /\ dbs \in [Files -> Database]
  /\ bounded \in [Files -> Nat \cup {Null}]
  /\ installed \in Releases /\ now \in Nat
  /\ \A f \in Files : FileOK(f)
  /\ stored \subseteq Stored
  /\ \A s \in stored : Kept(dbs[s.file], s, bounded[s.file])

(* A config as a process may use it: its environment over some file.       *)
Over(env, c) == [field \in {"addr", "apiKey"} |-> IF env[field] # None THEN env[field] ELSE c[field]]
Used == {Over(env, c) : env \in Envs, c \in Configs \cup {NoConfig}}

Process == [pc : Steps, release : Releases \cup {0}, env : Envs \cup {None}, db : Files \cup {None},
            cfg : Used \cup Configs \cup {None}, linked : BOOLEAN, alone : BOOLEAN, astray : BOOLEAN]

HasFile(p) ==
  /\ proc[p].pc \in {"opening", "local"} =>
       proc[p].db \in Files /\ proc[p].release \in Releases /\ proc[p].release <= installed
  /\ proc[p].pc = "local" => dbs[proc[p].db].version >= proc[p].release

ProcInv == proc \in [Procs -> Process] /\ \A p \in Procs : HasFile(p)

FileState == [state : {"absent", "empty", "whole", "torn"}, cfg : Configs \cup {None}, size : Nat]
Outcome == [state : {"set", "unset", "cut", "unclear"}, cfg : Configs \cup {None}]

(* A process that saves alone holds the file empty; the others know that   *)
(* nothing can be told of it.                                              *)
SaverOK(p) ==
  /\ proc[p].cfg \in Configs
  /\ proc[p].alone => /\ file = Empty /\ proc[p].linked
                      /\ \A q \in Procs \ {p} : ~Saving(q)
  /\ ~proc[p].alone => told = Unclear

ConfigInv ==
  /\ file \in FileState /\ told \in Outcome
  /\ file.state = "whole" => file.cfg \in Configs
  /\ told.state = "set" => told.cfg \in Configs
  /\ \A p \in Procs : Saving(p) => SaverOK(p)
  /\ OrderlyConfig
  /\ EndpointHonest

IInv == DbInv /\ ProcInv /\ ConfigInv

-----------------------------------------------------------------------------
LEMMA Initially == ASSUME Init PROVE IInv
<1>1. Sound(NoDatabase) /\ Follows(NoDatabase) /\ NoDatabase \in Database
  BY FS_EmptySet DEF Sound, Follows, NoDatabase, Database, Versions, Unique
<1>2. installed \in 1..5 /\ now \in Nat
  BY StartupAssumption DEF Init
<1>3. DbInv
  BY <1>1, <1>2 DEF Init, DbInv, FileOK, NoDatabase
<1>4. Idle \in Process
  BY DEF Idle, Process, Steps
<1>5. ProcInv
  BY <1>4 DEF Init, ProcInv, HasFile, Idle
<1>6. ConfigInv
  BY DEF Init, ConfigInv, FileState, Outcome, Absent, Unset, OrderlyConfig, EndpointHonest, Idle, Saving,
         SomeoneSaves
<1> QED BY <1>3, <1>5, <1>6 DEF IInv

-----------------------------------------------------------------------------
(* The files.                                                              *)
LEMMA FilesAlone ==
  ASSUME DbInv, UNCHANGED dbVars, installed' \in Releases, installed' >= installed,
         now' \in Nat, now' >= now
  PROVE  DbInv'
<1>1. ASSUME NEW f \in Files
      PROVE  FileOK(f)'
  <2>1. dbs[f].version \in Nat /\ installed \in Nat /\ installed' \in Nat
    BY StartupAssumption DEF DbInv, Database, Versions
  <2>2. \A r \in dbs[f].rows : r.created \in Nat
    BY DEF DbInv, Database, Row
  <2> QED BY <2>1, <2>2 DEF DbInv, FileOK, dbVars
<1> QED BY <1>1 DEF DbInv, dbVars

(* One file is brought to state e.                                         *)
LEMMA OneFile ==
  ASSUME DbInv, NEW f \in Files, NEW e \in Database, dbs' = [dbs EXCEPT ![f] = e],
         Sound(e), e.version <= installed, \A r \in e.rows : r.created <= now,
         f \notin renumbered' => Follows(e),
         \A g \in Files \ {f} : g \notin renumbered' => g \notin renumbered,
         NEW b \in Nat \cup {Null}, bounded' = [bounded EXCEPT ![f] = b],
         stored' \subseteq Stored,
         \A s \in stored' : s.file = f => Kept(e, s, b),
         \A s \in stored' : s.file # f => s \in stored,
         UNCHANGED <<installed, now>>
  PROVE  DbInv'
<1>1. dbs' \in [Files -> Database] /\ bounded' \in [Files -> Nat \cup {Null}]
  BY DEF DbInv
<1>2. dbs'[f] = e /\ bounded'[f] = b /\ \A g \in Files \ {f} : dbs'[g] = dbs[g] /\ bounded'[g] = bounded[g]
  BY DEF DbInv
<1>3. ASSUME NEW g \in Files
      PROVE  FileOK(g)'
  BY <1>2 DEF DbInv, FileOK
<1>4. ASSUME NEW s \in stored'
      PROVE  Kept(dbs'[s.file], s, bounded'[s.file])
  BY <1>2 DEF DbInv, Stored
<1> QED BY <1>1, <1>3, <1>4 DEF DbInv

LEMMA MigrateFiles ==
  ASSUME IInv, NEW p \in Procs, Migrate(p)
  PROVE  DbInv'
<1> DEFINE f == proc[p].db
           d == dbs[f]
           b == IF d.version = 3 THEN now ELSE bounded[f]
<1>1. /\ f \in Files /\ d.version < proc[p].release /\ proc[p].release <= installed
      /\ proc[p].release \in 1..5 /\ installed \in 1..5 /\ now \in Nat
  BY StartupAssumption DEF IInv, DbInv, ProcInv, HasFile, Migrate
<1>2. FileOK(f) /\ d \in Database
  BY <1>1 DEF IInv, DbInv
<1>3. d.version \in 0..5 /\ d.version < 5
  BY <1>1, <1>2 DEF Database, Versions
<1>4. /\ Sound(Migrated(d, now)) /\ Migrated(d, now).version = d.version + 1
      /\ \A r \in Migrated(d, now).rows : r.created <= now
  BY <1>1, <1>2, <1>3, MigratedSound DEF FileOK
<1>5. f \notin renumbered => Follows(Migrated(d, now))
  BY <1>1, <1>2, <1>3, MigratedFollows DEF FileOK
<1>6. \A s \in stored : s.file = f => Kept(Migrated(d, now), s, b)
  BY <1>1, <1>2, <1>3, MigratedKept DEF FileOK, IInv, DbInv
<1>7. bounded' = [bounded EXCEPT ![f] = b] /\ b \in Nat \cup {Null}
  BY <1>1 DEF Migrate, IInv, DbInv
<1>8. Migrated(d, now) \in Database /\ Migrated(d, now).version <= installed
  BY <1>1, <1>3, <1>4 DEF Sound
<1>9. dbs' = [dbs EXCEPT ![f] = Migrated(d, now)] /\ UNCHANGED <<stored, renumbered, installed, now>>
  BY DEF Migrate
<1> HIDE DEF f, d, b
<1> QED BY <1>1, <1>4, <1>5, <1>6, <1>7, <1>8, <1>9, OneFile DEF IInv, DbInv

LEMMA DeleteFiles ==
  ASSUME IInv, NEW p \in Procs, Delete(p)
  PROVE  DbInv'
<1> DEFINE f == proc[p].db
           d == dbs[f]
<1>1. PICK row \in d.rows :
        /\ dbs' = [dbs EXCEPT ![f] = Deleted(d, row)]
        /\ stored' = {s \in stored : s.file # f \/ s.id # row.id}
  BY DEF Delete
<1>2. f \in Files /\ FileOK(f) /\ d \in Database
  BY DEF IInv, DbInv, ProcInv, HasFile, Delete, Uses
<1>3. Sound(Deleted(d, row)) /\ (f \notin renumbered => Follows(Deleted(d, row)))
  BY <1>2, DeletedSound, DeletedFollows DEF FileOK
<1>4. Deleted(d, row).version = d.version /\ Deleted(d, row).rows = d.rows \ {row}
      /\ Deleted(d, row) \in Database
  BY <1>2, DeletedFields
<1>5. \A s \in stored' : s.file = f => Kept(Deleted(d, row), s, bounded[f])
  BY <1>1, <1>2, DeletedKept DEF FileOK, IInv, DbInv
<1>6. bounded' = [bounded EXCEPT ![f] = bounded[f]] /\ bounded[f] \in Nat \cup {Null}
  BY <1>2 DEF Delete, IInv, DbInv
<1>7. UNCHANGED <<renumbered, installed, now>>
  BY DEF Delete
<1>8. Deleted(d, row).version <= installed /\ \A r \in Deleted(d, row).rows : r.created <= now
  BY <1>2, <1>4 DEF FileOK
<1>9. DbInv /\ stored' \subseteq Stored
  BY <1>1 DEF IInv, DbInv
<1> HIDE DEF f, d
<1> QED BY <1>1, <1>2, <1>3, <1>4, <1>5, <1>6, <1>7, <1>8, <1>9, OneFile

LEMMA StoreFiles ==
  ASSUME IInv, NEW p \in Procs, NEW id \in Ids, NEW form \in Forms, Store(p, id, form)
  PROVE  DbInv'
<1> DEFINE f == proc[p].db
           d == dbs[f]
           kind == IF d.version = 5 THEN Null ELSE form.kind
           expires == IF form.lifetime = Null THEN Null ELSE now + form.lifetime
           s == [file |-> f, id |-> id, kind |-> kind, keywords |-> form.keywords, expires |-> expires]
           Row0(pk) == [pk |-> pk, id |-> id, kind |-> kind, keywords |-> form.keywords,
                        created |-> now, expires |-> expires]
<1>1. PICK pk \in Pks : IsNewPk(d, pk) /\ dbs' = [dbs EXCEPT ![f] = Inserted(d, Row0(pk))]
  BY DEF Store
<1>2. /\ f \in Files /\ FileOK(f) /\ d \in Database /\ now \in Nat
      /\ d.version = proc[p].release /\ proc[p].release \in 1..5
  BY StartupAssumption DEF IInv, DbInv, ProcInv, HasFile, Store, Uses
<1>3. /\ form.kind \in Kinds /\ form.keywords \subseteq Keyword
      /\ form.lifetime \in {Null, Hour} /\ Hour \in Nat
      /\ Null \notin Nat /\ Null \notin Kinds
  BY StartupAssumption, MigrationsAssumption
<1>4. kind \in Kinds \cup {Null} /\ expires \in Nat \cup {Null} /\ (kind = Null <=> d.version = 5)
  BY <1>2, <1>3
<1>5. d.version >= 4 => expires # Null
  BY <1>2, <1>3 DEF Store
<1> DEFINE row == Row0(pk)
<1> HIDE DEF kind, expires
<1>6. row \in Row /\ s \in Stored /\ row.pk = pk /\ row.created = now
  BY <1>2, <1>3, <1>4, StartupAssumption DEF Row, Stored
<1>7. Columns(d.version, row)
  BY <1>4, <1>5 DEF Columns
<1>8. /\ stored' = stored \cup {s}
      /\ UNCHANGED <<renumbered, bounded, installed, now>>
      /\ \A r \in d.rows : r.id # id
  BY <1>2 DEF Store, kind, expires
<1>9. s.id = row.id /\ s.keywords = row.keywords /\ s.kind = row.kind /\ s.expires = row.expires
      /\ row.id = id /\ s.file = f
  OBVIOUS
<1> HIDE DEF row, s, d, f
<1>10. /\ Inserted(d, row).version = d.version /\ Inserted(d, row).rows = d.rows \cup {row}
       /\ Inserted(d, row) \in Database
  BY <1>2, <1>6, InsertedFields
<1>11. Sound(d) /\ (f \notin renumbered => Follows(d)) /\ d.version <= installed
       /\ \A r \in d.rows : r.created <= now
  BY <1>2 DEF FileOK, d
<1>12. Sound(Inserted(d, row))
  BY <1>1, <1>2, <1>6, <1>7, <1>8, <1>9, <1>11, InsertedSound
<1>13. f \notin renumbered' => Follows(Inserted(d, row))
  BY <1>6, <1>8, <1>11, InsertedFollows
<1>14. ASSUME NEW t \in stored', t.file = f
       PROVE  Kept(Inserted(d, row), t, bounded[f])
  <2>1. CASE t = s
    BY <2>1, <1>6, <1>7, <1>9, <1>11, StoredKept
  <2>2. CASE t \in stored
    <3>1. Kept(d, t, bounded[f])
      BY <1>14, <2>2 DEF IInv, DbInv, d
    <3> QED BY <3>1, <1>6, <1>11, InsertedKept
  <2> QED BY <1>8, <2>1, <2>2
<1>15. bounded' = [bounded EXCEPT ![f] = bounded[f]] /\ bounded[f] \in Nat \cup {Null}
  BY <1>2, <1>8 DEF IInv, DbInv
<1>16. \A r \in Inserted(d, row).rows : r.created <= now
  BY <1>2, <1>6, <1>10, <1>11
<1>17. DbInv /\ stored' \subseteq Stored
  BY <1>6, <1>8 DEF IInv, DbInv
<1>18. dbs' = [dbs EXCEPT ![f] = Inserted(d, row)]
  BY <1>1 DEF row
<1>19. Inserted(d, row).version <= installed
  BY <1>10, <1>11
<1>20. \A t \in stored' : t.file # f => t \in stored
  BY <1>8, <1>9
<1> QED BY <1>2, <1>8, <1>10, <1>12, <1>13, <1>14, <1>15, <1>16, <1>17, <1>18, <1>19, <1>20, OneFile

LEMMA ExportFiles ==
  ASSUME IInv, NEW f \in Files, NEW g \in Files, Export(f, g)
  PROVE  DbInv'
<1> DEFINE d == dbs[f]
           old == {t \in stored : t.file = f}
<1>1. PICK rows : /\ rows \in {d.rows} \cup (IF d.version < 3 THEN {Renumbered(d.rows)} ELSE {})
                  /\ dbs' = [dbs EXCEPT ![g] = [d EXCEPT !.rows = rows]]
                  /\ renumbered' = renumbered \cup
                       (IF rows # d.rows \/ f \in renumbered THEN {g} ELSE {})
  BY DEF Export
<1> DEFINE e == [d EXCEPT !.rows = rows]
<1>2. /\ stored' = stored \cup {[s EXCEPT !.file = g] : s \in old}
      /\ bounded' = [bounded EXCEPT ![g] = bounded[f]] /\ UNCHANGED <<installed, now>>
      /\ d.rows # {} /\ dbs[g] = NoDatabase
  BY DEF Export
<1>3. FileOK(f) /\ d \in Database /\ bounded[f] \in Nat \cup {Null} /\ now \in Nat /\ DbInv
  BY DEF IInv, DbInv
<1>4. /\ Sound(d) /\ d.version <= installed /\ (f \notin renumbered => Follows(d))
      /\ \A r \in d.rows : r.created <= now
  BY <1>3 DEF FileOK
<1>5. d.version \in 1..5
  BY <1>2, <1>4 DEF Sound, Database, Versions
<1> HIDE DEF d
<1>6. /\ Sound(e) /\ e.version = d.version
      /\ \A r \in e.rows : r.created <= now
      /\ \A s, b : Kept(d, s, b) => Kept(e, s, b)
      /\ g \notin renumbered' => Follows(e)
  <2>1. CASE rows = d.rows
    <3>1. e = d
      BY <1>3, <2>1 DEF Database
    <3> QED BY <1>1, <1>4, <3>1
  <2>2. CASE rows # d.rows
    <3>1. d.version \in 1..2 /\ rows = Renumbered(d.rows)
      BY <1>1, <1>5, <2>2
    <3>2. g \in renumbered'
      BY <1>1, <2>2
    <3>3. /\ Sound(e) /\ e.version = d.version
          /\ \A t \in Nat : (\A r \in d.rows : r.created <= t) => \A r \in e.rows : r.created <= t
          /\ \A s, b : Kept(d, s, b) => Kept(e, s, b)
      BY <1>4, <3>1, RenumberedKept
    <3> QED BY <1>3, <1>4, <3>2, <3>3
  <2> QED BY <2>1, <2>2
<1>7. e \in Database
  BY <1>6 DEF Sound
<1>8. \A s \in old : LET t == [s EXCEPT !.file = g]
                     IN  /\ t \in Stored /\ t.file = g /\ t.id = s.id /\ t.kind = s.kind
                         /\ t.keywords = s.keywords /\ t.expires = s.expires
  BY <1>3 DEF DbInv, Stored
<1> HIDE DEF e
<1>9. \A s \in stored : s.file # g
  BY <1>2, <1>3 DEF DbInv, Kept, NoDatabase
<1>10. ASSUME NEW t \in stored', t.file = g
       PROVE  Kept(e, t, bounded[f])
  <2>1. PICK s \in old : t = [s EXCEPT !.file = g]
    BY <1>2, <1>9, <1>10
  <2>2. Kept(e, s, bounded[f])
    BY <1>3, <1>6 DEF DbInv, d
  <2>3. t.id = s.id /\ t.kind = s.kind /\ t.keywords = s.keywords /\ t.expires = s.expires
    BY <1>8, <2>1
  <2> QED BY <2>2, <2>3 DEF Kept, Carries
<1>11. stored' \subseteq Stored /\ \A s \in stored' : s.file # g => s \in stored
  BY <1>2, <1>3, <1>8 DEF DbInv
<1>12. \A h \in Files \ {g} : h \notin renumbered' => h \notin renumbered
  BY <1>1
<1>13. e.version <= installed
  BY <1>4, <1>6
<1>14. dbs' = [dbs EXCEPT ![g] = e]
  BY <1>1 DEF e
<1> QED BY <1>2, <1>3, <1>6, <1>7, <1>10, <1>11, <1>12, <1>13, <1>14, OneFile

-----------------------------------------------------------------------------
(* What a process knows of its file.                                       *)
LEMMA FilesGrow ==
  ASSUME IInv, NEW f \in Files,
         \/ UNCHANGED dbs
         \/ \E p \in Procs : Migrate(p) \/ Delete(p)
         \/ \E p \in Procs, id \in Ids, form \in Forms : Store(p, id, form)
         \/ \E g, h \in Files : Export(g, h)
  PROVE  dbs'[f].version >= dbs[f].version
<1>0. dbs \in [Files -> Database] /\ dbs[f].version \in Nat /\ dbs[f] \in Database
  BY DEF IInv, DbInv, Database, Versions
<1>1. CASE UNCHANGED dbs
  BY <1>0, <1>1
<1>2. ASSUME NEW p \in Procs, Migrate(p)
      PROVE  dbs'[f].version >= dbs[f].version
  <2> DEFINE g == proc[p].db
  <2>1. /\ g \in Files /\ dbs[g].version < proc[p].release
        /\ proc[p].release \in 1..5 /\ now \in Nat
    BY <1>2, StartupAssumption DEF IInv, DbInv, ProcInv, HasFile, Migrate
  <2>2. FileOK(g) /\ dbs[g].version \in 0..5
    BY <2>1 DEF IInv, DbInv, Database, Versions
  <2>3. Migrated(dbs[g], now).version = dbs[g].version + 1
    BY <2>1, <2>2, MigratedSound DEF FileOK
  <2>4. dbs' = [dbs EXCEPT ![g] = Migrated(dbs[g], now)]
    BY <1>2 DEF Migrate
  <2> HIDE DEF g
  <2>5. CASE f = g
    BY <1>0, <2>3, <2>4, <2>5
  <2>6. CASE f # g
    BY <1>0, <2>4, <2>6
  <2> QED BY <2>5, <2>6
<1>3. ASSUME NEW p \in Procs, Delete(p)
      PROVE  dbs'[f].version >= dbs[f].version
  <2>1. PICK row : /\ row \in dbs[proc[p].db].rows
                   /\ dbs' = [dbs EXCEPT ![proc[p].db] = Deleted(dbs[proc[p].db], row)]
    BY <1>3 DEF Delete
  <2>2. proc[p].db = f => Deleted(dbs[f], row).version = dbs[f].version
    BY <1>0, <2>1, DeletedFields
  <2> QED BY <1>0, <2>1, <2>2
<1>4. ASSUME NEW p \in Procs, NEW id \in Ids, NEW form \in Forms, Store(p, id, form)
      PROVE  dbs'[f].version >= dbs[f].version
  <2>1. PICK row : dbs' = [dbs EXCEPT ![proc[p].db] = Inserted(dbs[proc[p].db], row)]
    BY <1>4 DEF Store
  <2>2. Inserted(dbs[f], row).version = dbs[f].version
    BY <1>0 DEF Inserted, Database
  <2> QED BY <1>0, <2>1, <2>2
<1>5. ASSUME NEW g \in Files, NEW h \in Files, Export(g, h)
      PROVE  dbs'[f].version >= dbs[f].version
  <2>1. PICK e : dbs' = [dbs EXCEPT ![h] = [dbs[g] EXCEPT !.rows = e]]
    BY <1>5 DEF Export
  <2>2. dbs[h].version = 0
    BY <1>5 DEF Export, NoDatabase
  <2>3. dbs[g] \in Database /\ dbs[g].version \in Nat
    BY DEF IInv, DbInv, Database, Versions
  <2>4. [dbs[g] EXCEPT !.rows = e].version = dbs[g].version
    BY <2>3 DEF Database
  <2> QED BY <1>0, <2>1, <2>2, <2>3, <2>4
<1> QED BY <1>1, <1>2, <1>3, <1>4, <1>5

LEMMA SameProcs ==
  ASSUME IInv, UNCHANGED proc, installed' \in Releases, installed' >= installed,
         \A f \in Files : dbs'[f].version >= dbs[f].version, DbInv'
  PROVE  ProcInv'
<1>1. installed \in Nat /\ installed' \in Nat /\ Releases \subseteq Nat
  BY StartupAssumption DEF IInv, DbInv
<1>2. \A f \in Files : dbs[f].version \in Nat /\ dbs'[f].version \in Nat
  BY DEF IInv, DbInv, Database, Versions
<1>3. ASSUME NEW p \in Procs
      PROVE  HasFile(p)'
  <2>1. proc'[p] = proc[p] /\ HasFile(p)
    BY DEF IInv, ProcInv
  <2>2. CASE proc[p].pc \in {"opening", "local"}
    <3>0. /\ proc[p].db \in Files /\ proc[p].release \in Releases
          /\ proc[p].release <= installed
      BY <2>1, <2>2 DEF HasFile
    <3>1. /\ proc[p].db \in Files /\ proc[p].release \in Releases /\ proc[p].release \in Nat
          /\ proc[p].release <= installed'
      <4> DEFINE r == proc[p].release
      <4>1. r \in Nat /\ r <= installed
        BY <1>1, <3>0
      <4> HIDE DEF r
      <4>2. r <= installed'
        BY <1>1, <4>1
      <4> QED BY <3>0, <4>1, <4>2 DEF r
    <3>2. proc[p].pc = "local" => dbs'[proc[p].db].version >= proc[p].release
      BY <1>2, <2>1, <3>1 DEF HasFile
    <3> QED BY <2>1, <3>1, <3>2 DEF HasFile
  <2>3. CASE proc[p].pc \notin {"opening", "local"}
    BY <2>1, <2>3 DEF HasFile
  <2> QED BY <2>2, <2>3
<1> QED BY <1>3 DEF IInv, ProcInv

LEMMA OneProc ==
  ASSUME IInv, UNCHANGED <<dbs, installed>>, NEW p \in Procs, NEW x \in Process,
         proc' = [proc EXCEPT ![p] = x], HasFile(p)'
  PROVE  ProcInv'
<1>1. ASSUME NEW q \in Procs \ {p}
      PROVE  HasFile(q)'
  <2>1. proc'[q] = proc[q]
    BY DEF IInv, ProcInv
  <2> QED BY <2>1 DEF IInv, ProcInv, HasFile
<1> QED BY <1>1 DEF IInv, ProcInv

(* Processes may lose what they had of remote.json, and no more.           *)
LEMMA AllProcs ==
  ASSUME IInv, UNCHANGED <<dbs, installed>>, proc' \in [Procs -> Process],
         \A p \in Procs : \/ proc'[p].pc \notin {"opening", "local"}
                          \/ /\ proc'[p].pc = proc[p].pc /\ proc'[p].db = proc[p].db
                             /\ proc'[p].release = proc[p].release
  PROVE  ProcInv'
BY DEF IInv, ProcInv, HasFile

-----------------------------------------------------------------------------
(* remote.json. First, what a started process is given.                    *)
LEMMA LoadedType ==
  ASSUME ConfigInv
  PROVE  /\ Loaded \in Configs \cup {NoConfig}
         /\ \A env \in Envs : Merged(env) = Over(env, Loaded) /\ Merged(env) \in Used
<1>1. Loaded \in Configs \cup {NoConfig}
  BY DEF ConfigInv, Loaded
<1> QED BY <1>1 DEF Merged, Over, Used

(* An endpoint that is set, or was cut short while being set, leaves a     *)
(* file behind, so that nobody goes local for the lack of one.             *)
LEMMA SetLeavesFile ==
  ASSUME ProcInv, ConfigInv, told.state \in {"set", "cut"}
  PROVE  file.state # "absent"
<1>1. CASE SomeoneSaves
  <2>1. PICK p \in Procs : Saving(p)
    BY <1>1 DEF SomeoneSaves
  <2>2. proc[p].alone
    BY <2>1 DEF ConfigInv, SaverOK, Unclear, ProcInv, Process
  <2> QED BY <2>1, <2>2 DEF ConfigInv, SaverOK, Empty
<1>2. CASE ~SomeoneSaves
  BY <1>2 DEF ConfigInv, OrderlyConfig, Whole, Empty
<1> QED BY <1>1, <1>2

EndpointOf(p) ==
  proc[p].pc = "remote" =>
    \E c \in Configs \cup {NoConfig} :
      \A field \in {"addr", "apiKey"} :
        /\ proc[p].cfg[field] = (IF proc[p].env[field] # None THEN proc[p].env[field] ELSE c[field])
        /\ proc[p].cfg[field] # None

LEMMA EndpointsOf == EndpointHonest <=> \A p \in Procs : ~proc[p].astray /\ EndpointOf(p)
BY DEF EndpointHonest, EndpointOf

(* A process that neither saves nor did leaves remote.json as it is.       *)
LEMMA ConfigAside ==
  ASSUME ProcInv, ConfigInv, UNCHANGED cfgVars, NEW p \in Procs, NEW x,
         proc' = [proc EXCEPT ![p] = x], ~Saving(p), x.pc # "writing", ~x.astray, EndpointOf(p)'
  PROVE  ConfigInv'
<1>1. proc'[p] = x /\ \A q \in Procs \ {p} : proc'[q] = proc[q]
  BY DEF ProcInv
<1>2. \A q \in Procs : Saving(q)' <=> Saving(q)
  BY <1>1 DEF Saving
<1>3. SomeoneSaves' <=> SomeoneSaves
  BY <1>2 DEF SomeoneSaves
<1>4. OrderlyConfig'
  BY <1>3 DEF ConfigInv, OrderlyConfig, cfgVars
<1>5. ASSUME NEW q \in Procs, Saving(q)'
      PROVE  SaverOK(q)'
  <2>1. q # p /\ Saving(q) /\ proc'[q] = proc[q]
    BY <1>1, <1>2, <1>5
  <2> QED BY <1>2, <2>1 DEF ConfigInv, SaverOK, cfgVars
<1>6. ASSUME NEW q \in Procs \ {p}
      PROVE  ~proc'[q].astray /\ EndpointOf(q)'
  BY <1>1, EndpointsOf DEF ConfigInv, EndpointOf
<1>7. EndpointHonest'
  BY <1>1, <1>6 DEF EndpointHonest, EndpointOf
<1> QED BY <1>4, <1>5, <1>7 DEF ConfigInv, cfgVars

LEMMA StartRemoteKeeps ==
  ASSUME IInv, NEW p \in Procs, NEW env \in Envs, StartRemote(p, env)
  PROVE  ProcInv' /\ ConfigInv'
<1> DEFINE x == [Idle EXCEPT !.pc = "remote", !.env = env, !.cfg = Merged(env)]
<1>1. /\ proc' = [proc EXCEPT ![p] = x] /\ proc[p].pc = "idle"
      /\ UNCHANGED <<dbs, installed, cfgVars>>
      /\ ~ResolveFails(env) /\ Merged(env).addr # None
  BY DEF StartRemote, Starts, dbVars
<1>2. Loaded \in Configs \cup {NoConfig} /\ Merged(env) = Over(env, Loaded) /\ Merged(env) \in Used
  BY LoadedType DEF IInv
<1>3. x.pc = "remote" /\ x.env = env /\ x.cfg = Merged(env) /\ ~x.astray /\ x \in Process
  BY <1>2 DEF Idle, Process, Steps
<1> HIDE DEF x
<1>4. proc'[p] = x
  BY <1>1 DEF IInv, ProcInv
<1>5. ProcInv'
  BY <1>1, <1>3, <1>4, OneProc DEF HasFile
<1>6. Merged(env).apiKey # None
  BY <1>1 DEF ResolveFails
<1>7. EndpointOf(p)'
  BY <1>1, <1>2, <1>3, <1>4, <1>6 DEF EndpointOf, Over
<1>8. ~Saving(p)
  BY <1>1 DEF Saving
<1> QED BY <1>1, <1>3, <1>5, <1>7, <1>8, ConfigAside DEF IInv

LEMMA StartLocalKeeps ==
  ASSUME IInv, NEW p \in Procs, NEW env \in Envs, NEW f \in Files, StartLocal(p, env, f)
  PROVE  ProcInv' /\ ConfigInv'
<1>1. /\ proc' = [proc EXCEPT ![p] = Opening(f)] /\ proc[p].pc = "idle"
      /\ UNCHANGED <<dbs, installed, cfgVars>>
      /\ ~ResolveFails(env) /\ Merged(env).addr = None
  BY DEF StartLocal, Starts, dbVars
<1>2. file.state = "absent"
  <2>1. Loaded.addr = None
    BY <1>1 DEF Merged
  <2>2. file.state # "whole"
    BY <2>1, StartupAssumption DEF IInv, ConfigInv, Loaded
  <2> QED BY <1>1, <2>2 DEF ResolveFails, Unreadable, IInv, ConfigInv, FileState
<1>3. told.state \notin {"set", "cut"}
  BY <1>2, SetLeavesFile DEF IInv
<1>4. /\ Opening(f).pc = "opening" /\ ~Opening(f).astray /\ Opening(f) \in Process
      /\ Opening(f).db = f /\ Opening(f).release = installed
  <2>1. Opening(f) = [Idle EXCEPT !.pc = "opening", !.release = installed, !.db = f, !.astray = FALSE]
    <3>1. (told.state \in {"set", "cut"}) = FALSE
      BY <1>3
    <3> QED BY <3>1, Zenon DEF Opening
  <2> QED BY <2>1 DEF Idle, Process, Steps, IInv, DbInv
<1>5. proc'[p] = Opening(f)
  BY <1>1 DEF IInv, ProcInv
<1>6. HasFile(p)'
  BY <1>1, <1>4, <1>5, StartupAssumption DEF HasFile, IInv, DbInv
<1>7. ProcInv'
  BY <1>1, <1>4, <1>6, OneProc
<1>8. EndpointOf(p)' /\ ~Saving(p)
  BY <1>1, <1>4, <1>5 DEF EndpointOf, Saving
<1> QED BY <1>1, <1>4, <1>7, <1>8, ConfigAside DEF IInv

LEMMA OpenedKeeps ==
  ASSUME IInv, NEW p \in Procs, Opened(p)
  PROVE  ProcInv' /\ ConfigInv'
<1> DEFINE x == [proc[p] EXCEPT !.pc = "local"]
<1>1. /\ proc' = [proc EXCEPT ![p] = x] /\ proc[p].pc = "opening"
      /\ dbs[proc[p].db].version >= proc[p].release
      /\ UNCHANGED <<dbs, installed, cfgVars>>
  BY DEF Opened, dbVars
<1>2. /\ x \in Process /\ x.pc = "local" /\ x.db = proc[p].db /\ x.release = proc[p].release
      /\ x.astray = proc[p].astray
  BY DEF IInv, ProcInv, Process, Steps
<1> HIDE DEF x
<1>3. proc'[p] = x
  BY <1>1 DEF IInv, ProcInv
<1>4. HasFile(p)'
  BY <1>1, <1>2, <1>3 DEF IInv, ProcInv, HasFile
<1>5. ProcInv'
  BY <1>1, <1>2, <1>4, OneProc
<1>6. EndpointOf(p)' /\ ~Saving(p) /\ ~x.astray
  BY <1>1, <1>2, <1>3 DEF EndpointOf, Saving, IInv, ConfigInv, EndpointHonest
<1> QED BY <1>1, <1>2, <1>5, <1>6, ConfigAside DEF IInv

(* Whoever saves beside another knows that nothing can be told any more.   *)
LEMMA NotAlone ==
  ASSUME ConfigInv, ProcInv, NEW p \in Procs, NEW q \in Procs, p # q, Saving(p), Saving(q)
  PROVE  ~proc[q].alone /\ told = Unclear
<1>1. ~proc[q].alone
  BY DEF ConfigInv, SaverOK
<1> QED BY <1>1 DEF ConfigInv, SaverOK

(* p is done, in whatever way: the others are as they were.                *)
LEMMA Ends ==
  ASSUME IInv, NEW p \in Procs, proc' = [proc EXCEPT ![p] = Idle], UNCHANGED <<dbs, installed>>
  PROVE  /\ ProcInv'
         /\ \A q \in Procs : Saving(q)' <=> q # p /\ Saving(q)
         /\ \A q \in Procs \ {p} : proc'[q] = proc[q]
         /\ EndpointHonest'
<1>1. proc'[p] = Idle /\ \A q \in Procs \ {p} : proc'[q] = proc[q]
  BY DEF IInv, ProcInv
<1>2. Idle \in Process /\ Idle.pc = "idle" /\ ~Idle.astray
  BY DEF Idle, Process, Steps
<1>3. HasFile(p)'
  BY <1>1, <1>2 DEF HasFile
<1>4. ProcInv'
  BY <1>2, <1>3, OneProc
<1>5. ASSUME NEW q \in Procs
      PROVE  ~proc'[q].astray /\ EndpointOf(q)'
  BY <1>1, <1>2, EndpointsOf DEF IInv, ConfigInv, EndpointOf
<1>6. EndpointHonest'
  BY <1>5 DEF EndpointHonest, EndpointOf
<1> QED BY <1>1, <1>2, <1>4, <1>6 DEF Saving

LEMMA CutOff ==
  ASSUME IInv, NEW p \in Procs, Saving(p), proc' = [proc EXCEPT ![p] = Idle],
         told' = CutShort(p), UNCHANGED <<dbs, installed, file>>
  PROVE  ConfigInv'
<1>1. /\ \A q \in Procs : Saving(q)' <=> q # p /\ Saving(q)
      /\ \A q \in Procs \ {p} : proc'[q] = proc[q]
      /\ EndpointHonest'
  BY Ends
<1>2. SaverOK(p)
  BY DEF IInv, ConfigInv
<1>3. CASE proc[p].alone
  <2>1. told' = Cut /\ file = Empty /\ \A q \in Procs : ~Saving(q)'
    BY <1>1, <1>2, <1>3 DEF CutShort, SaverOK
  <2>2. OrderlyConfig'
    BY <2>1 DEF OrderlyConfig, Cut
  <2> QED BY <1>1, <2>1, <2>2 DEF IInv, ConfigInv, Cut, Outcome
<1>4. CASE ~proc[p].alone
  <2>1. told' = Unclear
    BY <1>4 DEF CutShort
  <2>2. ASSUME NEW q \in Procs, Saving(q)'
        PROVE  SaverOK(q)'
    <3>1. q # p /\ Saving(q) /\ proc'[q] = proc[q]
      BY <1>1, <2>2
    <3>2. ~proc[q].alone
      BY <3>1, NotAlone DEF IInv
    <3> QED BY <2>1, <3>1, <3>2 DEF IInv, ConfigInv, SaverOK
  <2>3. OrderlyConfig'
    BY <2>1 DEF OrderlyConfig, Unclear
  <2> QED BY <1>1, <2>1, <2>2, <2>3 DEF IInv, ConfigInv, Unclear, Outcome
<1> QED BY <1>3, <1>4

LEMMA ExitKeeps ==
  ASSUME IInv, NEW p \in Procs, Exit(p)
  PROVE  ProcInv' /\ ConfigInv'
<1>1. /\ proc' = [proc EXCEPT ![p] = Idle] /\ told' = CutShort(p)
      /\ UNCHANGED <<dbs, installed, file>>
  BY DEF Exit, dbVars
<1>2. CASE Saving(p)
  BY <1>1, <1>2, CutOff, Ends
<1>3. CASE ~Saving(p)
  <2>1. UNCHANGED cfgVars
    BY <1>1, <1>3 DEF CutShort, cfgVars
  <2>2. Idle.pc = "idle" /\ ~Idle.astray
    BY DEF Idle
  <2>3. EndpointOf(p)'
    BY <1>1, <2>2 DEF EndpointOf, IInv, ProcInv
  <2> QED BY <1>1, <1>3, <2>1, <2>2, <2>3, Ends, ConfigAside DEF IInv
<1> QED BY <1>2, <1>3

LEMMA SaveFailsKeeps ==
  ASSUME IInv, NEW p \in Procs, SaveFails(p)
  PROVE  ProcInv' /\ ConfigInv'
BY CutOff, Ends DEF SaveFails, dbVars

LEMMA EndSaveKeeps ==
  ASSUME IInv, NEW p \in Procs, EndSave(p)
  PROVE  ProcInv' /\ ConfigInv'
<1> DEFINE c == proc[p].cfg
<1>1. /\ Saving(p) /\ proc' = [proc EXCEPT ![p] = Idle] /\ UNCHANGED <<dbs, installed>>
      /\ file' = IF proc[p].linked THEN Written(c) ELSE file
      /\ told' = IF proc[p].alone THEN Set(c) ELSE Unclear
  BY DEF EndSave, dbVars
<1>2. /\ \A q \in Procs : Saving(q)' <=> q # p /\ Saving(q)
      /\ \A q \in Procs \ {p} : proc'[q] = proc[q]
      /\ EndpointHonest' /\ ProcInv'
  BY <1>1, Ends
<1>3. SaverOK(p) /\ c \in Configs /\ Length[c] \in Nat
  BY <1>1, StartupAssumption DEF IInv, ConfigInv, SaverOK
<1>4. file' \in FileState /\ (file'.state = "whole" => file'.cfg \in Configs)
  BY <1>1, <1>3 DEF Written, Whole, Torn, FileState, IInv, ConfigInv
<1>5. CASE proc[p].alone
  <2>1. file = Empty /\ proc[p].linked /\ \A q \in Procs : ~Saving(q)'
    BY <1>2, <1>3, <1>5 DEF SaverOK
  <2>2. file' = Whole(c) /\ told' = Set(c)
    BY <1>1, <1>3, <1>5, <2>1 DEF Written, Empty
  <2>3. OrderlyConfig' /\ told' \in Outcome
    BY <1>3, <2>2 DEF OrderlyConfig, Set, Outcome
  <2> QED BY <1>2, <1>3, <1>4, <2>1, <2>2, <2>3 DEF ConfigInv, Set
<1>6. CASE ~proc[p].alone
  <2>1. told' = Unclear
    BY <1>1, <1>6
  <2>2. ASSUME NEW q \in Procs, Saving(q)'
        PROVE  SaverOK(q)'
    <3>1. q # p /\ Saving(q) /\ proc'[q] = proc[q]
      BY <1>2, <2>2
    <3>2. ~proc[q].alone
      BY <1>1, <3>1, NotAlone DEF IInv
    <3> QED BY <2>1, <3>1, <3>2 DEF IInv, ConfigInv, SaverOK
  <2>3. OrderlyConfig' /\ told' \in Outcome
    BY <2>1 DEF OrderlyConfig, Unclear, Outcome
  <2> QED BY <1>2, <1>4, <2>1, <2>2, <2>3 DEF ConfigInv, Unclear
<1> QED BY <1>2, <1>5, <1>6

LEMMA RemoveKeeps ==
  ASSUME IInv, NEW p \in Procs, Remove(p)
  PROVE  ProcInv' /\ ConfigInv'
<1>1. /\ proc' = [q \in Procs |-> [proc[q] EXCEPT !.alone = FALSE, !.linked = FALSE]]
      /\ file' = Absent /\ told' = IF SomeoneSaves THEN Unclear ELSE Unset
      /\ UNCHANGED <<dbs, installed>>
  BY DEF Remove, dbVars
<1>2. \A q \in Procs :
        /\ proc'[q].pc = proc[q].pc /\ proc'[q].db = proc[q].db /\ proc'[q].release = proc[q].release
        /\ proc'[q].cfg = proc[q].cfg /\ proc'[q].env = proc[q].env
        /\ proc'[q].astray = proc[q].astray /\ ~proc'[q].alone /\ proc'[q] \in Process
  BY <1>1 DEF IInv, ProcInv, Process
<1>3. ProcInv'
  <2>1. proc' \in [Procs -> Process]
    BY <1>1, <1>2
  <2> QED BY <1>1, <1>2, <2>1, AllProcs
<1>4. \A q \in Procs : Saving(q)' <=> Saving(q)
  BY <1>2 DEF Saving
<1>5. ASSUME NEW q \in Procs, Saving(q)'
      PROVE  SaverOK(q)'
  <2>1. Saving(q) /\ told' = Unclear
    BY <1>1, <1>4, <1>5 DEF SomeoneSaves
  <2> QED BY <1>2, <2>1 DEF IInv, ConfigInv, SaverOK
<1>6. OrderlyConfig'
  BY <1>1, <1>4 DEF OrderlyConfig, SomeoneSaves, Unclear, Unset
<1>7. ASSUME NEW q \in Procs
      PROVE  ~proc'[q].astray /\ EndpointOf(q)'
  BY <1>2, EndpointsOf DEF IInv, ConfigInv, EndpointOf
<1>8. EndpointHonest'
  BY <1>7 DEF EndpointHonest, EndpointOf
<1> QED BY <1>1, <1>3, <1>5, <1>6, <1>8 DEF ConfigInv, Absent, FileState, Unclear, Unset, Outcome

LEMMA BeginSaveKeeps ==
  ASSUME IInv, NEW p \in Procs, NEW c \in Configs, BeginSave(p, c)
  PROVE  ProcInv' /\ ConfigInv'
<1> DEFINE saver == [Idle EXCEPT !.pc = "writing", !.cfg = c, !.linked = TRUE, !.alone = TRUE]
           procs == [proc EXCEPT ![p] = saver]
<1>1. /\ proc[p].pc = "idle" /\ file' = Empty
      /\ proc' = IF SomeoneSaves THEN Disturbed(procs) ELSE procs
      /\ told' = IF SomeoneSaves THEN Unclear ELSE told
      /\ UNCHANGED <<dbs, installed>>
  BY DEF BeginSave, StartsSaving, dbVars
<1>2. /\ saver \in Process /\ saver.pc = "writing" /\ saver.cfg = c
      /\ saver.linked /\ saver.alone /\ ~saver.astray
  BY DEF Idle, Process, Steps
<1> HIDE DEF saver
<1>3. procs[p] = saver /\ (\A q \in Procs \ {p} : procs[q] = proc[q]) /\ procs \in [Procs -> Process]
  BY <1>2 DEF IInv, ProcInv
<1> HIDE DEF procs
<1>4. /\ proc' \in [Procs -> Process]
      /\ \A q \in Procs :
           /\ proc'[q].pc = procs[q].pc /\ proc'[q].db = procs[q].db
           /\ proc'[q].release = procs[q].release /\ proc'[q].cfg = procs[q].cfg
           /\ proc'[q].env = procs[q].env /\ proc'[q].astray = procs[q].astray
           /\ IF SomeoneSaves THEN ~proc'[q].alone ELSE proc'[q] = procs[q]
  <2>1. CASE SomeoneSaves
    BY <1>1, <1>3, <2>1 DEF Disturbed, Process
  <2>2. CASE ~SomeoneSaves
    BY <1>1, <1>3, <2>2
  <2> QED BY <2>1, <2>2
<1>5. ProcInv'
  BY <1>1, <1>2, <1>3, <1>4, AllProcs
<1>6. \A q \in Procs : Saving(q)' <=> q = p \/ Saving(q)
  BY <1>2, <1>3, <1>4 DEF Saving
<1>7. ASSUME NEW q \in Procs, Saving(q)'
      PROVE  SaverOK(q)'
  <2>1. proc'[q].cfg \in Configs
    BY <1>2, <1>3, <1>4, <1>6, <1>7 DEF IInv, ConfigInv, SaverOK
  <2>2. CASE SomeoneSaves
    BY <1>1, <1>4, <2>1, <2>2 DEF SaverOK
  <2>3. CASE ~SomeoneSaves
    <3>1. q = p /\ \A o \in Procs \ {p} : ~Saving(o)'
      BY <1>6, <1>7, <2>3 DEF SomeoneSaves
    <3> QED BY <1>1, <1>2, <1>3, <1>4, <2>1, <2>3, <3>1 DEF SaverOK
  <2> QED BY <2>2, <2>3
<1>8. OrderlyConfig'
  BY <1>6 DEF OrderlyConfig, SomeoneSaves
<1>9. ASSUME NEW q \in Procs
      PROVE  ~proc'[q].astray /\ EndpointOf(q)'
  <2>1. CASE q = p
    BY <1>2, <1>3, <1>4, <2>1 DEF EndpointOf
  <2>2. CASE q # p
    <3>1. ~proc[q].astray /\ EndpointOf(q)
      BY EndpointsOf DEF IInv, ConfigInv
    <3>2. /\ proc'[q].pc = proc[q].pc /\ proc'[q].cfg = proc[q].cfg /\ proc'[q].env = proc[q].env
          /\ proc'[q].astray = proc[q].astray
      BY <1>3, <1>4, <2>2
    <3> QED BY <3>1, <3>2 DEF EndpointOf
  <2> QED BY <2>1, <2>2
<1>10. EndpointHonest'
  BY <1>9 DEF EndpointHonest, EndpointOf
<1>11. file' \in FileState /\ file'.state # "whole"
  BY <1>1 DEF Empty, FileState
<1>12. told' \in Outcome /\ (told'.state = "set" => told'.cfg \in Configs)
  BY <1>1 DEF IInv, ConfigInv, Unclear, Outcome
<1> QED BY <1>5, <1>7, <1>8, <1>10, <1>11, <1>12 DEF ConfigInv

-----------------------------------------------------------------------------
LEMMA SameConfig ==
  ASSUME ConfigInv, UNCHANGED <<proc, cfgVars>>
  PROVE  ConfigInv'
BY DEF ConfigInv, cfgVars, SaverOK, Saving, SomeoneSaves, OrderlyConfig, EndpointHonest

(* A step of one process on its own behalf: the files are as they were.    *)
LEMMA ConnectOrConfigure ==
  ASSUME IInv, NEW p \in Procs,
         \/ \E env \in Envs : StartRemote(p, env)
         \/ \E env \in Envs, f \in Files : StartLocal(p, env, f)
         \/ Opened(p) \/ Configuring(p) \/ Exit(p)
  PROVE  IInv'
<1>1. ProcInv' /\ ConfigInv'
  BY StartRemoteKeeps, StartLocalKeeps, OpenedKeeps, ExitKeeps, BeginSaveKeeps, EndSaveKeeps,
     SaveFailsKeeps, RemoveKeeps DEF Configuring
<1>2. UNCHANGED <<dbVars, installed, now>>
  BY DEF StartRemote, StartLocal, Starts, Opened, Configuring, Exit, BeginSave, StartsSaving, EndSave,
         SaveFails, Remove
<1>3. DbInv'
  <2>1. installed \in Releases /\ installed >= installed /\ now \in Nat /\ now >= now
    BY StartupAssumption DEF IInv, DbInv
  <2> QED BY <1>2, <2>1, FilesAlone DEF IInv
<1> QED BY <1>1, <1>3 DEF IInv

(* A step on a file: the processes and remote.json are as they were.       *)
LEMMA OnFiles ==
  ASSUME IInv,
         \/ \E p \in Procs : Migrate(p) \/ Using(p)
         \/ \E f, g \in Files : Export(f, g)
  PROVE  IInv'
<1>1. DbInv'
  BY MigrateFiles, StoreFiles, DeleteFiles, ExportFiles DEF Using
<1>2. UNCHANGED <<proc, cfgVars, installed>>
  BY DEF Migrate, Using, Store, Delete, Export
<1>3. \A f \in Files : dbs'[f].version >= dbs[f].version
  BY FilesGrow DEF Using
<1>4. installed \in Releases /\ installed >= installed
  BY StartupAssumption DEF IInv, DbInv
<1>5. ProcInv'
  BY <1>1, <1>2, <1>3, <1>4, SameProcs
<1>6. ConfigInv'
  BY <1>2, SameConfig DEF IInv
<1> QED BY <1>1, <1>5, <1>6 DEF IInv

(* The clock, an upgrade of the machine, or nothing.                       *)
LEMMA Around ==
  ASSUME IInv, Tick \/ Upgrade \/ UNCHANGED vars
  PROVE  IInv'
<1>1. UNCHANGED <<dbVars, cfgVars, proc>>
  BY DEF Tick, Upgrade, vars
<1>2. installed' \in Releases /\ installed' >= installed /\ now' \in Nat /\ now' >= now
  BY StartupAssumption DEF Tick, Upgrade, vars, IInv, DbInv
<1>3. DbInv'
  BY <1>1, <1>2, FilesAlone DEF IInv
<1>4. \A f \in Files : dbs'[f].version >= dbs[f].version
  BY <1>1, FilesGrow DEF dbVars
<1>5. ProcInv'
  BY <1>1, <1>2, <1>3, <1>4, SameProcs
<1>6. ConfigInv'
  BY <1>1, SameConfig DEF IInv
<1> QED BY <1>3, <1>5, <1>6 DEF IInv

LEMMA Inductively == IInv /\ [Next]_vars => IInv'
BY ConnectOrConfigure, OnFiles, Around DEF Next, Connecting

(* The three parts hold together of every reachable state, for any number  *)
(* of processes, files, memories, releases and endpoints.                  *)
THEOREM Inductive == Spec => []IInv
<1>1. Init => IInv
  BY Initially
<1> QED BY <1>1, Inductively, PTL DEF Spec

-----------------------------------------------------------------------------
(* Every row keeps a pk and an id of its own and the columns of its        *)
(* version through every migration, write and copy, VACUUM's numbering     *)
(* included (0001-0005, storage.go Open, server.go ExportSnapshot).        *)
THEOREM TypeCorrect == Spec => []TypeOK
<1>1. IInv => TypeOK
  <2> SUFFICES ASSUME IInv PROVE TypeOK
    OBVIOUS
  <2>1. ASSUME NEW f \in Files
        PROVE  /\ dbs[f] \in Database
               /\ \A r, s \in dbs[f].rows : r.pk = s.pk \/ r.id = s.id => r = s
               /\ \A r \in dbs[f].rows : /\ r.kind = Null <=> dbs[f].version = 5
                                         /\ dbs[f].version >= 4 => r.expires # Null
               /\ dbs[f].version <= installed
    BY DEF IInv, DbInv, FileOK, Sound, Unique, Columns
  <2>2. ASSUME NEW p \in Procs
        PROVE  /\ proc[p].pc \in Steps
               /\ proc[p].pc = "local" => dbs[proc[p].db].version >= proc[p].release
    BY DEF IInv, ProcInv, HasFile, Process
  <2> QED BY <2>1, <2>2 DEF TypeOK
<1> QED BY <1>1, Inductive, PTL

(* Postings and mirror follow the rows at every version of every file, for *)
(* any rows and keywords (0001-0005).                                      *)
THEOREM IndexesCorrect == Spec => []IndexesFollow
<1>1. IInv => IndexesFollow
  BY DEF IInv, DbInv, FileOK, Follows, MirrorFollows, Leftover, IndexesFollow
<1> QED BY <1>1, Inductive, PTL

(* No upgrade, use or copy loses a memory, a keyword or a lifetime, for    *)
(* any lengths of the hour and the month (0003-0005).                      *)
THEOREM NothingIsLost == Spec => []NothingLost
<1>1. IInv => NothingLost
  <2> SUFFICES ASSUME IInv, NEW s \in stored
               PROVE  \E r \in dbs[s.file].rows :
                        LET d == dbs[s.file] IN
                        /\ r.id = s.id
                        /\ s.keywords \subseteq r.keywords
                        /\ \A kw \in s.keywords \cup
                               (IF d.version = 5 /\ s.kind # Null THEN {Tag(s.kind)} ELSE {}) :
                             d.version >= 2 => <<kw, MirrorKey(d.version, r)>> \in d.mirror
                        /\ s.expires # Null => r.expires = s.expires
                        /\ s.expires = Null /\ d.version >= 4 =>
                             /\ r.expires > bounded[s.file] + Month - Hour
                             /\ r.expires <= bounded[s.file] + Month
    BY DEF NothingLost
  <2> DEFINE d == dbs[s.file]
  <2>1. PICK r \in d.rows : Carries(d, s, bounded[s.file], r)
    BY DEF IInv, DbInv, Kept
  <2>2. d.version = 5 => MirrorKey(d.version, r) = r.pk
    BY DEF MirrorKey
  <2> HIDE DEF d
  <2>3. \A kw \in s.keywords \cup (IF d.version = 5 /\ s.kind # Null THEN {Tag(s.kind)} ELSE {}) :
          d.version >= 2 => <<kw, MirrorKey(d.version, r)>> \in d.mirror
    BY <2>1, <2>2 DEF Carries
  <2> QED BY <2>1, <2>3 DEF Carries, d
<1> QED BY <1>1, Inductive, PTL

(* Overlapping saves never mix two endpoints, and a process goes local     *)
(* only if none is set (remotecfg.go Save, Resolve).                       *)
THEOREM EndpointIsHonest == Spec => []EndpointHonest
<1>1. IInv => EndpointHonest
  BY DEF IInv, ConfigInv
<1> QED BY <1>1, Inductive, PTL

(* remote.json says what the last remote command that did not overlap      *)
(* another reported, whatever happened before (remotecfg.go Save, Remove). *)
THEOREM ConfigIsOrderly == Spec => []OrderlyConfig
<1>1. IInv => OrderlyConfig
  BY DEF IInv, ConfigInv
<1> QED BY <1>1, Inductive, PTL
=============================================================================
