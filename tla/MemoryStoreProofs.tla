------------------------- MODULE MemoryStoreProofs --------------------------
(***************************************************************************)
(* Proofs about MemoryStore, for any number of callers, ids, keywords and  *)
(* primary keys: type correctness, and the inductive invariant IInv from   *)
(* which the index and link invariants follow; then what a call does to    *)
(* the committed rows, and that the store implements MemoryService.        *)
(*                                                                         *)
(* The first part is about the SQL statements alone: what each of them     *)
(* does to a database whose rows and indexes agree. The second part takes  *)
(* the actions one by one. The third says that the effect of a transaction *)
(* is, statement by statement, a function of the rows it started from      *)
(* (EInv), so that its COMMIT is one step of MemoryService.                *)
(***************************************************************************)
EXTENDS MemoryStore, FiniteSetTheorems, TLAPS

USE NoneAssumption

-----------------------------------------------------------------------------
(* A used pk holds a row, whose id is a real id.                           *)
LEMMA UsedRow ==
  ASSUME NEW d \in Database, NEW k \in Used(d)
  PROVE  /\ k \in Pks
         /\ d.memories[k] \in Row
         /\ d.memories[k].id \in Ids
  BY DEF Used, Database, Row

LEMMA NoRowIsNoRow == NoRow \notin Row /\ NoRow.id = NoId /\ NoRow.keywords = {}
  BY DEF NoRow, Row

(* A pk is used exactly when its row names an id.                          *)
LEMMA UsedById ==
  ASSUME NEW d \in Database, NEW k \in Pks
  PROVE  k \in Used(d) <=> d.memories[k].id \in Ids
<1>1. d.memories[k] \in Row \cup {NoRow}
  BY DEF Database
<1>2. CASE d.memories[k] = NoRow
  BY <1>2, NoRowIsNoRow DEF Used
<1>3. CASE d.memories[k] \in Row
  BY <1>3, NoRowIsNoRow DEF Used, Row
<1> QED BY <1>1, <1>2, <1>3

(* No row has the null id.                                                 *)
LEMMA NoIdAbsent ==
  ASSUME NEW d \in Database
  PROVE  PkOf(d, NoId) = {} /\ ~Present(d, NoId)
  BY UsedRow DEF PkOf, Present

LEMMA EmptyDbOK == EmptyDb \in Database /\ Sound(EmptyDb) /\ Synced(EmptyDb) /\ Used(EmptyDb) = {}
  BY DEF EmptyDb, Database, Sound, Synced, UniqueIn, ForwardIn, Indexed, Used, NoRow

(* INSERT of a new row that corrects nothing yet.                          *)
LEMMA InsertRowOK ==
  ASSUME NEW d \in Database, Sound(d),
         NEW k \in Pks, IsNextPk(d, k),
         NEW row \in Row, row.superseded_by = NoId, ~Present(d, row.id)
  PROVE  LET e == InsertRow(d, k, row) IN
         /\ e \in Database
         /\ Used(e) = Used(d) \cup {k} /\ k \notin Used(d)
         /\ e.memories = [d.memories EXCEPT ![k] = row]
         /\ e.memory_keywords = d.memory_keywords
         /\ Sound(e)
<1> DEFINE e == InsertRow(d, k, row)
<1>1. /\ e.memories = [d.memories EXCEPT ![k] = row]
      /\ e.memory_keywords = d.memory_keywords
      /\ e.memories_fts = d.memories_fts \cup Postings(k, row.keywords)
  BY DEF InsertRow, Database
<1>2. e \in Database
  BY DEF InsertRow, Database, Row, Postings
<1>3. k \notin Used(d)
  BY PksAssumption DEF IsNextPk, Used
<1>4. Used(e) = Used(d) \cup {k}
  BY <1>1, NoRowIsNoRow DEF Used, Database
<1>5. UniqueIn(e)
  BY <1>1, <1>3, <1>4 DEF Sound, UniqueIn, Present, PkOf, Used, Database
<1>6. ForwardIn(e)
  <2> SUFFICES ASSUME NEW i \in Used(e), NEW j \in Used(e),
                      e.memories[i].superseded_by = e.memories[j].id
               PROVE  i < j
    BY DEF ForwardIn
  <2>1. e.memories[j].id \in Ids
    BY <1>2, UsedRow
  <2>2. i # k
    BY <1>1, <2>1 DEF Database
  <2>3. i \in Used(d) /\ e.memories[i] = d.memories[i]
    BY <1>1, <1>4, <2>2 DEF Database, Used
  <2>4. CASE j = k
    BY <2>3, <2>4 DEF IsNextPk
  <2>5. CASE j # k
    <3>1. j \in Used(d) /\ e.memories[j] = d.memories[j]
      BY <1>1, <1>4, <2>5 DEF Database, Used
    <3> QED BY <2>3, <3>1 DEF Sound, ForwardIn
  <2> QED BY <2>4, <2>5
<1>7. e.memories_fts = Indexed(e)
  <2>1. d.memories[k].keywords = {}
    BY <1>3, NoRowIsNoRow DEF Used
  <2>2. row.keywords \subseteq Keywords
    BY DEF Row
  <2>3. d.memories_fts = Indexed(d)
    BY DEF Sound
  <2> QED BY <1>1, <2>1, <2>2, <2>3 DEF Indexed, Postings, Database
<1> QED BY <1>1, <1>2, <1>3, <1>4, <1>5, <1>6, <1>7 DEF Sound

(* UPDATE of a row that keeps its id and keywords; a new link may only     *)
(* name an id that no row has yet.                                         *)
LEMMA UpdateRowOK ==
  ASSUME NEW d \in Database, Sound(d),
         NEW k \in Used(d), NEW row \in Row,
         row.id = d.memories[k].id, row.keywords = d.memories[k].keywords,
         row.superseded_by = d.memories[k].superseded_by \/ ~Present(d, row.superseded_by)
  PROVE  LET e == UpdateRow(d, k, row) IN
         /\ e \in Database
         /\ Used(e) = Used(d)
         /\ e.memories = [d.memories EXCEPT ![k] = row]
         /\ e.memory_keywords = d.memory_keywords
         /\ Indexed(e) = Indexed(d)
         /\ Sound(e)
<1> DEFINE e == UpdateRow(d, k, row)
<1>0. k \in Pks
  BY UsedRow
<1>1. /\ e.memories = [d.memories EXCEPT ![k] = row]
      /\ e.memory_keywords = d.memory_keywords
      /\ e.memories_fts = (d.memories_fts \ Postings(k, row.keywords)) \cup Postings(k, row.keywords)
  BY DEF UpdateRow, Database
<1>2. e \in Database
  BY <1>0 DEF UpdateRow, Database, Row, Postings
<1>3. Used(e) = Used(d)
  BY <1>0, <1>1, NoRowIsNoRow DEF Used, Database
<1>4. UniqueIn(e)
  BY <1>0, <1>1, <1>3 DEF Sound, UniqueIn, Used, Database
<1>5. ForwardIn(e)
  <2> SUFFICES ASSUME NEW i \in Used(e), NEW j \in Used(e),
                      e.memories[i].superseded_by = e.memories[j].id
               PROVE  i < j
    BY DEF ForwardIn
  <2>1. i \in Used(d) /\ j \in Used(d) /\ i \in Pks /\ j \in Pks
    BY <1>3, UsedRow
  <2>2. e.memories[j].id = d.memories[j].id
    BY <1>1, <2>1 DEF Database
  <2>3. e.memories[i].superseded_by = d.memories[i].superseded_by
    <3>1. CASE i # k
      BY <1>1, <2>1, <3>1 DEF Database
    <3>2. CASE i = k
      <4>1. e.memories[i] = row
        BY <1>1, <2>1, <3>2 DEF Database
      <4>2. Present(d, row.superseded_by)
        BY <2>1, <2>2, <4>1 DEF Present, PkOf
      <4> QED BY <4>1, <4>2, <3>2
    <3> QED BY <3>1, <3>2
  <2> QED BY <2>1, <2>2, <2>3 DEF Sound, ForwardIn
<1>6. Indexed(e) = Indexed(d)
  BY <1>0, <1>1 DEF Indexed, Database
<1>7. e.memories_fts = Indexed(e)
  <2>1. Postings(k, row.keywords) \subseteq Indexed(d)
    BY <1>0, UsedRow DEF Postings, Indexed, Row
  <2>2. d.memories_fts = Indexed(d)
    BY DEF Sound
  <2> QED BY <1>1, <1>6, <2>1, <2>2
<1> QED BY <1>1, <1>2, <1>3, <1>4, <1>5, <1>6, <1>7 DEF Sound

(* DELETE of a row.                                                        *)
LEMMA DeleteRowOK ==
  ASSUME NEW d \in Database, Sound(d), NEW k \in Used(d)
  PROVE  LET e == DeleteRow(d, k) IN
         /\ e \in Database
         /\ Used(e) = Used(d) \ {k}
         /\ e.memories = [d.memories EXCEPT ![k] = NoRow]
         /\ e.memory_keywords = d.memory_keywords
         /\ Sound(e)
<1> DEFINE e == DeleteRow(d, k)
<1>0. k \in Pks
  BY UsedRow
<1>1. /\ e.memories = [d.memories EXCEPT ![k] = NoRow]
      /\ e.memory_keywords = d.memory_keywords
      /\ e.memories_fts = d.memories_fts \ Postings(k, d.memories[k].keywords)
  BY DEF DeleteRow, Database
<1>2. e \in Database
  BY <1>0 DEF DeleteRow, Database, Postings
<1>3. Used(e) = Used(d) \ {k}
  BY <1>0, <1>1 DEF Used, Database
<1>4. \A i \in Used(e) : i \in Used(d) /\ e.memories[i] = d.memories[i]
  BY <1>1, <1>3 DEF Used, Database
<1>5. UniqueIn(e) /\ ForwardIn(e)
  BY <1>4 DEF Sound, UniqueIn, ForwardIn
<1>6. e.memories_fts = Indexed(e)
  <2>1. d.memories_fts = Indexed(d)
    BY DEF Sound
  <2> QED BY <1>0, <1>1, <2>1, NoRowIsNoRow DEF Indexed, Postings, Database
<1> QED BY <1>1, <1>2, <1>3, <1>5, <1>6 DEF Sound

(* The mirror statements touch nothing but the mirror.                     *)
LEMMA KeywordStatementsOK ==
  ASSUME NEW d \in Database, Sound(d), NEW k \in Pks, NEW keywords \in SUBSET Keywords
  PROVE  /\ InsertKeywords(d, k, keywords) = [d EXCEPT !.memory_keywords = @ \cup Postings(k, keywords)]
         /\ InsertKeywords(d, k, keywords) \in Database
         /\ InsertKeywords(d, k, keywords).memories = d.memories
         /\ Sound(InsertKeywords(d, k, keywords))
         /\ DeleteKeywords(d, k) \in Database
         /\ DeleteKeywords(d, k).memories = d.memories
         /\ Sound(DeleteKeywords(d, k))
<1>1. /\ InsertKeywords(d, k, keywords) \in Database
      /\ InsertKeywords(d, k, keywords).memories = d.memories
      /\ InsertKeywords(d, k, keywords).memories_fts = d.memories_fts
  BY DEF InsertKeywords, Database, Postings
<1>2. /\ DeleteKeywords(d, k) \in Database
      /\ DeleteKeywords(d, k).memories = d.memories
      /\ DeleteKeywords(d, k).memories_fts = d.memories_fts
  BY DEF DeleteKeywords, Database
<1> QED
  BY <1>1, <1>2 DEF InsertKeywords, Sound, UniqueIn, ForwardIn, Indexed, Used

(* After the INSERT of a memory the mirror lags by that memory; after the  *)
(* INSERT OR IGNORE of its keywords it does not lag at all.                *)
LEMMA InsertKeywordsSyncs ==
  ASSUME NEW d \in Database, Sound(d), NEW i \in Ids, Lagging(d, i),
         NEW k \in PkOf(d, i)
  PROVE  Synced(InsertKeywords(d, k, d.memories[k].keywords))
<1> DEFINE e == InsertKeywords(d, k, d.memories[k].keywords)
<1>1. k \in Used(d) /\ k \in Pks /\ d.memories[k] \in Row /\ d.memories[k].id = i
  BY UsedRow DEF PkOf
<1>2. e.memories = d.memories /\ e.memory_keywords = d.memory_keywords \cup Postings(k, d.memories[k].keywords)
  BY DEF InsertKeywords, Database
<1>3. Indexed(e) = Indexed(d)
  BY <1>2 DEF Indexed
<1>4. Postings(k, d.memories[k].keywords) \subseteq Indexed(d)
  BY <1>1 DEF Postings, Indexed, Row
<1>5. ASSUME NEW p \in Indexed(d) \ d.memory_keywords
      PROVE  p \in Postings(k, d.memories[k].keywords)
  <2>1. p \in Pks \X Keywords /\ p[2] \in d.memories[p[1]].keywords /\ d.memories[p[1]].id = i
    BY <1>5 DEF Lagging, Indexed
  <2>2. p[1] \in Used(d)
    BY <2>1, UsedById
  <2>3. p[1] = k
    BY <1>1, <2>1, <2>2 DEF Sound, UniqueIn
  <2> QED BY <2>1, <2>3 DEF Postings
<1> QED BY <1>2, <1>3, <1>4, <1>5 DEF Synced, Lagging

(* After the DELETE of a memory's mirror rows the mirror lags by that      *)
(* memory and holds nothing of it; after the DELETE of its row it is       *)
(* exact again.                                                            *)
LEMMA DeleteKeywordsLags ==
  ASSUME NEW d \in Database, Sound(d), Synced(d), NEW i \in Ids, NEW k \in PkOf(d, i)
  PROVE  LET e == DeleteKeywords(d, k) IN
         /\ Lagging(e, i)
         /\ \A p \in e.memory_keywords : e.memories[p[1]].id # i
<1> DEFINE e == DeleteKeywords(d, k)
<1>1. k \in Used(d) /\ k \in Pks /\ d.memories[k].id = i
  BY UsedRow DEF PkOf
<1>2. e.memories = d.memories /\ e.memory_keywords = {p \in d.memory_keywords : p[1] # k}
  BY DEF DeleteKeywords, Database
<1>3. Indexed(e) = Indexed(d) /\ d.memory_keywords = Indexed(d)
  BY <1>2 DEF Indexed, Synced
<1>4. Lagging(e, i)
  BY <1>1, <1>2, <1>3 DEF Lagging
<1>5. ASSUME NEW p \in e.memory_keywords, d.memories[p[1]].id = i
      PROVE  FALSE
  <2>1. p \in Pks \X Keywords /\ p[1] # k
    BY <1>2, <1>3 DEF Indexed
  <2>2. p[1] \in Used(d)
    BY <1>5, <2>1, UsedById
  <2> QED BY <1>1, <1>5, <2>1, <2>2 DEF Sound, UniqueIn
<1> QED BY <1>2, <1>4, <1>5

LEMMA DeleteRowSyncs ==
  ASSUME NEW d \in Database, Sound(d), NEW i \in Ids, NEW k \in PkOf(d, i), Lagging(d, i),
         \A p \in d.memory_keywords : d.memories[p[1]].id # i
  PROVE  Synced(DeleteRow(d, k))
<1> DEFINE e == DeleteRow(d, k)
<1>1. k \in Used(d) /\ k \in Pks /\ d.memories[k].id = i
  BY UsedRow DEF PkOf
<1>2. e.memories = [d.memories EXCEPT ![k] = NoRow] /\ e.memory_keywords = d.memory_keywords
  BY DEF DeleteRow, Database
<1>3. \A p \in Pks \X Keywords : p[1] = k => p \notin Indexed(e)
  BY <1>1, <1>2, NoRowIsNoRow DEF Indexed, Database
<1>4. \A p \in Pks \X Keywords : p[1] # k => (p \in Indexed(e) <=> p \in Indexed(d))
  BY <1>1, <1>2 DEF Indexed, Database
<1>5. \A p \in Indexed(d) : p[1] # k => p \in d.memory_keywords
  <2> SUFFICES ASSUME NEW p \in Indexed(d), p[1] # k, p \notin d.memory_keywords
               PROVE  FALSE
    OBVIOUS
  <2>1. p \in Pks \X Keywords /\ d.memories[p[1]].id = i
    BY DEF Indexed, Lagging
  <2>2. p[1] \in Used(d)
    BY <2>1, UsedById
  <2> QED BY <1>1, <2>1, <2>2 DEF Sound, UniqueIn
<1>6. d.memory_keywords \subseteq Indexed(d) /\ \A p \in d.memory_keywords : p[1] # k
  BY <1>1 DEF Lagging
<1> QED BY <1>2, <1>3, <1>4, <1>5, <1>6 DEF Synced, Indexed

-----------------------------------------------------------------------------
(* The request of an idle caller is well typed and stores nothing.         *)
LEMMA NoRequestOK ==
  /\ NoRequest \in Request /\ NoRequest.op = "get"
  /\ NoRequest.id = NoId /\ NoRequest.target = NoId
  BY DEF NoRequest, Request, Ops

(* The initial state.                                                      *)
LEMMA InitOK == Init => IInv
<1> SUFFICES ASSUME Init PROVE IInv
  OBVIOUS
<1>1. TypeOK
  BY EmptyDbOK DEF Init, TypeOK, Request, NoRequest, Ops, Steps, Replies
<1>2. LockInv /\ \A c \in Callers : RequestOK(c)
  BY DEF Init, LockInv, InTx, RequestOK, NoRequest
<1>3. FreshIds
  BY EmptyDbOK DEF Init, FreshIds, Storing, NoRequest
<1>4. Sound(db) /\ Synced(db) /\ \A c \in Callers : writer # c
  BY EmptyDbOK DEF Init
<1> QED BY <1>1, <1>2, <1>3, <1>4 DEF IInv

(* A step of one caller leaves the transaction of another as it was.       *)
LEMMA TransactionKept ==
  ASSUME NEW w \in Callers, TransactionOK(w), UNCHANGED <<db, work>>,
         pc'[w] = pc[w], req'[w] = req[w], agg'[w] = agg[w]
  PROVE  TransactionOK(w)'
  BY DEF TransactionOK, AggregateOK

(* A step outside the transactions: nothing but the caller's own state     *)
(* changes, and perhaps a new id is drawn.                                 *)
LEMMA OutsideStep ==
  ASSUME IInv, NEW c \in Callers, NEW step \in Steps \ InTx,
         writer # c, pc' = [pc EXCEPT ![c] = step],
         UNCHANGED <<db, writer, work, history>>,
         NEW r \in Request, req' = [req EXCEPT ![c] = r],
         NEW m \in Row \cup {NoRow}, agg' = [agg EXCEPT ![c] = m],
         NEW answer \in Replies, reply' = [reply EXCEPT ![c] = answer],
         issued' \in SUBSET Ids, issued \subseteq issued',
         RequestOK(c)',
         \/ ~Storing(c)'
         \/ r = req[c] /\ Storing(c)
         \/ r.id \in issued' \ issued
  PROVE  IInv'
<1>1. TypeOK'
  BY DEF IInv, TypeOK, history
<1>2. LockInv'
  BY DEF IInv, LockInv, TypeOK
<1>3. \A b \in Callers : RequestOK(b)'
  <2> SUFFICES ASSUME NEW b \in Callers, b # c PROVE RequestOK(b)'
    OBVIOUS
  <2>1. pc'[b] = pc[b] /\ req'[b] = req[b]
    BY DEF IInv, TypeOK
  <2> QED BY <2>1 DEF IInv, RequestOK
<1>4. \A b \in Callers : b # c => (Storing(b)' <=> Storing(b)) /\ req'[b] = req[b]
  BY DEF IInv, TypeOK, Storing
<1>5. FreshIds'
  <2>1. \A k \in Used(db) : db.memories[k].id \in issued
    BY DEF IInv, FreshIds
  <2>2. req'[c] = r
    BY DEF IInv, TypeOK
  <2>3. r.id \in issued' \ issued => ~Present(db, r.id)
    BY <2>1 DEF Present, PkOf
  <2>4. \A b \in Callers : Storing(b)' => req'[b].id \in issued' /\ ~Present(db, req'[b].id)
    BY <1>4, <2>2, <2>3 DEF IInv, FreshIds
  <2>5. ASSUME NEW a \in Callers, NEW b \in Callers, Storing(a)', Storing(b)',
               req'[a].id = req'[b].id
        PROVE  a = b
    BY <1>4, <2>2, <2>5 DEF IInv, FreshIds
  <2> QED BY <2>1, <2>4, <2>5 DEF FreshIds
<1>6. (Sound(db) /\ Synced(db))'
  BY DEF IInv
<1>7. ASSUME NEW w \in Callers, writer' = w PROVE TransactionOK(w)'
  <2>1. w # c /\ writer = w
    BY <1>7
  <2>2. pc'[w] = pc[w] /\ req'[w] = req[w] /\ agg'[w] = agg[w]
    BY <2>1 DEF IInv, TypeOK
  <2> QED BY <2>1, <2>2, TransactionKept DEF IInv
<1> QED BY <1>1, <1>2, <1>3, <1>5, <1>6, <1>7 DEF IInv

(* A statement inside a transaction: nothing committed changes.            *)
LEMMA InsideStep ==
  ASSUME IInv, NEW c \in Callers, NEW step \in InTx,
         pc[c] \in InTx, pc' = [pc EXCEPT ![c] = step],
         UNCHANGED <<db, writer, req, reply, issued, history>>,
         work' \in Database, agg' \in [Callers -> Row \cup {NoRow}],
         TransactionOK(c)'
  PROVE  IInv'
<1>0. writer = c
  BY DEF IInv, LockInv
<1>1. TypeOK'
  BY DEF IInv, TypeOK, history, InTx, Steps
<1>2. LockInv'
  BY DEF IInv, LockInv, TypeOK
<1>3. \A b \in Callers : RequestOK(b)'
  BY DEF IInv, TypeOK, RequestOK, InTx
<1>4. \A b \in Callers : Storing(b)' <=> Storing(b)
  BY DEF IInv, TypeOK, Storing, InTx
<1>5. FreshIds'
  BY <1>4 DEF IInv, FreshIds
<1>6. (Sound(db) /\ Synced(db))'
  BY DEF IInv
<1> QED BY <1>0, <1>1, <1>2, <1>3, <1>5, <1>6 DEF IInv

(* The end of a transaction that leaves the committed database alone.      *)
LEMMA AbortStep ==
  ASSUME IInv, NEW c \in Callers, NEW step \in {"idle", "reply"},
         writer = c, pc' = [pc EXCEPT ![c] = step],
         writer' = NoCaller, work' = EmptyDb,
         UNCHANGED <<db, issued, history>>,
         agg' = [agg EXCEPT ![c] = NoRow],
         NEW r \in {req[c], NoRequest}, req' = [req EXCEPT ![c] = r],
         step = "idle" \/ r = req[c],
         NEW answer \in Replies, reply' = [reply EXCEPT ![c] = answer]
  PROVE  IInv'
<1>0. r \in Request /\ EmptyDb \in Database
  <2>1. req[c] \in Request
    BY DEF IInv, TypeOK
  <2> QED BY <2>1, EmptyDbOK, NoRequestOK
<1>1. TypeOK'
  BY <1>0 DEF IInv, TypeOK, history, Steps
<1>2. LockInv'
  BY DEF IInv, LockInv, TypeOK, InTx
<1>3. \A b \in Callers : RequestOK(b)'
  <2>1. pc[c] # "idle"
    BY DEF IInv, LockInv, InTx
  <2>2. RequestOK(c)'
    <3>1. CASE r = req[c]
      BY <2>1, <3>1 DEF IInv, TypeOK, RequestOK
    <3>2. CASE r = NoRequest /\ step = "idle"
      BY <2>1, <3>2 DEF IInv, TypeOK, RequestOK, NoRequest
    <3> QED BY <3>1, <3>2
  <2>3. ASSUME NEW b \in Callers, b # c PROVE RequestOK(b)'
    <3>1. pc'[b] = pc[b] /\ req'[b] = req[b]
      BY <2>3 DEF IInv, TypeOK
    <3> QED BY <3>1 DEF IInv, RequestOK
  <2> QED BY <2>2, <2>3
<1>4. \A b \in Callers : Storing(b)' => Storing(b) /\ req'[b] = req[b]
  BY DEF IInv, TypeOK, Storing
<1>5. FreshIds'
  BY <1>4 DEF IInv, FreshIds
<1>6. (Sound(db) /\ Synced(db))'
  BY DEF IInv
<1> QED BY <1>1, <1>2, <1>3, <1>5, <1>6 DEF IInv

-----------------------------------------------------------------------------
(* The calls and the steps outside transactions.                           *)
LEMMA CallOK == ASSUME IInv, NEW c \in Callers, Call(c) PROVE IInv'
<1>1. CASE InvokeStore(c)
  <2>1. PICK i \in Ids \ issued, t \in Ids \cup {NoId}, keywords \in SUBSET Keywords :
          /\ t # i
          /\ Invoke(c, [NoRequest EXCEPT !.op = "store", !.id = i, !.target = t, !.keywords = keywords],
                    "begin")
          /\ issued' = issued \cup {i}
    BY <1>1 DEF InvokeStore
  <2> DEFINE r == [NoRequest EXCEPT !.op = "store", !.id = i, !.target = t, !.keywords = keywords]
  <2>2. r \in Request /\ r.op = "store" /\ r.id = i /\ r.target = t
    BY DEF NoRequest, Request, Ops
  <2> HIDE DEF r
  <2>3. /\ pc[c] = "idle" /\ pc' = [pc EXCEPT ![c] = "begin"]
        /\ req' = [req EXCEPT ![c] = r]
        /\ UNCHANGED <<db, writer, work, agg, reply, history>>
    BY <2>1 DEF Invoke, Goto, r
  <2>4. agg' = [agg EXCEPT ![c] = agg[c]] /\ reply' = [reply EXCEPT ![c] = reply[c]]
        /\ agg[c] \in Row \cup {NoRow} /\ reply[c] \in Replies
    BY <2>3 DEF IInv, TypeOK
  <2>5. writer # c /\ "begin" \in Steps \ InTx
    BY <2>3 DEF IInv, LockInv, InTx, Steps
  <2>6. RequestOK(c)'
    BY <2>1, <2>2, <2>3 DEF IInv, TypeOK, RequestOK
  <2>7. issued' \in SUBSET Ids /\ issued \subseteq issued' /\ r.id \in issued' \ issued
    BY <2>1, <2>2 DEF IInv, TypeOK
  <2> QED BY <2>2, <2>3, <2>4, <2>5, <2>6, <2>7, OutsideStep
<1>2. ASSUME NEW r \in Request, NEW step \in {"begin", "read"}, r.op # "store", r.id = NoId,
             r.target \in Ids, Invoke(c, r, step), UNCHANGED issued
      PROVE  IInv'
  <2>1. /\ pc[c] = "idle" /\ pc' = [pc EXCEPT ![c] = step]
        /\ req' = [req EXCEPT ![c] = r]
        /\ UNCHANGED <<db, writer, work, agg, reply, history>>
    BY <1>2 DEF Invoke, Goto
  <2>2. agg' = [agg EXCEPT ![c] = agg[c]] /\ reply' = [reply EXCEPT ![c] = reply[c]]
        /\ agg[c] \in Row \cup {NoRow} /\ reply[c] \in Replies /\ issued' \in SUBSET Ids
    BY <1>2, <2>1 DEF IInv, TypeOK
  <2>3. writer # c /\ step \in Steps \ InTx
    BY <2>1 DEF IInv, LockInv, InTx, Steps
  <2>4. RequestOK(c)' /\ ~Storing(c)'
    BY <1>2, <2>1 DEF IInv, TypeOK, RequestOK, Storing
  <2> QED BY <1>2, <2>1, <2>2, <2>3, <2>4, OutsideStep
<1>3. ASSUME NEW i \in Ids, NEW op \in {"rate", "delete", "get"}, NEW up \in BOOLEAN
      PROVE  LET r == [NoRequest EXCEPT !.op = op, !.target = i, !.up = up]
             IN  r \in Request /\ r.op # "store" /\ r.id = NoId /\ r.target \in Ids
  BY DEF NoRequest, Request, Ops
<1>4. CASE InvokeRate(c)
  <2>1. PICK i \in Ids, up \in BOOLEAN :
          Invoke(c, [NoRequest EXCEPT !.op = "rate", !.target = i, !.up = up], "begin")
    BY <1>4 DEF InvokeRate
  <2> QED BY <1>2, <1>3, <1>4, <2>1 DEF InvokeRate
<1>5. CASE InvokeDelete(c)
  <2>1. PICK i \in Ids : Invoke(c, [NoRequest EXCEPT !.op = "delete", !.target = i], "begin")
    BY <1>5 DEF InvokeDelete
  <2>2. LET r == [NoRequest EXCEPT !.op = "delete", !.target = i]
        IN  r \in Request /\ r.op # "store" /\ r.id = NoId /\ r.target \in Ids
    BY DEF NoRequest, Request, Ops
  <2> QED BY <1>2, <1>5, <2>1, <2>2 DEF InvokeDelete
<1>6. CASE InvokeGet(c)
  <2>1. PICK i \in Ids : Invoke(c, [NoRequest EXCEPT !.target = i], "read")
    BY <1>6 DEF InvokeGet
  <2>2. LET r == [NoRequest EXCEPT !.target = i]
        IN  r \in Request /\ r.op # "store" /\ r.id = NoId /\ r.target \in Ids
    BY DEF NoRequest, Request, Ops
  <2> QED BY <1>2, <1>6, <2>1, <2>2 DEF InvokeGet
<1> QED BY <1>1, <1>4, <1>5, <1>6 DEF Call

(* Refusals, lost bumps and failed reads: only the answer changes.         *)
LEMMA AnswerOK ==
  ASSUME IInv, NEW c \in Callers,
         \/ RejectInvalid(c) \/ Busy(c) \/ ReadRow(c) \/ BumpLost(c) \/ ReadFails(c)
  PROVE  IInv'
<1>1. PICK step \in {"bump", "reply"}, answer \in Replies :
        pc' = [pc EXCEPT ![c] = step] /\ reply' = [reply EXCEPT ![c] = answer]
  BY DEF RejectInvalid, Busy, ReadRow, BumpLost, ReadFails, Reply, Goto, Replies, IInv, TypeOK
<1>2. /\ pc[c] \in {"begin", "read", "bump"}
      /\ UNCHANGED <<db, writer, work, req, agg, issued, history>>
  BY DEF RejectInvalid, Busy, ReadRow, BumpLost, ReadFails
<1>3. /\ req' = [req EXCEPT ![c] = req[c]] /\ req[c] \in Request
      /\ agg' = [agg EXCEPT ![c] = agg[c]] /\ agg[c] \in Row \cup {NoRow}
      /\ issued' \in SUBSET Ids
  BY <1>2 DEF IInv, TypeOK
<1>4. writer # c /\ step \in Steps \ InTx
  BY <1>2 DEF IInv, LockInv, InTx, Steps
<1>5. RequestOK(c)' /\ (~Storing(c)' \/ Storing(c))
  BY <1>1, <1>2 DEF IInv, TypeOK, RequestOK, Storing
<1> QED BY <1>1, <1>2, <1>3, <1>4, <1>5, OutsideStep

LEMMA ReturnOK == ASSUME IInv, NEW c \in Callers, Return(c) PROVE IInv'
<1>1. /\ pc[c] = "reply" /\ pc' = [pc EXCEPT ![c] = "idle"]
      /\ req' = [req EXCEPT ![c] = NoRequest] /\ reply' = [reply EXCEPT ![c] = "none"]
      /\ UNCHANGED <<db, writer, work, agg, issued, history>>
  BY DEF Return, Reset, Goto
<1>2. /\ agg' = [agg EXCEPT ![c] = agg[c]] /\ agg[c] \in Row \cup {NoRow}
      /\ issued' \in SUBSET Ids /\ "none" \in Replies
  BY <1>1 DEF IInv, TypeOK, Replies
<1>3. writer # c /\ "idle" \in Steps \ InTx
  BY <1>1 DEF IInv, LockInv, InTx, Steps
<1>4. RequestOK(c)' /\ ~Storing(c)'
  BY <1>1, NoRequestOK DEF IInv, TypeOK, RequestOK, Storing
<1> QED BY <1>1, <1>2, <1>3, <1>4, NoRequestOK, OutsideStep

LEMMA CrashOK == ASSUME IInv, NEW c \in Callers, Crash(c) PROVE IInv'
<1>1. /\ pc' = [pc EXCEPT ![c] = "idle"]
      /\ req' = [req EXCEPT ![c] = NoRequest] /\ reply' = [reply EXCEPT ![c] = "none"]
      /\ agg' = [agg EXCEPT ![c] = NoRow]
      /\ UNCHANGED <<db, issued, history>>
  BY DEF Crash, Reset, Goto
<1>2. CASE writer = c
  <2>1. writer' = NoCaller /\ work' = EmptyDb /\ "none" \in Replies
    BY <1>2 DEF Crash, Replies
  <2> QED BY <1>1, <1>2, <2>1, AbortStep
<1>3. CASE writer # c
  <2>1. UNCHANGED <<writer, work>>
    BY <1>3 DEF Crash
  <2>2. issued' \in SUBSET Ids /\ "none" \in Replies /\ "idle" \in Steps \ InTx
    BY <1>1 DEF IInv, TypeOK, Replies, InTx, Steps
  <2>3. RequestOK(c)' /\ ~Storing(c)'
    BY <1>1, NoRequestOK DEF IInv, TypeOK, RequestOK, Storing
  <2> QED BY <1>1, <1>3, <2>1, <2>2, <2>3, NoRequestOK, OutsideStep
<1> QED BY <1>2, <1>3

(* The error exits of a transaction.                                       *)
LEMMA RollbackOK ==
  ASSUME IInv, NEW c \in Callers,
         LoadMissing(c) \/ LoadSuperseded(c) \/ StatementFails(c)
  PROVE  IInv'
<1>1. PICK answer \in Replies : Rollback(c, answer)
  BY DEF LoadMissing, LoadSuperseded, StatementFails, Replies
<1>2. writer = c
  BY DEF LoadMissing, LoadSuperseded, StatementFails, IInv, LockInv, InTx
<1>3. req' = [req EXCEPT ![c] = req[c]]
  BY <1>1 DEF Rollback, IInv, TypeOK
<1> QED BY <1>1, <1>2, <1>3, AbortStep DEF Rollback, Reply, Goto

-----------------------------------------------------------------------------
(* The statements of a transaction.                                        *)

(* What the caller that is inside a transaction knows.                     *)
LEMMA InTransaction ==
  ASSUME IInv, NEW c \in Callers, pc[c] \in InTx
  PROVE  /\ writer = c /\ TransactionOK(c) /\ Sound(work) /\ work \in Database
         /\ req[c] \in Request /\ RequestOK(c)
         /\ agg \in [Callers -> Row \cup {NoRow}]
         /\ pc \in [Callers -> Steps]
  BY DEF IInv, LockInv, TransactionOK, TypeOK

LEMMA BeginOK == ASSUME IInv, NEW c \in Callers, Begin(c) PROVE IInv'
<1>1. /\ pc[c] = "begin" /\ writer = NoCaller /\ writer' = c /\ work' = db
      /\ UNCHANGED <<db, req, reply, issued, history>>
  BY DEF Begin
<1>2. PICK step \in {"save", "load"} : pc' = [pc EXCEPT ![c] = step]
  BY DEF Begin, Goto
<1>3. req[c] \in Request /\ RequestOK(c) /\ db \in Database /\ Sound(db) /\ Synced(db)
  BY DEF IInv, TypeOK
<1>4. ~Present(db, req[c].id)
  <2>1. CASE req[c].op = "store"
    BY <1>1, <2>1 DEF IInv, FreshIds, Storing
  <2>2. CASE req[c].op # "store"
    BY <1>3, <2>2, NoIdAbsent DEF RequestOK
  <2> QED BY <2>1, <2>2
<1>5. ASSUME step = "save"
      PROVE  /\ agg' = [agg EXCEPT ![c] = NewMemory(req[c].id, req[c].keywords)]
             /\ NewMemory(req[c].id, req[c].keywords) \in Row
             /\ NewMemory(req[c].id, req[c].keywords).id = req[c].id
             /\ NewMemory(req[c].id, req[c].keywords).superseded_by = NoId
  <2>1. req[c].target = NoId /\ agg' = [agg EXCEPT ![c] = NewMemory(req[c].id, req[c].keywords)]
    BY <1>2, <1>5 DEF Begin, Goto, IInv, TypeOK
  <2>2. req[c].id \in Ids /\ req[c].keywords \in SUBSET Keywords
    BY <1>1, <1>3, <2>1 DEF RequestOK, Request
  <2> QED BY <2>1, <2>2 DEF NewMemory, NoRow, Row
<1>6. step = "load" => agg' = agg
  BY <1>2 DEF Begin, Goto, IInv, TypeOK
<1>7. agg' \in [Callers -> Row \cup {NoRow}] /\ pc' \in [Callers -> Steps] /\ pc'[c] = step
  BY <1>2, <1>5, <1>6 DEF IInv, TypeOK, Steps
<1>8. TypeOK'
  BY <1>1, <1>7 DEF IInv, TypeOK, history
<1>9. LockInv'
  BY <1>1, <1>2, <1>7 DEF IInv, LockInv, TypeOK, InTx
<1>10. \A b \in Callers : RequestOK(b)' /\ (Storing(b)' <=> Storing(b))
  BY <1>1, <1>2 DEF IInv, TypeOK, RequestOK, Storing
<1>11. FreshIds'
  BY <1>1, <1>10 DEF IInv, FreshIds
<1>12. TransactionOK(c)'
  <2>1. \A k \in Used(db) : Present(db, db.memories[k].id)
    BY DEF Present, PkOf
  <2>2. step = "save" => AggregateOK(c)'
    <3> SUFFICES ASSUME step = "save" PROVE AggregateOK(c)'
      OBVIOUS
    <3>1. agg'[c] \in Row /\ agg'[c].id = req[c].id /\ agg'[c].superseded_by = NoId /\ req[c].id # NoId
      BY <1>5 DEF IInv, TypeOK, Row
    <3>2. PkOf(db, req[c].id) = {}
      BY <1>4 DEF Present
    <3> QED BY <1>1, <3>1, <3>2 DEF AggregateOK
  <2>3. step = "save" => agg'[c].id = req[c].id
    BY <1>5 DEF IInv, TypeOK
  <2> QED BY <1>1, <1>3, <1>4, <1>7, <2>1, <2>2, <2>3 DEF TransactionOK
<1> QED BY <1>1, <1>3, <1>8, <1>9, <1>10, <1>11, <1>12 DEF IInv

LEMMA LoadOK ==
  ASSUME IInv, NEW c \in Callers, LoadForUpdate(c) \/ LoadForDelete(c)
  PROVE  IInv'
<1>0. pc[c] = "load" /\ pc[c] \in InTx
  BY DEF LoadForUpdate, LoadForDelete, InTx
<1>1. CASE LoadForUpdate(c)
  <2>1. PICK k \in PkOf(work, req[c].target) :
          LET m == Restore(work.memories[k]) IN
          /\ m.superseded_by = NoId
          /\ agg' = [agg EXCEPT ![c] = IF req[c].op = "rate" THEN Rated(m, req[c].up)
                                                             ELSE SupersededBy(m, req[c].id)]
    BY <1>1 DEF LoadForUpdate
  <2>2. /\ req[c].op \in {"store", "rate"} /\ pc' = [pc EXCEPT ![c] = "save"]
        /\ UNCHANGED <<db, writer, work, req, reply, issued, history>>
    BY <1>1 DEF LoadForUpdate, Goto
  <2>3. /\ TransactionOK(c) /\ Sound(work) /\ work \in Database
        /\ req[c] \in Request /\ RequestOK(c)
        /\ agg \in [Callers -> Row \cup {NoRow}] /\ pc \in [Callers -> Steps]
    BY <1>0, InTransaction
  <2> DEFINE row == work.memories[k]
  <2>4. k \in Used(work) /\ row \in Row /\ row.id \in Ids
    BY <2>3, UsedRow DEF PkOf
  <2>5. /\ agg'[c] \in Row /\ agg'[c].id = row.id /\ agg'[c].keywords = row.keywords
        /\ agg'[c].superseded_by \in {NoId, req[c].id} \ {row.id}
    <3>1. /\ Restore(row) \in Row /\ Restore(row).id = row.id /\ Restore(row).keywords = row.keywords
          /\ Restore(row).superseded_by = NoId
      BY <2>1, <2>4 DEF Restore, Row
    <3>0. row.id # req[c].id
      BY <1>0, <2>3, <2>4 DEF TransactionOK, Present, PkOf
    <3> HIDE DEF row
    <3>2. ASSUME NEW m \in Row
          PROVE  /\ Rated(m, req[c].up) \in Row /\ Rated(m, req[c].up).id = m.id
                 /\ Rated(m, req[c].up).keywords = m.keywords
                 /\ Rated(m, req[c].up).superseded_by = m.superseded_by
                 /\ SupersededBy(m, req[c].id) \in Row /\ SupersededBy(m, req[c].id).id = m.id
                 /\ SupersededBy(m, req[c].id).keywords = m.keywords
                 /\ SupersededBy(m, req[c].id).superseded_by = req[c].id
      BY <2>3 DEF Rated, SupersededBy, Row, Request
    <3>3. agg'[c] = IF req[c].op = "rate" THEN Rated(Restore(row), req[c].up)
                                          ELSE SupersededBy(Restore(row), req[c].id)
      BY <2>1, <2>3 DEF row
    <3>4. row.id # NoId
      BY <2>4
    <3> QED BY <3>0, <3>1, <3>2, <3>3, <3>4
  <2>6. agg' \in [Callers -> Row \cup {NoRow}]
    BY <2>1, <2>3, <2>5
  <2>7. \A j \in PkOf(work, row.id) : j = k
    BY <2>3, <2>4 DEF PkOf, Sound, UniqueIn
  <2>8. TransactionOK(c)'
    <3>1. AggregateOK(c)'
      BY <2>2, <2>5, <2>7 DEF AggregateOK
    <3>2. Present(work, agg'[c].id)
      BY <2>4, <2>5 DEF Present, PkOf
    <3> QED BY <1>0, <2>2, <2>3, <3>1, <3>2 DEF TransactionOK
  <2> QED BY <1>0, <2>2, <2>3, <2>6, <2>8, InsideStep DEF InTx
<1>2. CASE LoadForDelete(c)
  <2>1. /\ pc' = [pc EXCEPT ![c] = "unmirror"]
        /\ UNCHANGED <<db, writer, work, req, agg, reply, issued, history>>
    BY <1>2 DEF LoadForDelete, Goto
  <2>2. /\ TransactionOK(c) /\ Sound(work) /\ work \in Database
        /\ agg \in [Callers -> Row \cup {NoRow}] /\ pc \in [Callers -> Steps]
    BY <1>0, InTransaction
  <2>3. TransactionOK(c)'
    BY <1>0, <2>1, <2>2 DEF TransactionOK
  <2> QED BY <1>0, <2>1, <2>2, <2>3, InsideStep DEF InTx
<1> QED BY <1>1, <1>2

LEMMA SaveInsertOK == ASSUME IInv, NEW c \in Callers, SaveInsert(c) PROVE IInv'
<1>1. /\ pc[c] = "save" /\ ~Present(work, agg[c].id) /\ pc' = [pc EXCEPT ![c] = "mirror"]
      /\ UNCHANGED <<db, writer, req, agg, reply, issued, history>>
  BY DEF SaveInsert, Goto
<1>2. PICK k \in Pks : IsNextPk(work, k) /\ work' = InsertRow(work, k, agg[c])
  BY DEF SaveInsert
<1>3. /\ TransactionOK(c) /\ Sound(work) /\ Synced(work) /\ work \in Database /\ RequestOK(c)
      /\ agg \in [Callers -> Row \cup {NoRow}] /\ pc \in [Callers -> Steps]
      /\ AggregateOK(c) /\ agg[c] \in Row /\ agg[c].id = req[c].id
  BY <1>1, InTransaction DEF InTx, TransactionOK, AggregateOK
<1>4. agg[c].superseded_by = NoId
  BY <1>3 DEF AggregateOK
<1>5. /\ work' \in Database /\ Sound(work') /\ Used(work') = Used(work) \cup {k} /\ k \notin Used(work)
      /\ work'.memories = [work.memories EXCEPT ![k] = agg[c]]
      /\ work'.memory_keywords = work.memory_keywords
  BY <1>1, <1>2, <1>3, <1>4, InsertRowOK
<1>6. /\ work'.memories[k] = agg[c]
      /\ \A j \in Pks : j # k => work'.memories[j] = work.memories[j]
  BY <1>3, <1>5 DEF Database
<1>7. Lagging(work', agg[c].id)
  <2>1. work.memories[k].keywords = {} /\ agg[c].keywords \subseteq Keywords
    BY <1>3, <1>5, NoRowIsNoRow DEF Used, Row
  <2> QED BY <1>3, <1>5, <1>6, <2>1 DEF Lagging, Synced, Indexed
<1>8. AggregateOK(c)'
  <2>1. PkOf(work', agg[c].id) = {k}
    BY <1>1, <1>5, <1>6, UsedRow DEF PkOf, Present
  <2> QED BY <1>1, <1>3, <1>6, <2>1 DEF AggregateOK
<1>9. \A j \in Used(work') : Present(db, work'.memories[j].id) \/ work'.memories[j].id = req[c].id
  BY <1>3, <1>5, <1>6, UsedRow DEF TransactionOK
<1>10. TransactionOK(c)'
  BY <1>1, <1>3, <1>5, <1>7, <1>8, <1>9 DEF TransactionOK
<1> QED BY <1>1, <1>3, <1>5, <1>10, InsideStep DEF InTx

LEMMA SaveUpdateOK == ASSUME IInv, NEW c \in Callers, SaveUpdate(c) PROVE IInv'
<1>1. /\ pc[c] = "save" /\ pc' = [pc EXCEPT ![c] = "mirror"]
      /\ UNCHANGED <<db, writer, req, agg, reply, issued, history>>
  BY DEF SaveUpdate, Goto
<1>2. PICK k \in PkOf(work, agg[c].id) :
        work' = UpdateRow(work, k, Upserted(work.memories[k], agg[c]))
  BY DEF SaveUpdate
<1>3. /\ TransactionOK(c) /\ Sound(work) /\ Synced(work) /\ work \in Database
      /\ agg \in [Callers -> Row \cup {NoRow}] /\ pc \in [Callers -> Steps]
      /\ AggregateOK(c) /\ ~Present(work, req[c].id)
  BY <1>1, InTransaction DEF InTx, TransactionOK
<1> DEFINE row == Upserted(work.memories[k], agg[c])
<1>4. /\ k \in Used(work) /\ k \in Pks /\ work.memories[k] \in Row
      /\ work.memories[k].id = agg[c].id /\ work.memories[k].keywords = agg[c].keywords
  BY <1>2, <1>3, UsedRow DEF PkOf, AggregateOK
<1>5. /\ row \in Row /\ row.id = work.memories[k].id /\ row.keywords = work.memories[k].keywords
      /\ row.superseded_by = agg[c].superseded_by
  BY <1>3, <1>4 DEF Upserted, Row, AggregateOK
<1>6. ~Present(work, row.superseded_by)
  BY <1>3, <1>5, NoIdAbsent DEF AggregateOK
<1>7. /\ work' \in Database /\ Sound(work') /\ Used(work') = Used(work)
      /\ work'.memories = [work.memories EXCEPT ![k] = row]
      /\ work'.memory_keywords = work.memory_keywords
      /\ Indexed(work') = Indexed(work)
  <2> HIDE DEF row
  <2>1. work' = UpdateRow(work, k, row)
    BY <1>2 DEF row
  <2> QED BY <1>3, <1>4, <1>5, <1>6, <2>1, UpdateRowOK
<1>8. \A j \in Pks : /\ work'.memories[j].id = work.memories[j].id
                     /\ work'.memories[j].keywords = work.memories[j].keywords
  BY <1>3, <1>5, <1>7 DEF Database
<1>9. \A i : PkOf(work', i) = PkOf(work, i) /\ Present(work', i) = Present(work, i)
  BY <1>7, <1>8 DEF PkOf, Used, Present
<1>10. Lagging(work', agg[c].id)
  BY <1>3, <1>7 DEF Lagging, Synced
<1>11. AggregateOK(c)'
  BY <1>1, <1>3, <1>8, <1>9 DEF AggregateOK, PkOf, Used
<1>12. \A j \in Used(work') : Present(db, work'.memories[j].id) \/ work'.memories[j].id = req[c].id
  BY <1>3, <1>7, <1>8 DEF TransactionOK, Used
<1>13. TransactionOK(c)'
  BY <1>1, <1>3, <1>7, <1>9, <1>10, <1>11, <1>12 DEF TransactionOK
<1> QED BY <1>1, <1>3, <1>7, <1>13, InsideStep DEF InTx

LEMMA SaveKeywordsOK == ASSUME IInv, NEW c \in Callers, SaveKeywords(c) PROVE IInv'
<1>1. /\ pc[c] = "mirror"
      /\ UNCHANGED <<db, writer, req, reply, issued, history>>
  BY DEF SaveKeywords
<1>2. PICK k \in PkOf(work, agg[c].id) : work' = InsertKeywords(work, k, agg[c].keywords)
  BY DEF SaveKeywords
<1>3. /\ TransactionOK(c) /\ Sound(work) /\ work \in Database /\ RequestOK(c) /\ req[c] \in Request
      /\ agg \in [Callers -> Row \cup {NoRow}] /\ pc \in [Callers -> Steps]
      /\ AggregateOK(c) /\ agg[c] \in Row /\ Lagging(work, agg[c].id)
  BY <1>1, InTransaction DEF InTx, TransactionOK, AggregateOK
<1>4. k \in Pks /\ agg[c].keywords = work.memories[k].keywords /\ agg[c].keywords \in SUBSET Keywords
      /\ agg[c].id \in Ids
  BY <1>2, <1>3, UsedRow DEF PkOf, AggregateOK, Row
<1>5. Synced(work')
  BY <1>2, <1>3, <1>4, InsertKeywordsSyncs
<1>6. work' \in Database /\ Sound(work') /\ work'.memories = work.memories
  BY <1>2, <1>3, <1>4, KeywordStatementsOK
<1>7. /\ Used(work') = Used(work)
      /\ \A i : PkOf(work', i) = PkOf(work, i) /\ Present(work', i) = Present(work, i)
  BY <1>6 DEF Used, PkOf, Present
<1>8. \A j \in Used(work') : Present(db, work'.memories[j].id) \/ work'.memories[j].id = req[c].id
  BY <1>3, <1>6, <1>7 DEF TransactionOK
<1>9. CASE req[c].op = "store" /\ agg[c].id # req[c].id
  <2>1. /\ agg' = [agg EXCEPT ![c] = NewMemory(req[c].id, req[c].keywords)]
        /\ pc' = [pc EXCEPT ![c] = "save"]
    BY <1>9 DEF SaveKeywords, Goto
  <2>2. req[c].id \in Ids /\ req[c].id # NoId /\ req[c].keywords \in SUBSET Keywords
    BY <1>3, <1>9 DEF RequestOK, Request
  <2>3. /\ agg' \in [Callers -> Row \cup {NoRow}] /\ agg'[c] \in Row
        /\ agg'[c].id = req[c].id /\ agg'[c].superseded_by = NoId
    BY <1>3, <2>1, <2>2 DEF NewMemory, NoRow, Row
  <2>4. ~Present(work', req[c].id)
    BY <1>1, <1>3, <1>7, <1>9 DEF TransactionOK
  <2>5. AggregateOK(c)'
    BY <1>1, <2>2, <2>3, <2>4 DEF AggregateOK, Present
  <2>6. TransactionOK(c)'
    BY <1>1, <1>3, <1>5, <1>6, <1>8, <2>1, <2>3, <2>4, <2>5 DEF TransactionOK
  <2> QED BY <1>1, <1>6, <2>1, <2>3, <2>6, InsideStep DEF InTx
<1>10. CASE ~(req[c].op = "store" /\ agg[c].id # req[c].id)
  <2>1. agg' = agg /\ pc' = [pc EXCEPT ![c] = "commit"]
    BY <1>10 DEF SaveKeywords, Goto
  <2>2. TransactionOK(c)'
    BY <1>1, <1>3, <1>5, <1>6, <1>8, <2>1 DEF TransactionOK
  <2> QED BY <1>1, <1>3, <1>6, <2>1, <2>2, InsideStep DEF InTx
<1> QED BY <1>9, <1>10

LEMMA RemoveKeywordsOK == ASSUME IInv, NEW c \in Callers, RemoveKeywords(c) PROVE IInv'
<1>1. /\ pc[c] = "unmirror" /\ pc' = [pc EXCEPT ![c] = "remove"]
      /\ UNCHANGED <<db, writer, req, agg, reply, issued, history>>
  BY DEF RemoveKeywords, Goto
<1>2. PICK k \in PkOf(work, req[c].target) : work' = DeleteKeywords(work, k)
  BY DEF RemoveKeywords
<1>3. /\ TransactionOK(c) /\ Sound(work) /\ Synced(work) /\ work \in Database
      /\ agg \in [Callers -> Row \cup {NoRow}] /\ pc \in [Callers -> Steps]
  BY <1>1, InTransaction DEF InTx, TransactionOK
<1>4. k \in Pks /\ req[c].target \in Ids
  BY <1>2, <1>3, UsedRow DEF PkOf
<1>5. /\ work' \in Database /\ Sound(work') /\ work'.memories = work.memories
      /\ Lagging(work', req[c].target)
      /\ \A p \in work'.memory_keywords : work'.memories[p[1]].id # req[c].target
  BY <1>2, <1>3, <1>4, KeywordStatementsOK, DeleteKeywordsLags
<1>6. \A j \in Used(work') : Present(db, work'.memories[j].id) \/ work'.memories[j].id = req[c].id
  BY <1>3, <1>5 DEF TransactionOK, Used
<1>7. TransactionOK(c)'
  BY <1>1, <1>3, <1>5, <1>6 DEF TransactionOK
<1> QED BY <1>1, <1>3, <1>5, <1>7, InsideStep DEF InTx

LEMMA RemoveMemoryOK == ASSUME IInv, NEW c \in Callers, RemoveMemory(c) PROVE IInv'
<1>1. /\ pc[c] = "remove" /\ pc' = [pc EXCEPT ![c] = "commit"]
      /\ UNCHANGED <<db, writer, req, agg, reply, issued, history>>
  BY DEF RemoveMemory, Goto
<1>2. PICK k \in PkOf(work, req[c].target) : work' = DeleteRow(work, k)
  BY DEF RemoveMemory
<1>3. /\ TransactionOK(c) /\ Sound(work) /\ work \in Database
      /\ agg \in [Callers -> Row \cup {NoRow}] /\ pc \in [Callers -> Steps]
      /\ Lagging(work, req[c].target)
      /\ \A p \in work.memory_keywords : work.memories[p[1]].id # req[c].target
  BY <1>1, InTransaction DEF InTx, TransactionOK
<1>4. k \in Used(work) /\ k \in Pks /\ req[c].target \in Ids
  BY <1>2, <1>3, UsedRow DEF PkOf
<1>5. /\ work' \in Database /\ Sound(work') /\ Used(work') = Used(work) \ {k}
      /\ work'.memories = [work.memories EXCEPT ![k] = NoRow]
      /\ Synced(work')
  BY <1>2, <1>3, <1>4, DeleteRowOK, DeleteRowSyncs
<1>6. \A j \in Used(work') : Present(db, work'.memories[j].id) \/ work'.memories[j].id = req[c].id
  BY <1>3, <1>4, <1>5 DEF TransactionOK, Used, Database
<1>7. TransactionOK(c)'
  BY <1>1, <1>3, <1>5, <1>6 DEF TransactionOK
<1> QED BY <1>1, <1>3, <1>5, <1>7, InsideStep DEF InTx

(* COMMIT: the ids of the new database are those of the old one and that   *)
(* of the committed Store, so the ids still in progress stay fresh.        *)
LEMMA CommitOK == ASSUME IInv, NEW c \in Callers, Commit(c) PROVE IInv'
<1>1. /\ pc[c] = "commit" /\ pc' = [pc EXCEPT ![c] = "reply"]
      /\ db' = work /\ writer' = NoCaller /\ work' = EmptyDb
      /\ agg' = [agg EXCEPT ![c] = NoRow] /\ reply' = [reply EXCEPT ![c] = "ok"]
      /\ UNCHANGED <<req, issued>>
  BY DEF Commit, Reply, Goto
<1>2. /\ TransactionOK(c) /\ Sound(work) /\ Synced(work) /\ work \in Database
      /\ req[c] \in Request /\ RequestOK(c)
  BY <1>1, InTransaction DEF InTx, TransactionOK
<1>3. deleted' \in SUBSET Ids /\ corrections' \in [Ids -> SUBSET Ids]
  <2>1. deleted \in SUBSET Ids /\ corrections \in [Ids -> SUBSET Ids]
    BY DEF IInv, TypeOK
  <2>2. req[c].op = "delete" => req[c].target \in Ids
    BY <1>1, <1>2 DEF RequestOK
  <2>3. req[c].op = "store" => req[c].id \in Ids
    BY <1>2 DEF RequestOK
  <2> QED BY <2>1, <2>2, <2>3 DEF Commit
<1>4. TypeOK'
  BY <1>1, <1>2, <1>3, EmptyDbOK DEF IInv, TypeOK, Steps, Replies
<1>5. LockInv'
  BY <1>1, <1>2 DEF IInv, LockInv, TypeOK, InTx
<1>6. \A b \in Callers : RequestOK(b)'
  BY <1>1 DEF IInv, TypeOK, RequestOK
<1>7. ~Storing(c)' /\ \A b \in Callers : Storing(b)' => Storing(b) /\ b # c
  BY <1>1 DEF IInv, TypeOK, Storing
<1>8. \A k \in Used(work) : work.memories[k].id \in issued
  <2> SUFFICES ASSUME NEW k \in Used(work) PROVE work.memories[k].id \in issued
    OBVIOUS
  <2>1. CASE Present(db, work.memories[k].id)
    BY <2>1 DEF Present, PkOf, IInv, FreshIds
  <2>2. CASE work.memories[k].id = req[c].id
    <3>1. req[c].op = "store"
      BY <1>2, <2>2, UsedRow DEF RequestOK
    <3> QED BY <1>1, <2>2, <3>1 DEF IInv, FreshIds, Storing
  <2> QED BY <1>2, <2>1, <2>2 DEF TransactionOK
<1>9. ASSUME NEW b \in Callers, Storing(b)' PROVE ~Present(work, req[b].id)
  <2> SUFFICES ASSUME NEW k \in Used(work), work.memories[k].id = req[b].id PROVE FALSE
    BY DEF Present, PkOf
  <2>1. Storing(b) /\ b # c /\ ~Present(db, req[b].id)
    BY <1>7, <1>9 DEF IInv, FreshIds
  <2>2. req[b].id = req[c].id
    BY <1>2, <2>1 DEF TransactionOK
  <2>3. Storing(c)
    <3>1. req[c].op = "store"
      BY <1>2, <2>2, UsedRow DEF RequestOK
    <3> QED BY <1>1, <3>1 DEF Storing
  <2> QED BY <2>1, <2>2, <2>3 DEF IInv, FreshIds
<1>10. FreshIds'
  BY <1>1, <1>7, <1>8, <1>9 DEF IInv, FreshIds
<1> QED BY <1>1, <1>2, <1>4, <1>5, <1>6, <1>10 DEF IInv

LEMMA BumpAccessOK == ASSUME IInv, NEW c \in Callers, BumpAccess(c) PROVE IInv'
<1>1. /\ pc[c] = "bump" /\ pc' = [pc EXCEPT ![c] = "reply"] /\ writer = NoCaller
      /\ UNCHANGED <<writer, work, req, agg, reply, issued, history>>
  BY DEF BumpAccess, Goto
<1>2. db \in Database /\ Sound(db) /\ Synced(db)
  BY DEF IInv, TypeOK
<1>3. /\ db' \in Database /\ Sound(db') /\ Synced(db')
      /\ Used(db') = Used(db)
      /\ \A j \in Used(db) : db'.memories[j].id = db.memories[j].id
  <2>1. CASE db' = db
    BY <1>2, <2>1
  <2>2. ASSUME NEW k \in PkOf(db, req[c].target),
               db' = UpdateRow(db, k, [db.memories[k] EXCEPT !.access_count = @ + 1])
        PROVE  /\ db' \in Database /\ Sound(db') /\ Synced(db')
               /\ Used(db') = Used(db)
               /\ \A j \in Used(db) : db'.memories[j].id = db.memories[j].id
    <3> DEFINE row == [db.memories[k] EXCEPT !.access_count = @ + 1]
    <3>1. k \in Used(db) /\ db.memories[k] \in Row
      BY <1>2, UsedRow DEF PkOf
    <3>2. /\ row \in Row /\ row.id = db.memories[k].id /\ row.keywords = db.memories[k].keywords
          /\ row.superseded_by = db.memories[k].superseded_by
      BY <3>1 DEF Row
    <3> HIDE DEF row
    <3>3. /\ db' \in Database /\ Sound(db') /\ Used(db') = Used(db)
          /\ db'.memories = [db.memories EXCEPT ![k] = row]
          /\ db'.memory_keywords = db.memory_keywords
          /\ Indexed(db') = Indexed(db)
      <4>1. db' = UpdateRow(db, k, row)
        BY <2>2 DEF row
      <4> QED BY <1>2, <3>1, <3>2, <4>1, UpdateRowOK
    <3> QED BY <1>2, <3>2, <3>3 DEF Synced, Database, Used
  <2> QED BY <2>1, <2>2 DEF BumpAccess
<1>4. \A i : Present(db', i) <=> Present(db, i)
  BY <1>3 DEF Present, PkOf
<1>5. TypeOK'
  BY <1>1, <1>3 DEF IInv, TypeOK, history, Steps
<1>6. LockInv' /\ \A b \in Callers : RequestOK(b)'
  BY <1>1 DEF IInv, LockInv, TypeOK, RequestOK, InTx
<1>7. \A b \in Callers : Storing(b)' => Storing(b)
  BY <1>1 DEF IInv, TypeOK, Storing
<1>8. FreshIds'
  BY <1>1, <1>3, <1>4, <1>7 DEF IInv, FreshIds
<1> QED BY <1>1, <1>3, <1>5, <1>6, <1>8 DEF IInv

-----------------------------------------------------------------------------
LEMMA NextOK == IInv /\ [Next]_vars => IInv'
<1> SUFFICES ASSUME IInv, [Next]_vars PROVE IInv'
  OBVIOUS
<1>1. ASSUME NEW c \in Callers, Call(c) \/ Step(c) \/ Crash(c)
      PROVE  IInv'
  BY <1>1, CallOK, AnswerOK, ReturnOK, CrashOK, RollbackOK, BeginOK, LoadOK, SaveInsertOK,
     SaveUpdateOK, SaveKeywordsOK, RemoveKeywordsOK, RemoveMemoryOK, CommitOK, BumpAccessOK
     DEF Step
<1>2. CASE UNCHANGED vars
  BY <1>2 DEF vars, IInv, TypeOK, LockInv, RequestOK, FreshIds, Storing, Sound, Synced,
              TransactionOK, AggregateOK
<1> QED BY <1>1, <1>2 DEF Next

(* The inductive invariant holds in every reachable state.                 *)
THEOREM Inductive == Spec => []IInv
BY InitOK, NextOK, PTL DEF Spec

(* Every variable stays in its type, whatever the constants are.           *)
THEOREM TypeCorrect == Spec => []TypeOK
<1>1. IInv => TypeOK
  BY DEF IInv
<1> QED BY <1>1, Inductive, PTL

(* However callers interleave, fail and crash, and however pks are reused, *)
(* the committed keyword mirror and full-text index are exactly what the   *)
(* committed rows call for.                                                *)
THEOREM IndexesCorrect == Spec => []IndexesInSync
<1>1. IInv => IndexesInSync
  BY DEF IInv, Sound, Synced, IndexesInSync, MirrorInSync, FtsInSync
<1> QED BY <1>1, Inductive, PTL

(* A link leads from an older row to a newer one, so that following        *)
(* corrections ends.                                                       *)
THEOREM LinksAscend == Spec => []LinksForward
<1>1. IInv => LinksForward
  BY DEF IInv, Sound, LinksForward
<1> QED BY <1>1, Inductive, PTL

-----------------------------------------------------------------------------
(* The rows a call may correct or rate: those of its target, not           *)
(* superseded.                                                             *)
Live(c) == {k \in PkOf(db, req[c].target) : db.memories[k].superseded_by = NoId}

(* What the rows are once the memory a Store corrects is marked, and once  *)
(* the whole call has taken effect.                                        *)
Marked(c, rows) ==
  IF req[c].target = NoId THEN rows = db.memories
  ELSE \E k \in Live(c) : rows = [db.memories EXCEPT ![k].superseded_by = req[c].id]

Done(c, rows) ==
  /\ req[c].op # "get"
  /\ req[c].op = "store" =>
       \E j \in Pks \ Used(db) :
         /\ rows[j] = NewMemory(req[c].id, req[c].keywords)
         /\ Marked(c, [rows EXCEPT ![j] = NoRow])
  /\ req[c].op = "rate" =>
       \E k \in Live(c) : rows = [db.memories EXCEPT ![k] = Rated(@, req[c].up)]
  /\ req[c].op = "delete" =>
       \E k \in PkOf(db, req[c].target) : rows = [db.memories EXCEPT ![k] = NoRow]

(* The aggregate that was loaded from a row, changed.                      *)
Changed(c, row) == IF req[c].op = "rate" THEN Rated(Restore(row), req[c].up)
                                         ELSE SupersededBy(Restore(row), req[c].id)

(* What the transaction of a call has done so far.                         *)
EffectOK(c) ==
  /\ req[c].op # "get" /\ Valid(req[c])
  /\ pc[c] \in {"load", "unmirror", "remove"} => work.memories = db.memories
  /\ pc[c] = "load" => req[c].target # NoId
  /\ pc[c] \in {"unmirror", "remove"} => req[c].op = "delete"
  /\ pc[c] = "save" =>
       IF agg[c].id = req[c].id
       THEN /\ req[c].op = "store" /\ Marked(c, work.memories)
            /\ agg[c] = NewMemory(req[c].id, req[c].keywords)
       ELSE /\ req[c].op \in {"store", "rate"} /\ work.memories = db.memories
            /\ \E k \in Live(c) : agg[c] = Changed(c, db.memories[k])
  /\ pc[c] = "mirror" =>
       IF req[c].op = "store" /\ agg[c].id # req[c].id
       THEN req[c].target # NoId /\ Marked(c, work.memories)
       ELSE Done(c, work.memories)
  /\ pc[c] = "commit" => Done(c, work.memories)

CallerOK(c) ==
  /\ pc[c] = "idle" => req[c] = NoRequest /\ reply[c] = "none"
  /\ pc[c] = "begin" => req[c].op # "get"
  /\ pc[c] \in {"read", "bump"} => req[c].op = "get"
  /\ pc[c] = "bump" => reply[c] = "ok"

(* What committed rows and committed corrections say of each other; a new  *)
(* id corrects nothing and is corrected by nothing.                        *)
HistoryOK ==
  /\ CorrectionIsWhole
  /\ \A i \in Ids : corrections[i] # {} => i \in issued
  /\ \A i \in Ids : \A m, n \in corrections[i] : m = n
  /\ \A c \in Callers : Storing(c) => corrections[req[c].id] = {}

EInv ==
  /\ \A c \in Callers : CallerOK(c)
  /\ \A c \in Callers : writer = c => EffectOK(c)
  /\ HistoryOK

-----------------------------------------------------------------------------
(* A step of one caller leaves the state of the others alone, and the      *)
(* database a transaction of another works on.                             *)
LEMMA Frame ==
  ASSUME IInv, NEW c \in Callers, Call(c) \/ Step(c) \/ Crash(c)
  PROVE  /\ \A b \in Callers \ {c} : /\ pc'[b] = pc[b] /\ req'[b] = req[b]
                                     /\ agg'[b] = agg[b] /\ reply'[b] = reply[b]
         /\ writer' \notin {c, NoCaller} => UNCHANGED <<db, writer, work>>
<1>0. /\ pc \in [Callers -> Steps] /\ req \in [Callers -> Request]
      /\ agg \in [Callers -> Row \cup {NoRow}] /\ reply \in [Callers -> Replies]
      /\ pc[c] \in InTx <=> writer = c
  BY DEF IInv, TypeOK, LockInv
<1>1. CASE Call(c)
  BY <1>0, <1>1 DEF Call, InvokeStore, InvokeRate, InvokeDelete, InvokeGet, Invoke, Goto
<1>2. CASE RejectInvalid(c) \/ Busy(c) \/ ReadRow(c) \/ BumpLost(c) \/ ReadFails(c)
  BY <1>0, <1>2 DEF RejectInvalid, Busy, ReadRow, BumpLost, ReadFails, Reply, Goto
<1>3. CASE Begin(c)
  BY <1>0, <1>3 DEF Begin, Goto
<1>4. CASE LoadMissing(c) \/ LoadSuperseded(c) \/ StatementFails(c)
  BY <1>0, <1>4 DEF LoadMissing, LoadSuperseded, StatementFails, Rollback, Reply, Goto
<1>5. CASE LoadForUpdate(c) \/ LoadForDelete(c)
  BY <1>0, <1>5 DEF LoadForUpdate, LoadForDelete, Goto, InTx
<1>6. CASE SaveInsert(c) \/ SaveUpdate(c) \/ SaveKeywords(c)
  BY <1>0, <1>6 DEF SaveInsert, SaveUpdate, SaveKeywords, Goto, InTx
<1>7. CASE RemoveKeywords(c) \/ RemoveMemory(c)
  BY <1>0, <1>7 DEF RemoveKeywords, RemoveMemory, Goto, InTx
<1>8. CASE Commit(c) \/ BumpAccess(c)
  BY <1>0, <1>8 DEF Commit, BumpAccess, Reply, Goto
<1>9. CASE Return(c) \/ Crash(c)
  BY <1>0, <1>9 DEF Return, Crash, Reset, Goto
<1> QED BY <1>1, <1>2, <1>3, <1>4, <1>5, <1>6, <1>7, <1>8, <1>9 DEF Step

(* The caller that takes a step knows what it waits for.                   *)
LEMMA CallerKept ==
  ASSUME IInv, NEW c \in Callers, CallerOK(c), Call(c) \/ Step(c) \/ Crash(c)
  PROVE  CallerOK(c)'
<1>0. /\ pc \in [Callers -> Steps] /\ req \in [Callers -> Request]
      /\ agg \in [Callers -> Row \cup {NoRow}] /\ reply \in [Callers -> Replies]
  BY DEF IInv, TypeOK
<1>1. CASE Call(c)
  <2>1. pc[c] = "idle" /\ reply[c] = "none" /\ reply' = reply
    BY <1>1 DEF Call, InvokeStore, InvokeRate, InvokeDelete, InvokeGet, Invoke, CallerOK
  <2>2. CASE InvokeGet(c)
    BY <1>0, <2>1, <2>2, NoRequestOK DEF InvokeGet, Invoke, Goto, CallerOK, NoRequest
  <2>3. CASE InvokeStore(c) \/ InvokeRate(c) \/ InvokeDelete(c)
    <3>1. InvokeStore(c) => pc'[c] = "begin" /\ req'[c].op = "store"
      BY <1>0 DEF InvokeStore, Invoke, Goto, NoRequest
    <3>2. InvokeRate(c) => pc'[c] = "begin" /\ req'[c].op = "rate"
      BY <1>0 DEF InvokeRate, Invoke, Goto, NoRequest
    <3>3. InvokeDelete(c) => pc'[c] = "begin" /\ req'[c].op = "delete"
      BY <1>0 DEF InvokeDelete, Invoke, Goto, NoRequest
    <3> QED BY <2>3, <3>1, <3>2, <3>3 DEF CallerOK
  <2> QED BY <1>1, <2>2, <2>3 DEF Call
<1>2. CASE RejectInvalid(c) \/ Busy(c) \/ ReadFails(c) \/ LoadMissing(c) \/ LoadSuperseded(c)
           \/ StatementFails(c) \/ Commit(c) \/ BumpAccess(c) \/ BumpLost(c)
  <2>1. pc'[c] = "reply"
    BY <1>0, <1>2 DEF RejectInvalid, Busy, ReadFails, LoadMissing, LoadSuperseded,
                      StatementFails, Rollback, Commit, BumpAccess, BumpLost, Reply, Goto
  <2> QED BY <2>1 DEF CallerOK
<1>3. CASE ReadRow(c)
  <2>1. req' = req /\ pc[c] = "read" /\ (pc'[c] = "reply" \/ (pc'[c] = "bump" /\ reply'[c] = "ok"))
    BY <1>0, <1>3 DEF ReadRow, Reply, Goto
  <2> QED BY <2>1 DEF CallerOK
<1>4. CASE Begin(c) \/ LoadForUpdate(c) \/ LoadForDelete(c) \/ SaveInsert(c) \/ SaveUpdate(c)
           \/ SaveKeywords(c) \/ RemoveKeywords(c) \/ RemoveMemory(c)
  <2>1. pc'[c] \in {"load", "save", "mirror", "unmirror", "remove", "commit"}
    BY <1>0, <1>4 DEF Begin, LoadForUpdate, LoadForDelete, SaveInsert, SaveUpdate,
                      SaveKeywords, RemoveKeywords, RemoveMemory, Goto
  <2> QED BY <2>1 DEF CallerOK
<1>5. CASE Return(c) \/ Crash(c)
  BY <1>0, <1>5 DEF Return, Crash, Reset, Goto, CallerOK
<1> QED BY <1>1, <1>2, <1>3, <1>4, <1>5 DEF Step

-----------------------------------------------------------------------------
(* The rows and the aggregate.                                             *)

(* Upserting a changed aggregate sets the link, or adds the vote, and      *)
(* keeps every other column: access_count too, which Restore forgets.      *)
LEMMA UpsertChanged ==
  ASSUME NEW row \in Row, NEW c \in Callers, req[c] \in Request
  PROVE  Upserted(row, Changed(c, row)) =
           IF req[c].op = "rate" THEN Rated(row, req[c].up)
                                 ELSE [row EXCEPT !.superseded_by = req[c].id]
  BY DEF Upserted, Changed, Rated, SupersededBy, Restore, Row, Request

(* Marking a row leaves the pks in use as they were.                       *)
LEMMA MarkedUsed ==
  ASSUME db \in Database, NEW c \in Callers, NEW d \in Database, Marked(c, d.memories)
  PROVE  Used(d) = Used(db)
<1>1. CASE req[c].target = NoId
  BY <1>1 DEF Marked, Used
<1>2. CASE req[c].target # NoId
  <2>1. PICK k \in Live(c) : d.memories = [db.memories EXCEPT ![k].superseded_by = req[c].id]
    BY <1>2 DEF Marked
  <2>2. k \in Used(db) /\ k \in Pks /\ db.memories[k] \in Row /\ db.memories[k].id \in Ids
    BY UsedRow DEF Live, PkOf
  <2>3. d.memories[k].id \in Ids
    BY <2>1, <2>2 DEF Database, Row
  <2>4. k \in Used(d)
    BY <2>2, <2>3, UsedById
  <2>5. \A j \in Pks \ {k} : d.memories[j] = db.memories[j]
    BY <2>1 DEF Database
  <2> QED BY <2>2, <2>4, <2>5 DEF Used
<1> QED BY <1>1, <1>2

(* The two databases have the same rows: they name the same memories.      *)
LEMMA SameRows ==
  ASSUME NEW d, NEW e, d.memories = e.memories
  PROVE  Used(d) = Used(e) /\ \A i : PkOf(d, i) = PkOf(e, i)
  BY DEF Used, PkOf

(* Rows that are the whole effect of a call remain so while the committed  *)
(* rows and the call are the same.                                         *)
LEMMA DoneKept ==
  ASSUME NEW c, UNCHANGED db, req'[c] = req[c], work'.memories = work.memories
  PROVE  /\ Live(c)' = Live(c)
         /\ Marked(c, work.memories)' <=> Marked(c, work.memories)
         /\ Done(c, work.memories)' <=> Done(c, work.memories)
<1>1. Live(c)' = Live(c)
  BY DEF Live
<1>2. Marked(c, work.memories)' <=> Marked(c, work.memories)
  BY <1>1 DEF Marked
<1>3. ASSUME NEW j
      PROVE  Marked(c, [work.memories EXCEPT ![j] = NoRow])' <=> Marked(c, [work.memories EXCEPT ![j] = NoRow])
  BY <1>1 DEF Marked
<1>4. Done(c, work.memories)' <=> Done(c, work.memories)
  BY <1>1, <1>3 DEF Done
<1> QED BY <1>1, <1>2, <1>4

-----------------------------------------------------------------------------
(* The statements of a transaction keep track of its effect.               *)
LEMMA BeginEffect ==
  ASSUME IInv, NEW c \in Callers, CallerOK(c), Begin(c)
  PROVE  EffectOK(c)'
<1>1. /\ pc[c] = "begin" /\ writer' = c /\ work' = db /\ UNCHANGED <<db, req>>
      /\ pc \in [Callers -> Steps] /\ agg \in [Callers -> Row \cup {NoRow}]
      /\ RequestOK(c) /\ req[c].op # "get" /\ req[c] \in Request /\ Valid(req[c])
  BY DEF Begin, IInv, TypeOK, CallerOK
<1>2. CASE req[c].target = NoId
  <2>1. /\ pc'[c] = "save" /\ agg'[c] = NewMemory(req[c].id, req[c].keywords)
        /\ req[c].op = "store"
    BY <1>1, <1>2 DEF Begin, Goto, RequestOK
  <2>2. agg'[c].id = req[c].id
    BY <2>1 DEF NewMemory, NoRow
  <2> QED BY <1>1, <1>2, <2>1, <2>2 DEF EffectOK, Marked, Valid
<1>3. CASE req[c].target # NoId
  <2>1. pc'[c] = "load"
    BY <1>1, <1>3 DEF Begin, Goto
  <2> QED BY <1>1, <1>3, <2>1 DEF EffectOK, Valid
<1> QED BY <1>2, <1>3

LEMMA LoadEffect ==
  ASSUME IInv, NEW c \in Callers, EffectOK(c), LoadForUpdate(c) \/ LoadForDelete(c)
  PROVE  EffectOK(c)'
<1>1. /\ pc[c] = "load" /\ UNCHANGED <<db, work, req>> /\ work.memories = db.memories
      /\ pc \in [Callers -> Steps] /\ agg \in [Callers -> Row \cup {NoRow}]
      /\ RequestOK(c) /\ req[c].op # "get" /\ req[c] \in Request /\ req[c].target # NoId
      /\ db \in Database
  BY DEF LoadForUpdate, LoadForDelete, IInv, TypeOK, EffectOK
<1>2. CASE LoadForDelete(c)
  <2>1. pc'[c] = "unmirror" /\ req[c].op = "delete"
    BY <1>1, <1>2 DEF LoadForDelete, Goto
  <2> QED BY <1>1, <2>1 DEF EffectOK, Valid
<1>3. CASE LoadForUpdate(c)
  <2>1. PICK k \in PkOf(work, req[c].target) :
          LET m == Restore(work.memories[k]) IN
          /\ m.superseded_by = NoId
          /\ agg' = [agg EXCEPT ![c] = IF req[c].op = "rate" THEN Rated(m, req[c].up)
                                                             ELSE SupersededBy(m, req[c].id)]
    BY <1>3 DEF LoadForUpdate
  <2>2. pc'[c] = "save" /\ req[c].op \in {"store", "rate"}
    BY <1>1, <1>3 DEF LoadForUpdate, Goto
  <2>3. k \in PkOf(db, req[c].target) /\ db.memories[k] \in Row /\ db.memories[k].id = req[c].target
    BY <1>1, <2>1, SameRows, UsedRow DEF PkOf
  <2>4. k \in Live(c)
    BY <1>1, <2>1, <2>3 DEF Live, Restore, Row
  <2>5. agg'[c] = Changed(c, db.memories[k])
    BY <1>1, <2>1 DEF Changed
  <2>6. agg'[c].id = req[c].target
    BY <2>3, <2>5 DEF Changed, Rated, SupersededBy, Restore, Row
  <2>7. req[c].target # req[c].id
    BY <1>1, <2>2 DEF RequestOK
  <2> QED BY <1>1, <2>2, <2>4, <2>5, <2>6, <2>7 DEF EffectOK, Live, Changed, Valid
<1> QED BY <1>2, <1>3

LEMMA SaveInsertEffect ==
  ASSUME IInv, NEW c \in Callers, EffectOK(c), SaveInsert(c)
  PROVE  EffectOK(c)'
<1>1. /\ pc[c] = "save" /\ pc'[c] = "mirror" /\ ~Present(work, agg[c].id)
      /\ UNCHANGED <<db, req, agg>> /\ db \in Database
      /\ TransactionOK(c) /\ Sound(work) /\ work \in Database
      /\ AggregateOK(c) /\ agg[c] \in Row /\ agg[c].id = req[c].id
  BY InTransaction DEF SaveInsert, Goto, IInv, TypeOK, InTx, TransactionOK, AggregateOK
<1>2. PICK k \in Pks : IsNextPk(work, k) /\ work' = InsertRow(work, k, agg[c])
  BY DEF SaveInsert
<1>3. req[c].op = "store" /\ Marked(c, work.memories) /\ agg[c] = NewMemory(req[c].id, req[c].keywords)
  BY <1>1 DEF EffectOK
<1>4. agg[c].superseded_by = NoId
  BY <1>1 DEF AggregateOK
<1>5. k \notin Used(work) /\ work'.memories = [work.memories EXCEPT ![k] = agg[c]]
  BY <1>1, <1>2, <1>4, InsertRowOK
<1>6. k \in Pks \ Used(db)
  BY <1>1, <1>3, <1>5, MarkedUsed
<1>7. work'.memories[k] = agg[c] /\ [work'.memories EXCEPT ![k] = NoRow] = work.memories
  BY <1>1, <1>5 DEF Database, Used
<1>8. Done(c, work'.memories)
  BY <1>3, <1>6, <1>7 DEF Done
<1>9. Done(c, work.memories)'
  BY <1>1, <1>8 DEF Done, Marked, Live
<1> QED BY <1>1, <1>3, <1>9 DEF EffectOK, Valid

LEMMA SaveUpdateEffect ==
  ASSUME IInv, NEW c \in Callers, EffectOK(c), SaveUpdate(c)
  PROVE  EffectOK(c)'
<1>1. /\ pc[c] = "save" /\ pc'[c] = "mirror"
      /\ UNCHANGED <<db, req, agg>> /\ db \in Database
      /\ TransactionOK(c) /\ RequestOK(c) /\ req[c] \in Request /\ ~Present(work, req[c].id)
      /\ Sound(work) /\ work \in Database /\ agg[c] \in Row
  BY InTransaction DEF SaveUpdate, Goto, IInv, TypeOK, InTx, TransactionOK, AggregateOK
<1>2. PICK k \in PkOf(work, agg[c].id) :
        work' = UpdateRow(work, k, Upserted(work.memories[k], agg[c]))
  BY DEF SaveUpdate
<1>3. agg[c].id # req[c].id
  BY <1>1, <1>2 DEF Present
<1>4. req[c].op \in {"store", "rate"} /\ work.memories = db.memories
  BY <1>1, <1>3 DEF EffectOK
<1>5. PICK l \in Live(c) : agg[c] = Changed(c, db.memories[l])
  BY <1>1, <1>3 DEF EffectOK
<1>6. /\ l \in Used(db) /\ l \in Pks /\ db.memories[l] \in Row /\ req[c].target \in Ids
      /\ db.memories[l].id = req[c].target
  BY <1>1, <1>5, UsedRow DEF Live, PkOf
<1>7. agg[c].id = db.memories[l].id
  BY <1>5, <1>6 DEF Changed, Rated, SupersededBy, Restore, Row
<1>8. k = l
  BY <1>1, <1>2, <1>4, <1>6, <1>7, SameRows DEF PkOf, Sound, UniqueIn
<1>9. work'.memories = [db.memories EXCEPT ![l] = Upserted(db.memories[l], agg[c])]
  BY <1>1, <1>2, <1>4, <1>8 DEF UpdateRow, Database
<1>10. Upserted(db.memories[l], agg[c]) =
         IF req[c].op = "rate" THEN Rated(db.memories[l], req[c].up)
                               ELSE [db.memories[l] EXCEPT !.superseded_by = req[c].id]
  BY <1>1, <1>5, <1>6, UpsertChanged
<1>11. CASE req[c].op = "store"
  <2>1. work'.memories = [db.memories EXCEPT ![l].superseded_by = req[c].id]
    BY <1>9, <1>10, <1>11
  <2>2. Marked(c, work.memories)'
    BY <1>1, <1>5, <1>6, <2>1 DEF Marked, Live
  <2> QED BY <1>1, <1>3, <1>6, <1>11, <2>2 DEF EffectOK, Valid
<1>12. CASE req[c].op = "rate"
  <2>1. work'.memories = [db.memories EXCEPT ![l] = Rated(@, req[c].up)]
    BY <1>9, <1>10, <1>12
  <2>2. Done(c, work.memories)'
    BY <1>1, <1>5, <1>12, <2>1 DEF Done, Live
  <2> QED BY <1>1, <1>12, <2>2 DEF EffectOK, Valid
<1> QED BY <1>4, <1>11, <1>12

LEMMA SaveKeywordsEffect ==
  ASSUME IInv, NEW c \in Callers, EffectOK(c), SaveKeywords(c)
  PROVE  EffectOK(c)'
<1>1. /\ pc[c] = "mirror" /\ UNCHANGED <<db, req>>
      /\ pc \in [Callers -> Steps] /\ agg \in [Callers -> Row \cup {NoRow}]
      /\ req[c].op # "get" /\ work \in Database
  BY DEF SaveKeywords, IInv, TypeOK, EffectOK
<1>2. work'.memories = work.memories
  BY <1>1 DEF SaveKeywords, InsertKeywords, Database
<1>3. CASE req[c].op = "store" /\ agg[c].id # req[c].id
  <2>1. /\ pc'[c] = "save" /\ agg'[c] = NewMemory(req[c].id, req[c].keywords)
        /\ Marked(c, work.memories)
    BY <1>1, <1>3 DEF SaveKeywords, Goto, EffectOK
  <2>2. agg'[c].id = req[c].id
    BY <2>1 DEF NewMemory, NoRow
  <2>3. Marked(c, work.memories)'
    BY <1>1, <1>2, <2>1, DoneKept
  <2> QED BY <1>1, <1>3, <2>1, <2>2, <2>3 DEF EffectOK, Valid
<1>4. CASE ~(req[c].op = "store" /\ agg[c].id # req[c].id)
  <2>1. pc'[c] = "commit" /\ Done(c, work.memories)
    BY <1>1, <1>4 DEF SaveKeywords, Goto, EffectOK
  <2>2. Done(c, work.memories)'
    BY <1>1, <1>2, <2>1, DoneKept
  <2> QED BY <1>1, <2>1, <2>2 DEF EffectOK, Valid
<1> QED BY <1>3, <1>4

LEMMA RemoveEffect ==
  ASSUME IInv, NEW c \in Callers, EffectOK(c), RemoveKeywords(c) \/ RemoveMemory(c)
  PROVE  EffectOK(c)'
<1>1. /\ pc[c] \in {"unmirror", "remove"} /\ UNCHANGED <<db, req>>
      /\ pc \in [Callers -> Steps] /\ req[c].op = "delete"
      /\ work \in Database /\ work.memories = db.memories
  BY DEF RemoveKeywords, RemoveMemory, IInv, TypeOK, EffectOK
<1>2. CASE RemoveKeywords(c)
  <2>1. pc'[c] = "remove" /\ work'.memories = work.memories
    BY <1>1, <1>2 DEF RemoveKeywords, DeleteKeywords, Goto, Database
  <2> QED BY <1>1, <2>1 DEF EffectOK, Valid
<1>3. CASE RemoveMemory(c)
  <2>1. PICK k \in PkOf(work, req[c].target) : work' = DeleteRow(work, k)
    BY <1>3 DEF RemoveMemory
  <2>2. k \in PkOf(db, req[c].target) /\ work'.memories = [db.memories EXCEPT ![k] = NoRow]
    BY <1>1, <2>1, SameRows DEF DeleteRow, Database
  <2>3. Done(c, work.memories)'
    BY <1>1, <2>2 DEF Done
  <2>4. pc'[c] = "commit"
    BY <1>1, <1>3 DEF RemoveMemory, Goto
  <2> QED BY <1>1, <2>3, <2>4 DEF EffectOK, Valid
<1> QED BY <1>2, <1>3

(* Every statement of the caller in the transaction.                       *)
LEMMA EffectKept ==
  ASSUME IInv, IInv', EInv, NEW c \in Callers, Call(c) \/ Step(c) \/ Crash(c),
         NEW w \in Callers, writer' = w
  PROVE  EffectOK(w)'
<1>1. CASE w # c
  <2>1. UNCHANGED <<db, writer, work>> /\ pc'[w] = pc[w] /\ req'[w] = req[w] /\ agg'[w] = agg[w]
    BY <1>1, Frame
  <2>2. EffectOK(w)
    BY <2>1 DEF EInv
  <2>3. /\ Live(w)' = Live(w)
        /\ Marked(w, work.memories)' <=> Marked(w, work.memories)
        /\ Done(w, work.memories)' <=> Done(w, work.memories)
    BY <2>1, DoneKept
  <2>4. \A row : Changed(w, row)' = Changed(w, row)
    BY <2>1 DEF Changed
  <2> QED BY <2>1, <2>2, <2>3, <2>4 DEF EffectOK, Valid
<1>2. CASE w = c
  <2>1. pc'[c] \in InTx /\ writer' = c /\ CallerOK(c)
    BY <1>2 DEF IInv, LockInv, EInv
  <2>2. CASE Begin(c)
    BY <1>2, <2>1, <2>2, BeginEffect
  <2>3. ASSUME \/ LoadForUpdate(c) \/ LoadForDelete(c) \/ SaveInsert(c) \/ SaveUpdate(c)
               \/ SaveKeywords(c) \/ RemoveKeywords(c) \/ RemoveMemory(c)
        PROVE  EffectOK(c)'
    <3>1. pc[c] \in InTx
      BY <2>3 DEF LoadForUpdate, LoadForDelete, SaveInsert, SaveUpdate, SaveKeywords,
                  RemoveKeywords, RemoveMemory, InTx
    <3>2. EffectOK(c)
      BY <3>1, InTransaction DEF EInv
    <3> QED BY <2>3, <3>2, LoadEffect, SaveInsertEffect, SaveUpdateEffect, SaveKeywordsEffect,
               RemoveEffect
  <2>4. pc \in [Callers -> Steps]
    BY DEF IInv, TypeOK
  <2>5. CASE Call(c)
    BY <2>1, <2>4, <2>5 DEF Call, InvokeStore, InvokeRate, InvokeDelete, InvokeGet, Invoke, Goto, InTx
  <2>6. CASE \/ RejectInvalid(c) \/ Busy(c) \/ ReadRow(c) \/ ReadFails(c) \/ BumpAccess(c)
             \/ BumpLost(c) \/ LoadMissing(c) \/ LoadSuperseded(c) \/ StatementFails(c) \/ Commit(c)
    BY <2>1, <2>4, <2>6 DEF RejectInvalid, Busy, ReadRow, ReadFails, BumpAccess, BumpLost,
       LoadMissing, LoadSuperseded, StatementFails, Rollback, Commit, Reply, Goto, InTx
  <2>7. CASE Return(c) \/ Crash(c)
    BY <2>1, <2>4, <2>7 DEF Return, Crash, Reset, Goto, InTx
  <2> QED BY <1>2, <2>2, <2>3, <2>5, <2>6, <2>7 DEF Step
<1> QED BY <1>1, <1>2

-----------------------------------------------------------------------------
(* What a COMMIT does to the rows.                                         *)

LEMMA CommitFacts ==
  ASSUME IInv, EInv, NEW c \in Callers, Commit(c)
  PROVE  /\ db' = work /\ db \in Database /\ work \in Database /\ db' \in Database
         /\ UniqueIn(db) /\ UniqueIn(work)
         /\ RequestOK(c) /\ req[c] \in Request /\ pc[c] = "commit"
         /\ Done(c, work.memories)
         /\ UNCHANGED <<req, issued>>
<1>1. pc[c] = "commit" /\ db' = work /\ UNCHANGED <<req, issued>>
  BY DEF Commit
<1>2. EffectOK(c) /\ Sound(work) /\ work \in Database /\ RequestOK(c) /\ req[c] \in Request
  BY <1>1, InTransaction DEF InTx, EInv
<1>3. Done(c, work.memories)
  BY <1>1, <1>2 DEF EffectOK
<1>4. db \in Database /\ Sound(db)
  BY DEF IInv, TypeOK
<1> QED BY <1>1, <1>2, <1>3, <1>4 DEF Sound

(* A Store adds one row and marks at most one other, which was live.       *)
LEMMA StoreCommit ==
  ASSUME IInv, EInv, NEW c \in Callers, Commit(c), req[c].op = "store"
  PROVE  /\ req[c].id \in Ids /\ ~Present(db, req[c].id) /\ req[c].id \in issued
         /\ corrections[req[c].id] = {}
         /\ \E j \in Pks \ Used(db) :
              /\ db'.memories[j] = NewMemory(req[c].id, req[c].keywords)
              /\ req[c].target = NoId =>
                    \A k \in Pks \ {j} : db'.memories[k] = db.memories[k]
              /\ req[c].target # NoId =>
                    \E t \in Live(c) :
                      /\ db'.memories[t] = [db.memories[t] EXCEPT !.superseded_by = req[c].id]
                      /\ \A k \in Pks \ {j, t} : db'.memories[k] = db.memories[k]
<1>1. /\ db' = work /\ db \in Database /\ work \in Database
      /\ RequestOK(c) /\ pc[c] = "commit" /\ Done(c, work.memories)
  BY CommitFacts
<1>2. Storing(c) /\ req[c].id \in Ids
  BY <1>1 DEF Storing, RequestOK
<1>3. ~Present(db, req[c].id) /\ req[c].id \in issued /\ corrections[req[c].id] = {}
  BY <1>2 DEF IInv, FreshIds, EInv, HistoryOK
<1>4. PICK j \in Pks \ Used(db) :
        /\ work.memories[j] = NewMemory(req[c].id, req[c].keywords)
        /\ Marked(c, [work.memories EXCEPT ![j] = NoRow])
  BY <1>1 DEF Done
<1>5. ASSUME NEW k \in Pks \ {j} PROVE [work.memories EXCEPT ![j] = NoRow][k] = work.memories[k]
  BY <1>1 DEF Database
<1>6. CASE req[c].target = NoId
  <2>1. [work.memories EXCEPT ![j] = NoRow] = db.memories
    BY <1>4, <1>6 DEF Marked
  <2> QED BY <1>1, <1>2, <1>3, <1>4, <1>5, <1>6, <2>1
<1>7. CASE req[c].target # NoId
  <2>1. PICK t \in Live(c) :
          [work.memories EXCEPT ![j] = NoRow] = [db.memories EXCEPT ![t].superseded_by = req[c].id]
    BY <1>4, <1>7 DEF Marked
  <2>2. t \in Used(db) /\ t \in Pks /\ t # j
    BY <1>1, UsedRow DEF Live, PkOf
  <2>3. work.memories[t] = [db.memories[t] EXCEPT !.superseded_by = req[c].id]
    BY <1>1, <1>5, <2>1, <2>2 DEF Database
  <2>4. \A k \in Pks \ {j, t} : work.memories[k] = db.memories[k]
    BY <1>1, <1>5, <2>1 DEF Database
  <2> QED BY <1>1, <1>2, <1>3, <1>4, <1>7, <2>3, <2>4
<1> QED BY <1>6, <1>7

(* A Rate changes the votes of one live row.                               *)
LEMMA RateCommit ==
  ASSUME IInv, EInv, NEW c \in Callers, Commit(c), req[c].op = "rate"
  PROVE  \E t \in Live(c) :
           /\ db'.memories[t] = Rated(db.memories[t], req[c].up)
           /\ \A k \in Pks \ {t} : db'.memories[k] = db.memories[k]
<1>1. db' = work /\ db \in Database /\ Done(c, work.memories)
  BY CommitFacts
<1>2. PICK t \in Live(c) : work.memories = [db.memories EXCEPT ![t] = Rated(@, req[c].up)]
  BY <1>1 DEF Done
<1>3. t \in Pks
  BY DEF Live, PkOf, Used
<1> QED BY <1>1, <1>2, <1>3 DEF Database

(* A Delete empties one row, and that row only.                            *)
LEMMA DeleteCommit ==
  ASSUME IInv, EInv, NEW c \in Callers, Commit(c), req[c].op = "delete"
  PROVE  \E t \in PkOf(db, req[c].target) :
           /\ db'.memories[t] = NoRow
           /\ \A k \in Pks \ {t} : db'.memories[k] = db.memories[k]
<1>1. db' = work /\ db \in Database /\ Done(c, work.memories)
  BY CommitFacts
<1>2. PICK t \in PkOf(db, req[c].target) : work.memories = [db.memories EXCEPT ![t] = NoRow]
  BY <1>1 DEF Done
<1>3. t \in Pks
  BY DEF PkOf, Used
<1> QED BY <1>1, <1>2, <1>3 DEF Database

(* A counted read changes the access count of one row.                     *)
LEMMA BumpRows ==
  ASSUME IInv, NEW c \in Callers, BumpAccess(c)
  PROVE  /\ writer = NoCaller /\ writer' = NoCaller /\ UNCHANGED <<req, issued, history>>
         /\ db \in Database /\ pc[c] = "bump" /\ pc' = [pc EXCEPT ![c] = "reply"]
         /\ \/ ~Present(db, req[c].target) /\ db' = db
            \/ \E t \in PkOf(db, req[c].target) :
                 /\ db'.memories[t] = [db.memories[t] EXCEPT !.access_count = @ + 1]
                 /\ \A k \in Pks \ {t} : db'.memories[k] = db.memories[k]
<1>1. /\ writer = NoCaller /\ writer' = NoCaller /\ UNCHANGED <<req, issued, history>>
      /\ pc[c] = "bump" /\ pc' = [pc EXCEPT ![c] = "reply"]
  BY DEF BumpAccess, Goto
<1>2. db \in Database
  BY DEF IInv, TypeOK
<1>3. ASSUME NEW t \in PkOf(db, req[c].target),
             db' = UpdateRow(db, t, [db.memories[t] EXCEPT !.access_count = @ + 1])
      PROVE  /\ db'.memories[t] = [db.memories[t] EXCEPT !.access_count = @ + 1]
             /\ \A k \in Pks \ {t} : db'.memories[k] = db.memories[k]
  <2>1. t \in Pks
    BY DEF PkOf, Used
  <2> QED BY <1>2, <1>3, <2>1 DEF UpdateRow, Database
<1> QED BY <1>1, <1>2, <1>3 DEF BumpAccess

(* Every other step leaves the committed database alone.                   *)
LEMMA OnlyTwoCommit ==
  ASSUME NEW c \in Callers, Call(c) \/ Step(c) \/ Crash(c), ~Commit(c), ~BumpAccess(c)
  PROVE  UNCHANGED <<db, history>>
<1>1. Call(c) => UNCHANGED <<db, history>>
  BY DEF Call, InvokeStore, InvokeRate, InvokeDelete, InvokeGet, Invoke
<1>2. \/ RejectInvalid(c) \/ Begin(c) \/ Busy(c) \/ LoadMissing(c) \/ LoadSuperseded(c)
      \/ LoadForUpdate(c) \/ LoadForDelete(c) \/ SaveInsert(c) \/ SaveUpdate(c) \/ SaveKeywords(c)
      => UNCHANGED <<db, history>>
  BY DEF RejectInvalid, Begin, Busy, LoadMissing, LoadSuperseded, LoadForUpdate, LoadForDelete,
         SaveInsert, SaveUpdate, SaveKeywords, Rollback
<1>3. \/ RemoveKeywords(c) \/ RemoveMemory(c) \/ StatementFails(c) \/ ReadRow(c) \/ BumpLost(c)
      \/ ReadFails(c) \/ Return(c) \/ Crash(c)
      => UNCHANGED <<db, history>>
  BY DEF RemoveKeywords, RemoveMemory, StatementFails, ReadRow, BumpLost, ReadFails, Return, Crash,
         Reset, Rollback
<1> QED BY <1>1, <1>2, <1>3 DEF Step

-----------------------------------------------------------------------------
(* The history: corrections whole, and at most one of each memory.         *)

(* A commit that adds no correction and no mark: each row left keeps its   *)
(* id and its link, and the ids that vanish are recorded as deleted.       *)
LEMMA PlainHistory ==
  ASSUME IInv, HistoryOK, db' \in Database,
         UNCHANGED corrections, deleted \subseteq deleted', issued \subseteq issued',
         \A k \in Used(db') : /\ k \in Used(db)
                             /\ db'.memories[k].id = db.memories[k].id
                             /\ db'.memories[k].superseded_by = db.memories[k].superseded_by,
         \A k \in Used(db) \ Used(db') : db.memories[k].id \in deleted',
         \A b \in Callers : Storing(b)' => \/ Storing(b) /\ req'[b] = req[b]
                                          \/ req'[b].id \in Ids \ issued
  PROVE  HistoryOK'
<1>1. ASSUME NEW k \in Used(db')
      PROVE  /\ db'.memories[k].superseded_by # NoId =>
                  \/ Present(db', db'.memories[k].superseded_by)
                  \/ db'.memories[k].superseded_by \in deleted'
             /\ \A i \in corrections'[db'.memories[k].id] : db'.memories[k].superseded_by = i
  <2>1. k \in Used(db) /\ db'.memories[k].superseded_by = db.memories[k].superseded_by
    BY <1>1
  <2> DEFINE s == db.memories[k].superseded_by
  <2>2. s # NoId => Present(db, s) \/ s \in deleted
    BY <2>1 DEF HistoryOK, CorrectionIsWhole
  <2>3. ASSUME NEW l \in PkOf(db, s) PROVE Present(db', s) \/ s \in deleted'
    BY <2>3 DEF Present, PkOf
  <2>4. \A i \in corrections'[db'.memories[k].id] : db'.memories[k].superseded_by = i
    BY <1>1, <2>1 DEF HistoryOK, CorrectionIsWhole
  <2> QED BY <2>1, <2>2, <2>3, <2>4 DEF Present
<1>2. \A i \in Ids : corrections'[i] # {} => i \in issued'
  BY DEF HistoryOK
<1>3. \A i \in Ids : \A m, n \in corrections'[i] : m = n
  BY DEF HistoryOK
<1>4. \A b \in Callers : Storing(b)' => corrections'[req'[b].id] = {}
  BY DEF HistoryOK
<1> QED BY <1>1, <1>2, <1>3, <1>4 DEF HistoryOK, CorrectionIsWhole

(* Who is storing after a step: those who were, or a caller with an id     *)
(* that was never handed out.                                              *)
LEMMA StoringKept ==
  ASSUME IInv, NEW c \in Callers, Call(c) \/ Step(c) \/ Crash(c)
  PROVE  /\ issued \subseteq issued'
         /\ \A b \in Callers : Storing(b)' => \/ Storing(b) /\ req'[b] = req[b]
                                              \/ req'[b].id \in Ids \ issued
<1>0. /\ pc \in [Callers -> Steps] /\ req \in [Callers -> Request]
      /\ \A b \in Callers \ {c} : pc'[b] = pc[b] /\ req'[b] = req[b]
  BY Frame DEF IInv, TypeOK
<1>1. \A b \in Callers \ {c} : Storing(b)' => Storing(b) /\ req'[b] = req[b]
  BY <1>0 DEF Storing
<1>2. CASE InvokeStore(c)
  <2>1. PICK i \in Ids \ issued, t \in Ids \cup {NoId}, keywords \in SUBSET Keywords :
          /\ Invoke(c, [NoRequest EXCEPT !.op = "store", !.id = i, !.target = t, !.keywords = keywords],
                    "begin")
          /\ issued' = issued \cup {i}
    BY <1>2 DEF InvokeStore
  <2>2. req'[c].id = i
    BY <1>0, <2>1 DEF Invoke, NoRequest
  <2> QED BY <1>1, <2>1, <2>2
<1>3. ASSUME InvokeRate(c) \/ InvokeDelete(c) \/ InvokeGet(c)
      PROVE  issued' = issued /\ req'[c].op # "store"
  <2>1. CASE InvokeRate(c)
    BY <1>0, <2>1 DEF InvokeRate, Invoke, NoRequest
  <2>2. CASE InvokeDelete(c)
    BY <1>0, <2>2 DEF InvokeDelete, Invoke, NoRequest
  <2>3. CASE InvokeGet(c)
    BY <1>0, <2>3 DEF InvokeGet, Invoke, NoRequest
  <2> QED BY <1>3, <2>1, <2>2, <2>3
<1>4. CASE Return(c) \/ Crash(c)
  <2>1. issued' = issued /\ pc'[c] = "idle"
    BY <1>0, <1>4 DEF Return, Crash, Reset, Goto
  <2> QED BY <1>1, <2>1 DEF Storing
<1>5. ASSUME Step(c), ~Return(c)
      PROVE  issued' = issued /\ req' = req /\ pc[c] \notin {"idle", "reply"}
  <2>1. CASE RejectInvalid(c) \/ Begin(c) \/ Busy(c) \/ LoadMissing(c) \/ LoadSuperseded(c)
             \/ LoadForUpdate(c) \/ LoadForDelete(c) \/ SaveInsert(c) \/ SaveUpdate(c)
    BY <2>1 DEF RejectInvalid, Begin, Busy, LoadMissing, LoadSuperseded, LoadForUpdate,
                LoadForDelete, SaveInsert, SaveUpdate, Rollback
  <2>2. CASE SaveKeywords(c) \/ RemoveKeywords(c) \/ RemoveMemory(c) \/ Commit(c)
             \/ StatementFails(c) \/ ReadRow(c) \/ BumpAccess(c) \/ BumpLost(c) \/ ReadFails(c)
    BY <2>2 DEF SaveKeywords, RemoveKeywords, RemoveMemory, Commit, StatementFails, ReadRow,
                BumpAccess, BumpLost, ReadFails, Rollback, InTx
  <2> QED BY <1>5, <2>1, <2>2 DEF Step
<1>6. CASE Call(c) /\ ~InvokeStore(c)
  BY <1>1, <1>3, <1>6 DEF Call, Storing
<1>7. CASE Step(c) /\ ~Return(c)
  BY <1>1, <1>5, <1>7 DEF Storing
<1> QED BY <1>2, <1>4, <1>6, <1>7

LEMMA StoreHistory ==
  ASSUME IInv, IInv', EInv, NEW c \in Callers, Commit(c), req[c].op = "store"
  PROVE  HistoryOK'
<1>1. /\ db \in Database /\ db' \in Database /\ RequestOK(c) /\ UNCHANGED <<req, issued>>
      /\ req[c] \in Request /\ corrections \in [Ids -> SUBSET Ids] /\ HistoryOK
  BY CommitFacts DEF IInv, TypeOK, EInv
<1>2. deleted' = deleted
  BY DEF Commit
<1>3. PICK j \in Pks \ Used(db) :
        /\ db'.memories[j] = NewMemory(req[c].id, req[c].keywords)
        /\ req[c].target = NoId =>
              \A k \in Pks \ {j} : db'.memories[k] = db.memories[k]
        /\ req[c].target # NoId =>
              \E t \in Live(c) :
                /\ db'.memories[t] = [db.memories[t] EXCEPT !.superseded_by = req[c].id]
                /\ \A k \in Pks \ {j, t} : db'.memories[k] = db.memories[k]
  BY StoreCommit
<1>4. /\ req[c].id \in Ids /\ ~Present(db, req[c].id) /\ req[c].id \in issued
      /\ corrections[req[c].id] = {}
  BY StoreCommit
<1>5. /\ db'.memories[j].id = req[c].id /\ db'.memories[j].superseded_by = NoId
      /\ j \in Used(db')
  BY <1>1, <1>3, <1>4, UsedById DEF NewMemory, NoRow
<1>6. Present(db', req[c].id)
  BY <1>5 DEF Present, PkOf
<1>7. CASE req[c].target = NoId
  <2>1. corrections' = corrections /\ \A k \in Pks \ {j} : db'.memories[k] = db.memories[k]
    BY <1>3, <1>7 DEF Commit
  <2>2. \A k \in Used(db') : k = j \/ (k \in Used(db) /\ db'.memories[k] = db.memories[k])
    BY <2>1 DEF Used
  <2>3. \A i : Present(db, i) => Present(db', i)
    <3> SUFFICES ASSUME NEW i, NEW k \in PkOf(db, i) PROVE k \in PkOf(db', i)
      BY DEF Present
    <3> QED BY <1>3, <2>1 DEF PkOf, Used
  <2>4. CorrectionIsWhole'
    BY <1>1, <1>2, <1>4, <1>5, <2>1, <2>2, <2>3 DEF HistoryOK, CorrectionIsWhole
  <2>5. \A b \in Callers : Storing(b)' => corrections'[req'[b].id] = {}
    BY <1>1, <1>4, <2>1, StoringKept DEF HistoryOK, Step
  <2> QED BY <1>1, <2>1, <2>4, <2>5 DEF HistoryOK
<1>8. CASE req[c].target # NoId
  <2>1. PICK t \in Live(c) :
          /\ db'.memories[t] = [db.memories[t] EXCEPT !.superseded_by = req[c].id]
          /\ \A k \in Pks \ {j, t} : db'.memories[k] = db.memories[k]
    BY <1>3, <1>8
  <2>2. /\ t \in Used(db) /\ t \in Pks /\ db.memories[t] \in Row /\ t # j
        /\ db.memories[t].id = req[c].target /\ db.memories[t].superseded_by = NoId
        /\ req[c].target \in Ids /\ req[c].target # req[c].id
    BY <1>1, <1>4, <2>1, UsedRow DEF Live, PkOf, Present
  <2>3. db'.memories[t].id = req[c].target /\ db'.memories[t].superseded_by = req[c].id
    BY <2>1, <2>2 DEF Row
  <2>4. corrections[req[c].target] = {}
    BY <1>1, <2>2 DEF HistoryOK, CorrectionIsWhole
  <2>5. corrections' = [corrections EXCEPT ![req[c].target] = @ \cup {req[c].id}]
    BY <1>8 DEF Commit
  <2>6. /\ corrections'[req[c].target] = {req[c].id}
        /\ \A i \in Ids \ {req[c].target} : corrections'[i] = corrections[i]
    BY <1>1, <2>2, <2>4, <2>5
  <2>7. \A k \in Used(db') :
          \/ k = j
          \/ k = t
          \/ k \in Used(db) /\ db'.memories[k] = db.memories[k] /\ db.memories[k].id \in Ids \ {req[c].target}
    <3> SUFFICES ASSUME NEW k \in Used(db'), k # j, k # t
                 PROVE  /\ k \in Used(db) /\ db'.memories[k] = db.memories[k]
                        /\ db.memories[k].id \in Ids \ {req[c].target}
      OBVIOUS
    <3>1. k \in Used(db) /\ db'.memories[k] = db.memories[k]
      BY <2>1 DEF Used
    <3>2. UniqueIn(db)
      BY CommitFacts
    <3> QED BY <1>1, <2>2, <3>1, <3>2, UsedRow DEF UniqueIn
  <2>8. \A i : Present(db, i) => Present(db', i)
    <3> SUFFICES ASSUME NEW i, NEW k \in PkOf(db, i) PROVE k \in PkOf(db', i)
      BY DEF Present
    <3>1. k \in Used(db) /\ k \in Pks /\ k # j /\ db.memories[k].id = i
      BY <1>3 DEF PkOf, Used
    <3>2. db'.memories[k].id = i
      BY <2>1, <2>2, <2>3, <3>1
    <3>3. i \in Ids
      BY <1>1, <3>1, UsedRow
    <3> QED BY <1>1, <3>1, <3>2, <3>3, UsedById DEF PkOf
  <2>9. CorrectionIsWhole'
    <3> SUFFICES ASSUME NEW k \in Used(db')
                 PROVE  /\ db'.memories[k].superseded_by # NoId =>
                             \/ Present(db', db'.memories[k].superseded_by)
                             \/ db'.memories[k].superseded_by \in deleted'
                        /\ \A i \in corrections'[db'.memories[k].id] : db'.memories[k].superseded_by = i
      BY DEF CorrectionIsWhole
    <3>1. CASE k = j
      BY <1>4, <1>5, <2>2, <2>6, <3>1
    <3>2. CASE k = t
      BY <1>6, <2>3, <2>6, <3>2
    <3>3. CASE k # j /\ k # t
      BY <1>1, <1>2, <2>6, <2>7, <2>8, <3>3 DEF HistoryOK, CorrectionIsWhole
    <3> QED BY <3>1, <3>2, <3>3
  <2>10. ASSUME NEW b \in Callers, Storing(b)' PROVE corrections'[req'[b].id] = {}
    <3>1. Storing(b) /\ req'[b] = req[b]
      BY <1>1, <2>10 DEF Storing, Commit, Reply, Goto, IInv, TypeOK
    <3>2. req[b].id \in Ids /\ ~Present(db, req[b].id) /\ corrections[req[b].id] = {}
      BY <1>1, <3>1 DEF IInv, FreshIds, RequestOK, Storing, HistoryOK
    <3>3. Present(db, req[c].target)
      BY <2>2 DEF Present, PkOf
    <3> QED BY <2>6, <3>1, <3>2, <3>3
  <2>11. req[c].target \in issued
    BY <2>2 DEF IInv, FreshIds
  <2> QED BY <1>1, <2>6, <2>9, <2>10, <2>11 DEF HistoryOK
<1> QED BY <1>7, <1>8

LEMMA HistoryKept ==
  ASSUME IInv, IInv', EInv, NEW c \in Callers, Call(c) \/ Step(c) \/ Crash(c)
  PROVE  HistoryOK'
<1>0. /\ db \in Database /\ db' \in Database /\ HistoryOK
      /\ issued \subseteq issued'
      /\ \A b \in Callers : Storing(b)' => \/ Storing(b) /\ req'[b] = req[b]
                                           \/ req'[b].id \in Ids \ issued
  BY StoringKept DEF IInv, TypeOK, EInv
<1>1. CASE Commit(c)
  <2>1. req[c].op \in {"store", "rate", "delete"}
    BY <1>1, CommitFacts DEF Done, Request, Ops
  <2>2. CASE req[c].op = "store"
    BY <1>1, <2>2, StoreHistory
  <2>3. CASE req[c].op = "rate"
    <3>1. PICK t \in Live(c) :
            /\ db'.memories[t] = Rated(db.memories[t], req[c].up)
            /\ \A k \in Pks \ {t} : db'.memories[k] = db.memories[k]
      BY <1>1, <2>3, RateCommit
    <3>2. t \in Used(db) /\ db.memories[t] \in Row
      BY <1>0, UsedRow DEF Live, PkOf
    <3>3. /\ db'.memories[t].id = db.memories[t].id
          /\ db'.memories[t].superseded_by = db.memories[t].superseded_by
      BY <3>1, <3>2 DEF Rated, Row
    <3>4. \A k \in Pks : /\ db'.memories[k].id = db.memories[k].id
                         /\ db'.memories[k].superseded_by = db.memories[k].superseded_by
      BY <3>1, <3>3
    <3>5. Used(db') = Used(db)
      BY <1>0, <3>4, UsedById DEF Used
    <3>6. UNCHANGED <<deleted, corrections>>
      BY <1>1, <2>3 DEF Commit
    <3>7. \A k \in Used(db') : k \in Pks
      BY DEF Used
    <3> QED BY <1>0, <3>4, <3>5, <3>6, <3>7, PlainHistory
  <2>4. CASE req[c].op = "delete"
    <3>1. PICK t \in PkOf(db, req[c].target) :
            /\ db'.memories[t] = NoRow
            /\ \A k \in Pks \ {t} : db'.memories[k] = db.memories[k]
      BY <1>1, <2>4, DeleteCommit
    <3>2. corrections' = corrections /\ deleted' = deleted \cup {req[c].target}
      BY <1>1, <2>4 DEF Commit
    <3>3. \A k \in Used(db') : k \in Used(db) /\ db'.memories[k] = db.memories[k]
      BY <3>1 DEF Used
    <3>4. \A k \in Used(db) \ Used(db') : k = t
      BY <3>1 DEF Used
    <3>5. db.memories[t].id = req[c].target
      BY DEF PkOf
    <3> QED BY <1>0, <3>2, <3>3, <3>4, <3>5, PlainHistory
  <2> QED BY <2>1, <2>2, <2>3, <2>4
<1>2. CASE BumpAccess(c)
  <2>1. UNCHANGED history
    BY <1>2, BumpRows
  <2>2. \A k \in Pks : /\ db'.memories[k].id = db.memories[k].id
                       /\ db'.memories[k].superseded_by = db.memories[k].superseded_by
    <3>1. CASE db' = db
      BY <3>1
    <3>2. ASSUME NEW t \in PkOf(db, req[c].target),
                 db'.memories[t] = [db.memories[t] EXCEPT !.access_count = @ + 1],
                 \A k \in Pks \ {t} : db'.memories[k] = db.memories[k]
          PROVE  \A k \in Pks : /\ db'.memories[k].id = db.memories[k].id
                                /\ db'.memories[k].superseded_by = db.memories[k].superseded_by
      <4>1. db.memories[t] \in Row
        BY <1>0, UsedRow DEF PkOf
      <4> QED BY <3>2, <4>1 DEF Row
    <3> QED BY <1>2, <3>1, <3>2, BumpRows
  <2>3. Used(db') = Used(db)
    BY <1>0, <2>2, UsedById DEF Used
  <2>4. \A k \in Used(db') : k \in Pks
    BY DEF Used
  <2> QED BY <1>0, <2>1, <2>2, <2>3, <2>4, PlainHistory DEF history
<1>3. CASE ~Commit(c) /\ ~BumpAccess(c)
  <2>1. UNCHANGED <<db, history>>
    BY <1>3, OnlyTwoCommit
  <2> QED BY <1>0, <2>1, PlainHistory DEF history
<1> QED BY <1>1, <1>2, <1>3

-----------------------------------------------------------------------------
LEMMA EInitOK == Init => EInv
<1> SUFFICES ASSUME Init PROVE EInv
  OBVIOUS
<1>1. \A c \in Callers : CallerOK(c) /\ ~(writer = c) /\ ~Storing(c)
  BY DEF Init, CallerOK, Storing
<1>2. HistoryOK
  BY <1>1, EmptyDbOK DEF Init, HistoryOK, CorrectionIsWhole
<1> QED BY <1>1, <1>2 DEF EInv

LEMMA ENextOK == IInv /\ IInv' /\ EInv /\ [Next]_vars => EInv'
<1> SUFFICES ASSUME IInv, IInv', EInv, [Next]_vars PROVE EInv'
  OBVIOUS
<1>1. ASSUME NEW c \in Callers, Call(c) \/ Step(c) \/ Crash(c)
      PROVE  EInv'
  <2>1. CallerOK(c)'
    BY <1>1, CallerKept DEF EInv
  <2>2. \A b \in Callers \ {c} : CallerOK(b)'
    BY <1>1, Frame DEF EInv, CallerOK
  <2>3. \A w \in Callers : writer' = w => EffectOK(w)'
    BY <1>1, EffectKept
  <2>4. HistoryOK'
    BY <1>1, HistoryKept
  <2> QED BY <2>1, <2>2, <2>3, <2>4 DEF EInv
<1>2. CASE UNCHANGED vars
  <2>1. \A c \in Callers : CallerOK(c)' /\ (Storing(c)' <=> Storing(c))
    BY <1>2 DEF vars, EInv, CallerOK, Storing
  <2>2. ASSUME NEW w \in Callers, writer' = w PROVE EffectOK(w)'
    <3>1. UNCHANGED <<db, work, pc, req, agg, writer>>
      BY <1>2 DEF vars
    <3>2. /\ Live(w)' = Live(w)
          /\ Marked(w, work.memories)' <=> Marked(w, work.memories)
          /\ Done(w, work.memories)' <=> Done(w, work.memories)
      BY <3>1, DoneKept
    <3>3. \A row : Changed(w, row)' = Changed(w, row)
      BY <3>1 DEF Changed
    <3> QED BY <2>2, <3>1, <3>2, <3>3 DEF EInv, EffectOK, Valid
  <2>3. HistoryOK'
    BY <1>2, <2>1 DEF vars, EInv, HistoryOK, CorrectionIsWhole
  <2> QED BY <2>1, <2>2, <2>3 DEF EInv
<1> QED BY <1>1, <1>2 DEF Next

(* The effect of every transaction is that of its call, in every           *)
(* reachable state.                                                        *)
THEOREM EffectInductive == Spec => [](IInv /\ EInv)
BY Inductive, EInitOK, ENextOK, PTL DEF Spec

(* A correction and the mark on the memory it corrects are committed       *)
(* together, and a mark dangles only after a deletion.                     *)
THEOREM CorrectionsWhole == Spec => []CorrectionIsWhole
<1>1. EInv => CorrectionIsWhole
  BY DEF EInv, HistoryOK
<1> QED BY <1>1, EffectInductive, PTL

(* However many Stores race to correct a memory, one of them succeeds.     *)
THEOREM CorrectedOnce == Spec => []OneCorrection
<1>1. IInv /\ EInv => OneCorrection
  <2> SUFFICES ASSUME EInv, IInv, NEW i \in Ids PROVE Cardinality(corrections[i]) <= 1
    BY DEF OneCorrection
  <2>1. CASE corrections[i] = {}
    <3>1. Cardinality(corrections[i]) = 0
      BY <2>1, FS_EmptySet
    <3> QED BY <3>1
  <2>2. CASE corrections[i] # {}
    <3>1. PICK n : n \in corrections[i]
      BY <2>2
    <3>2. corrections[i] = {n}
      BY <3>1 DEF EInv, HistoryOK
    <3>3. Cardinality({n}) = 1
      BY FS_Singleton
    <3>4. Cardinality(corrections[i]) = 1
      BY <3>2, <3>3
    <3> QED BY <3>4
  <2> QED BY <2>1, <2>2
<1> QED BY <1>1, EffectInductive, PTL

-----------------------------------------------------------------------------
(* The rows of superseded memories.                                        *)
LEMMA FrozenStep ==
  ASSUME IInv, EInv, Next, NEW k \in Pks
  PROVE  FrozenRow(k)
<1> SUFFICES ASSUME db.memories[k].superseded_by # NoId, db'.memories[k].id = db.memories[k].id
             PROVE  [db'.memories[k] EXCEPT !.access_count = 0] = [db.memories[k] EXCEPT !.access_count = 0]
  BY DEF FrozenRow
<1>0. db \in Database
  BY DEF IInv, TypeOK
<1>1. k \in Used(db) /\ db.memories[k] \in Row
  <2>1. k \in Used(db)
    BY DEF Used, NoRow
  <2> QED BY <1>0, <2>1, UsedRow
<1>2. PICK c \in Callers : Call(c) \/ Step(c) \/ Crash(c)
  BY DEF Next
<1>3. \A t \in Live(c) : t # k
  BY DEF Live
<1>4. CASE Commit(c)
  <2>1. req[c].op \in {"store", "rate", "delete"}
    BY <1>4, CommitFacts DEF Done, Request, Ops
  <2>2. CASE req[c].op = "store"
    BY <1>1, <1>3, <1>4, <2>2, StoreCommit
  <2>3. CASE req[c].op = "rate"
    BY <1>3, <1>4, <2>3, RateCommit
  <2>4. CASE req[c].op = "delete"
    <3>1. db'.memories[k] # NoRow
      BY <1>1, NoRowIsNoRow DEF Row
    <3> QED BY <1>4, <2>4, <3>1, DeleteCommit
  <2> QED BY <2>1, <2>2, <2>3, <2>4
<1>5. CASE BumpAccess(c)
  <2>1. CASE db' = db
    BY <2>1
  <2>2. ASSUME NEW t \in PkOf(db, req[c].target),
               db'.memories[t] = [db.memories[t] EXCEPT !.access_count = @ + 1],
               \A l \in Pks \ {t} : db'.memories[l] = db.memories[l]
        PROVE  [db'.memories[k] EXCEPT !.access_count = 0] = [db.memories[k] EXCEPT !.access_count = 0]
    BY <1>1, <2>2 DEF Row
  <2> QED BY <1>5, <2>1, <2>2, BumpRows
<1>6. CASE ~Commit(c) /\ ~BumpAccess(c)
  BY <1>2, <1>6, OnlyTwoCommit
<1> QED BY <1>4, <1>5, <1>6

(* Once a memory is superseded, nothing but its access count changes until *)
(* it is deleted: no interleaving of Rate and Store gets past the check.   *)
THEOREM FrozenOnceSuperseded == Spec => SupersededFrozen
<1>1. IInv /\ EInv /\ [Next]_vars => [\A k \in Pks : FrozenRow(k)]_db
  BY FrozenStep DEF vars
<1> QED BY <1>1, EffectInductive, PTL DEF Spec, SupersededFrozen

-----------------------------------------------------------------------------
(* The refinement of MemoryService.                                        *)

(* The view of a database: the row of each id, or the absent memory.       *)
LEMMA ViewOf ==
  ASSUME NEW d \in Database, UniqueIn(d), NEW i \in Ids
  PROVE  /\ ~Present(d, i) => View(d)[i] = NoView
         /\ \A k \in PkOf(d, i) : View(d)[i] = RowView(d.memories[k])
         /\ View(d)[i].present <=> Present(d, i)
<1>1. ~Present(d, i) => View(d)[i] = NoView
  BY DEF View
<1>2. ASSUME NEW k \in PkOf(d, i) PROVE View(d)[i] = RowView(d.memories[k])
  <2>1. PkOf(d, i) = {k}
    BY DEF PkOf, UniqueIn
  <2>2. Present(d, i) /\ (CHOOSE l \in PkOf(d, i) : TRUE) = k
    BY <2>1 DEF Present
  <2> QED BY <2>2 DEF View
<1>3. View(d)[i].present <=> Present(d, i)
  <2>1. CASE ~Present(d, i)
    BY <1>1, <2>1 DEF NoView
  <2>2. CASE Present(d, i)
    <3>1. PICK k : k \in PkOf(d, i)
      BY <2>2 DEF Present
    <3>2. View(d)[i] = RowView(d.memories[k])
      BY <1>2, <3>1
    <3> QED BY <2>2, <3>2 DEF RowView
  <2> QED BY <2>1, <2>2
<1> QED BY <1>1, <1>2, <1>3

(* Setting a column of a row sets that column of its view. (The view is    *)
(* written with its first field as a parameter: a literal TRUE in a record *)
(* that is updated is beyond the provers.)                                 *)
ViewWith(p, keywords, link, up, down, count) ==
  [present |-> p, keywords |-> keywords, superseded_by |-> link,
   votes_up |-> up, votes_down |-> down, access_count |-> count]

LEMMA ViewColumn ==
  ASSUME NEW row \in Row, NEW x
  PROVE  /\ RowView([row EXCEPT !.superseded_by = x]) = [RowView(row) EXCEPT !.superseded_by = x]
         /\ RowView([row EXCEPT !.votes_up = x]) = [RowView(row) EXCEPT !.votes_up = x]
         /\ RowView([row EXCEPT !.votes_down = x]) = [RowView(row) EXCEPT !.votes_down = x]
         /\ RowView([row EXCEPT !.access_count = x]) = [RowView(row) EXCEPT !.access_count = x]
<1>1. \A r : RowView(r) = ViewWith(TRUE, r.keywords, r.superseded_by, r.votes_up, r.votes_down,
                                   r.access_count)
  BY DEF RowView, ViewWith
<1>2. ASSUME NEW p, NEW a, NEW b, NEW c, NEW d, NEW e
      PROVE  /\ [ViewWith(p, a, b, c, d, e) EXCEPT !.superseded_by = x] = ViewWith(p, a, x, c, d, e)
             /\ [ViewWith(p, a, b, c, d, e) EXCEPT !.votes_up = x] = ViewWith(p, a, b, x, d, e)
             /\ [ViewWith(p, a, b, c, d, e) EXCEPT !.votes_down = x] = ViewWith(p, a, b, c, x, e)
             /\ [ViewWith(p, a, b, c, d, e) EXCEPT !.access_count = x] = ViewWith(p, a, b, c, d, x)
  BY DEF ViewWith
<1>3. ASSUME NEW p,
             RowView(row) = ViewWith(p, row.keywords, row.superseded_by, row.votes_up, row.votes_down,
                                     row.access_count)
      PROVE  /\ [RowView(row) EXCEPT !.superseded_by = x] =
                  ViewWith(p, row.keywords, x, row.votes_up, row.votes_down, row.access_count)
             /\ [RowView(row) EXCEPT !.votes_up = x] =
                  ViewWith(p, row.keywords, row.superseded_by, x, row.votes_down, row.access_count)
             /\ [RowView(row) EXCEPT !.votes_down = x] =
                  ViewWith(p, row.keywords, row.superseded_by, row.votes_up, x, row.access_count)
             /\ [RowView(row) EXCEPT !.access_count = x] =
                  ViewWith(p, row.keywords, row.superseded_by, row.votes_up, row.votes_down, x)
  BY <1>2, <1>3
<1>4. /\ [row EXCEPT !.superseded_by = x].keywords = row.keywords
      /\ [row EXCEPT !.superseded_by = x].superseded_by = x
      /\ [row EXCEPT !.superseded_by = x].votes_up = row.votes_up
      /\ [row EXCEPT !.superseded_by = x].votes_down = row.votes_down
      /\ [row EXCEPT !.superseded_by = x].access_count = row.access_count
      /\ [row EXCEPT !.votes_up = x].keywords = row.keywords
      /\ [row EXCEPT !.votes_up = x].superseded_by = row.superseded_by
      /\ [row EXCEPT !.votes_up = x].votes_up = x
      /\ [row EXCEPT !.votes_up = x].votes_down = row.votes_down
      /\ [row EXCEPT !.votes_up = x].access_count = row.access_count
      /\ [row EXCEPT !.votes_down = x].keywords = row.keywords
      /\ [row EXCEPT !.votes_down = x].superseded_by = row.superseded_by
      /\ [row EXCEPT !.votes_down = x].votes_up = row.votes_up
      /\ [row EXCEPT !.votes_down = x].votes_down = x
      /\ [row EXCEPT !.votes_down = x].access_count = row.access_count
      /\ [row EXCEPT !.access_count = x].keywords = row.keywords
      /\ [row EXCEPT !.access_count = x].superseded_by = row.superseded_by
      /\ [row EXCEPT !.access_count = x].votes_up = row.votes_up
      /\ [row EXCEPT !.access_count = x].votes_down = row.votes_down
      /\ [row EXCEPT !.access_count = x].access_count = x
  BY DEF Row
<1> QED BY <1>1, <1>3, <1>4

LEMMA ViewPrimed == View(db)' = View(db')
  BY DEF View, Present, PkOf, Used

LEMMA ViewIsFunction == \A d : View(d) = [i \in Ids |-> View(d)[i]]
  BY DEF View

LEMMA PhaseOf ==
  ASSUME NEW c \in Callers
  PROVE  /\ pc[c] = "idle" => Phase(c) = "idle"
         /\ pc[c] = "bump" => Phase(c) = "performed"
         /\ pc[c] = "reply" => Phase(c) = IF req[c].op = "get" /\ reply[c] = "ok" THEN "counted"
                                                                              ELSE "performed"
         /\ pc[c] \notin {"idle", "bump", "reply"} => Phase(c) = "invoked"
  BY DEF Phase

LEMMA CallOf ==
  ASSUME NEW c \in Callers
  PROVE  CallView[c] = [phase |-> Phase(c), req |-> req[c], reply |-> reply[c]]
  BY DEF CallView

(* A step of a caller changes the view of that caller only.                *)
LEMMA CallStep ==
  ASSUME IInv, NEW c \in Callers, Call(c) \/ Step(c) \/ Crash(c)
  PROVE  CallView' = [CallView EXCEPT ![c] = [phase |-> Phase(c)', req |-> req'[c], reply |-> reply'[c]]]
<1>1. ASSUME NEW b \in Callers \ {c} PROVE Phase(b)' = Phase(b) /\ req'[b] = req[b] /\ reply'[b] = reply[b]
  BY <1>1, Frame DEF Phase
<1> QED BY <1>1 DEF CallView

LEMMA AnswerStep ==
  ASSUME IInv, NEW c \in Callers, Step(c), Phase(c)' = "performed", req'[c] = req[c],
         NEW answer, reply'[c] = answer
  PROVE  Service!Answer(c, answer)
<1>1. CallView' = [CallView EXCEPT ![c] = [phase |-> Phase(c)', req |-> req'[c], reply |-> reply'[c]]]
  BY CallStep
<1>2. CallView[c] = [phase |-> Phase(c), req |-> req[c], reply |-> reply[c]]
  BY CallOf
<1>3. CallView[c].req = req[c]
  BY <1>2
<1>4. CallView' = [CallView EXCEPT ![c] = [phase |-> "performed", req |-> req[c], reply |-> answer]]
  BY <1>1
<1> QED BY <1>3, <1>4 DEF Service!Answer

(* Calls arrive.                                                           *)
LEMMA InvokeStep ==
  ASSUME IInv, EInv, NEW c \in Callers, Call(c)
  PROVE  Service!Invoke(c)
<1>0. /\ pc \in [Callers -> Steps] /\ req \in [Callers -> Request] /\ reply \in [Callers -> Replies]
      /\ issued \subseteq Ids
  BY DEF IInv, TypeOK
<1>1. /\ pc[c] = "idle" /\ UNCHANGED <<db, reply>> /\ reply[c] = "none"
  BY DEF Call, InvokeStore, InvokeRate, InvokeDelete, InvokeGet, Invoke, EInv, CallerOK
<1>2. /\ pc'[c] \in {"begin", "read"} /\ req'[c] \in Request /\ req'[c].id \notin issued
      /\ issued' = issued \cup ({req'[c].id} \ {NoId})
  <2>1. CASE InvokeStore(c)
    <3>1. PICK i \in Ids \ issued, t \in Ids \cup {NoId}, keywords \in SUBSET Keywords :
            /\ Invoke(c, [NoRequest EXCEPT !.op = "store", !.id = i, !.target = t, !.keywords = keywords],
                      "begin")
            /\ issued' = issued \cup {i}
      BY <2>1 DEF InvokeStore
    <3>2. req'[c] = [NoRequest EXCEPT !.op = "store", !.id = i, !.target = t, !.keywords = keywords]
      BY <1>0, <3>1 DEF Invoke
    <3>3. req'[c] \in Request /\ req'[c].id = i
      BY <3>2 DEF NoRequest, Request, Ops
    <3>4. pc'[c] = "begin"
      BY <1>0, <3>1 DEF Invoke, Goto
    <3> QED BY <3>1, <3>3, <3>4
  <2>2. CASE InvokeRate(c)
    <3>1. PICK i \in Ids, up \in BOOLEAN :
            /\ Invoke(c, [NoRequest EXCEPT !.op = "rate", !.target = i, !.up = up], "begin")
            /\ UNCHANGED issued
      BY <2>2 DEF InvokeRate
    <3>2. req'[c] = [NoRequest EXCEPT !.op = "rate", !.target = i, !.up = up] /\ pc'[c] = "begin"
      BY <1>0, <3>1 DEF Invoke, Goto
    <3>3. req'[c] \in Request /\ req'[c].id = NoId
      BY <3>2 DEF NoRequest, Request, Ops
    <3> QED BY <1>0, <3>1, <3>2, <3>3
  <2>3. CASE InvokeDelete(c)
    <3>1. PICK i \in Ids :
            /\ Invoke(c, [NoRequest EXCEPT !.op = "delete", !.target = i], "begin")
            /\ UNCHANGED issued
      BY <2>3 DEF InvokeDelete
    <3>2. req'[c] = [NoRequest EXCEPT !.op = "delete", !.target = i] /\ pc'[c] = "begin"
      BY <1>0, <3>1 DEF Invoke, Goto
    <3>3. req'[c] \in Request /\ req'[c].id = NoId
      BY <3>2 DEF NoRequest, Request, Ops
    <3> QED BY <1>0, <3>1, <3>2, <3>3
  <2>4. CASE InvokeGet(c)
    <3>1. PICK i \in Ids : Invoke(c, [NoRequest EXCEPT !.target = i], "read") /\ UNCHANGED issued
      BY <2>4 DEF InvokeGet
    <3>2. req'[c] = [NoRequest EXCEPT !.target = i] /\ pc'[c] = "read"
      BY <1>0, <3>1 DEF Invoke, Goto
    <3>3. req'[c] \in Request /\ req'[c].id = NoId
      BY <3>2 DEF NoRequest, Request, Ops
    <3> QED BY <1>0, <3>1, <3>2, <3>3
  <2> QED BY <2>1, <2>2, <2>3, <2>4 DEF Call
<1>3. CallView[c].phase = "idle"
  <2>1. CallView[c] = [phase |-> Phase(c), req |-> req[c], reply |-> reply[c]]
    BY CallOf
  <2>2. Phase(c) = "idle"
    BY <1>1, PhaseOf
  <2> QED BY <2>1, <2>2
<1>4. Phase(c)' = "invoked"
  BY <1>2, PhaseOf DEF Phase
<1>5. CallView' = [CallView EXCEPT ![c] = [phase |-> "invoked", req |-> req'[c], reply |-> "none"]]
  BY <1>1, <1>4, CallStep
<1>6. req'[c] \in Service!Request
  BY <1>2 DEF Service!Request, Service!Ops, Request, Ops
<1>7. View(db)' = View(db)
  BY <1>1, ViewPrimed
<1> QED BY <1>2, <1>3, <1>5, <1>6, <1>7 DEF Service!Invoke

(* What the refinement knows of a caller in a step.                        *)
LEMMA StepFacts ==
  ASSUME IInv, EInv, NEW c \in Callers
  PROVE  /\ pc \in [Callers -> Steps] /\ req \in [Callers -> Request]
         /\ reply \in [Callers -> Replies] /\ RequestOK(c) /\ CallerOK(c)
         /\ db \in Database /\ UniqueIn(db)
         /\ CallView[c].phase = Phase(c) /\ CallView[c].req = req[c] /\ CallView[c].reply = reply[c]
<1>1. CallView[c] = [phase |-> Phase(c), req |-> req[c], reply |-> reply[c]]
  BY CallOf
<1> QED BY <1>1 DEF IInv, TypeOK, EInv, Sound

(* A refusal says what is so, or that something failed.                    *)
LEMMA RefuseStep ==
  ASSUME IInv, EInv, NEW c \in Callers, Step(c),
         \/ RejectInvalid(c) \/ Busy(c) \/ LoadMissing(c) \/ LoadSuperseded(c)
         \/ StatementFails(c) \/ ReadFails(c) \/ (ReadRow(c) /\ ~Present(db, req[c].target))
  PROVE  Service!Refuse(c)
<1>0. /\ pc \in [Callers -> Steps] /\ req[c] \in Request
      /\ reply \in [Callers -> Replies] /\ RequestOK(c) /\ CallerOK(c)
      /\ db \in Database /\ UniqueIn(db)
      /\ CallView[c].phase = Phase(c) /\ CallView[c].req = req[c] /\ CallView[c].reply = reply[c]
  BY StepFacts
<1>1. /\ pc[c] \notin {"idle", "bump", "reply"} /\ pc'[c] = "reply"
      /\ UNCHANGED <<db, req, issued>>
  BY <1>0 DEF RejectInvalid, Busy, LoadMissing, LoadSuperseded, StatementFails, ReadFails, ReadRow,
              Rollback, Reply, Goto, InTx
<1>2. Phase(c) = "invoked" /\ View(db)' = View(db)
  BY <1>1, PhaseOf, ViewPrimed
<1>3. reply'[c] \in {"not_found", "superseded", "no_keywords", "error"}
  BY <1>0 DEF RejectInvalid, Busy, LoadMissing, LoadSuperseded, StatementFails, ReadFails, ReadRow,
              Rollback, Reply
<1>4. Phase(c)' = "performed"
  BY <1>1, <1>3 DEF Phase
<1>5. Service!Answer(c, reply'[c])
  BY <1>1, <1>4, AnswerStep
<1>6. CASE reply'[c] = "error"
  BY <1>0, <1>1, <1>2, <1>5, <1>6 DEF Service!Refuse
<1>7. CASE RejectInvalid(c)
  <2>1. req[c].op = "store" /\ req[c].keywords = {} /\ reply'[c] = "no_keywords"
    BY <1>0, <1>7 DEF RejectInvalid, Valid, Reply
  <2> QED BY <1>0, <1>1, <1>2, <1>5, <2>1 DEF Service!Refuse
<1>8. CASE ReadRow(c) /\ ~Present(db, req[c].target)
  <2>1. reply'[c] = "not_found" /\ req[c].op = "get"
    BY <1>0, <1>8 DEF ReadRow, Reply, CallerOK
  <2>2. req[c].target \in Ids /\ req[c].target # NoId
    BY <1>0, <1>1, <2>1 DEF RequestOK
  <2>3. ~View(db)[req[c].target].present
    BY <1>0, <1>8, <2>2, ViewOf
  <2> QED BY <1>0, <1>1, <1>2, <1>5, <2>1, <2>2, <2>3 DEF Service!Refuse
<1>9. ASSUME pc[c] = "load"
      PROVE  req[c].target \in Ids /\ req[c].target # NoId /\ work.memories = db.memories
  <2>1. EffectOK(c)
    BY <1>9 DEF IInv, LockInv, EInv, InTx
  <2> QED BY <1>0, <1>9, <2>1 DEF EffectOK, Request
<1>10. CASE LoadMissing(c)
  <2>1. pc[c] = "load" /\ reply'[c] = "not_found" /\ ~Present(work, req[c].target)
    BY <1>0, <1>10 DEF LoadMissing, Rollback, Reply
  <2>2. ~Present(db, req[c].target)
    BY <1>9, <2>1, SameRows DEF Present
  <2>3. ~View(db)[req[c].target].present
    BY <1>0, <1>9, <2>1, <2>2, ViewOf
  <2> QED BY <1>0, <1>1, <1>2, <1>5, <1>9, <2>1, <2>3 DEF Service!Refuse
<1>11. CASE LoadSuperseded(c)
  <2>1. pc[c] = "load" /\ reply'[c] = "superseded" /\ req[c].op \in {"store", "rate"}
    BY <1>0, <1>11 DEF LoadSuperseded, Rollback, Reply
  <2>2. PICK k \in PkOf(work, req[c].target) : work.memories[k].superseded_by # NoId
    BY <1>11 DEF LoadSuperseded
  <2>3. k \in PkOf(db, req[c].target) /\ db.memories[k].superseded_by # NoId
    BY <1>9, <2>1, <2>2, SameRows
  <2>4. View(db)[req[c].target] = RowView(db.memories[k])
    BY <1>0, <1>9, <2>1, <2>3, ViewOf
  <2>5. View(db)[req[c].target].superseded_by # NoId
    BY <2>3, <2>4 DEF RowView
  <2> QED BY <1>0, <1>1, <1>2, <1>5, <1>9, <2>1, <2>5 DEF Service!Refuse
<1>12. CASE Busy(c) \/ StatementFails(c) \/ ReadFails(c)
  <2>1. reply'[c] = "error"
    BY <1>0, <1>12 DEF Busy, StatementFails, ReadFails, Rollback, Reply
  <2> QED BY <1>6, <2>1
<1> QED BY <1>7, <1>8, <1>10, <1>11, <1>12

(* The SELECT of a Get, and what follows it.                               *)
LEMMA GetStep ==
  ASSUME IInv, EInv, NEW c \in Callers, Step(c), ReadRow(c), Present(db, req[c].target)
  PROVE  Service!PerformGet(c)
<1>0. /\ pc \in [Callers -> Steps] /\ req[c] \in Request
      /\ reply \in [Callers -> Replies] /\ RequestOK(c) /\ CallerOK(c)
      /\ db \in Database /\ UniqueIn(db)
      /\ CallView[c].phase = Phase(c) /\ CallView[c].req = req[c] /\ CallView[c].reply = reply[c]
  BY StepFacts
<1>1. /\ pc[c] = "read" /\ pc'[c] = "bump" /\ reply'[c] = "ok" /\ UNCHANGED <<db, req, issued>>
      /\ req[c].op = "get"
  BY <1>0 DEF ReadRow, Goto, CallerOK
<1>2. Phase(c) = "invoked" /\ Phase(c)' = "performed" /\ View(db)' = View(db)
  BY <1>1, PhaseOf, ViewPrimed DEF Phase
<1>3. Service!Answer(c, "ok")
  BY <1>1, <1>2, AnswerStep
<1>4. View(db)[req[c].target].present
  BY <1>0, <1>1, ViewOf DEF RequestOK
<1> QED BY <1>0, <1>1, <1>2, <1>3, <1>4 DEF Service!PerformGet

LEMMA CountStep ==
  ASSUME IInv, IInv', EInv, NEW c \in Callers, Step(c), BumpAccess(c) \/ BumpLost(c)
  PROVE  Service!CountAccess(c)
<1>0. /\ pc \in [Callers -> Steps] /\ req[c] \in Request
      /\ RequestOK(c) /\ CallerOK(c)
      /\ db \in Database /\ UniqueIn(db) /\ db' \in Database /\ UniqueIn(db')
      /\ CallView[c] = [phase |-> Phase(c), req |-> req[c], reply |-> reply[c]]
      /\ CallView[c].phase = Phase(c) /\ CallView[c].req = req[c] /\ CallView[c].reply = reply[c]
  BY StepFacts, CallOf DEF IInv, TypeOK, Sound
<1>1. /\ pc[c] = "bump" /\ pc'[c] = "reply" /\ UNCHANGED <<req, reply, issued>>
      /\ req[c].op = "get" /\ reply[c] = "ok"
  BY <1>0 DEF BumpAccess, BumpLost, Goto, CallerOK
<1>2. Phase(c) = "performed" /\ Phase(c)' = "counted"
  BY <1>1, PhaseOf DEF Phase
<1>3. CallView' = [CallView EXCEPT ![c].phase = "counted"]
  <2>1. CallView' = [CallView EXCEPT ![c] = [phase |-> Phase(c)', req |-> req'[c], reply |-> reply'[c]]]
    BY CallStep
  <2>2. [phase |-> Phase(c)', req |-> req'[c], reply |-> reply'[c]] =
        [phase |-> "counted", req |-> req[c], reply |-> reply[c]]
    BY <1>1, <1>2
  <2>3. [CallView[c] EXCEPT !.phase = "counted"] = [phase |-> "counted", req |-> req[c], reply |-> reply[c]]
    BY <1>0
  <2> QED BY <2>1, <2>2, <2>3
<1>4. req[c].target \in Ids
  BY <1>0, <1>1 DEF RequestOK
<1>5. \/ /\ View(db)[req[c].target].present
         /\ View(db') = [View(db) EXCEPT ![req[c].target].access_count = @ + 1]
      \/ View(db') = View(db)
  <2>1. CASE db' = db
    BY <2>1
  <2>2. ASSUME NEW t \in PkOf(db, req[c].target),
               db'.memories[t] = [db.memories[t] EXCEPT !.access_count = @ + 1],
               \A k \in Pks \ {t} : db'.memories[k] = db.memories[k]
        PROVE  /\ View(db)[req[c].target].present
               /\ View(db') = [View(db) EXCEPT ![req[c].target].access_count = @ + 1]
    <3>1. /\ Present(db, req[c].target) /\ t \in Used(db) /\ t \in Pks
          /\ db.memories[t] \in Row /\ db.memories[t].id = req[c].target
      BY <1>0, UsedRow DEF Present, PkOf
    <3>2. \A k \in Pks : db'.memories[k].id = db.memories[k].id
      BY <2>2, <3>1 DEF Row
    <3>3. \A i \in Ids : PkOf(db', i) = PkOf(db, i)
      BY <1>0, <3>2, UsedById DEF PkOf, Used
    <3>4. View(db)[req[c].target] = RowView(db.memories[t]) /\ View(db)[req[c].target].present
      BY <1>0, <1>4, <3>1, ViewOf
    <3>5. View(db')[req[c].target] = RowView(db'.memories[t])
      BY <1>0, <1>4, <3>3, ViewOf
    <3>6. RowView(db'.memories[t]) = [RowView(db.memories[t]) EXCEPT !.access_count = @ + 1]
      <4>1. RowView(db.memories[t]).access_count = db.memories[t].access_count
        BY DEF RowView
      <4>2. RowView(db'.memories[t]) =
              [RowView(db.memories[t]) EXCEPT !.access_count = db.memories[t].access_count + 1]
        <5>1. \A n : RowView([db.memories[t] EXCEPT !.access_count = n]) =
                       [RowView(db.memories[t]) EXCEPT !.access_count = n]
          BY <3>1, ViewColumn
        <5>2. db'.memories[t] = [db.memories[t] EXCEPT !.access_count = db.memories[t].access_count + 1]
          BY <2>2
        <5> QED BY <5>1, <5>2
      <4> QED BY <4>1, <4>2
    <3>7. ASSUME NEW i \in Ids, i # req[c].target PROVE View(db')[i] = View(db)[i]
      <4>1. CASE ~Present(db, i)
        BY <1>0, <3>3, <4>1, ViewOf DEF Present
      <4>2. ASSUME NEW k \in PkOf(db, i) PROVE View(db')[i] = View(db)[i]
        <5>1. k # t /\ k \in Pks
          BY <3>1, <3>7 DEF PkOf, Used
        <5> QED BY <1>0, <2>2, <3>3, <5>1, ViewOf
      <4> QED BY <4>1, <4>2 DEF Present
    <3>8. View(db) = [i \in Ids |-> View(db)[i]] /\ View(db') = [i \in Ids |-> View(db')[i]]
      BY ViewIsFunction
    <3>9. View(db') = [View(db) EXCEPT ![req[c].target] = [View(db)[req[c].target] EXCEPT !.access_count = @ + 1]]
      BY <1>4, <3>4, <3>5, <3>6, <3>7, <3>8
    <3> QED BY <3>4, <3>9
  <2> QED BY <2>1, <2>2, BumpRows DEF BumpLost
<1> QED BY <1>0, <1>1, <1>2, <1>3, <1>5, ViewPrimed DEF Service!CountAccess

(* The caller has its answer, or its process is gone.                      *)
LEMMA FinishStep ==
  ASSUME IInv, EInv, NEW c \in Callers, Return(c) \/ Crash(c)
  PROVE  Service!Finish(c)
<1>0. /\ pc \in [Callers -> Steps] /\ req \in [Callers -> Request] /\ reply \in [Callers -> Replies]
      /\ CallView[c].phase = Phase(c)
  BY StepFacts
<1>1. /\ pc[c] # "idle" /\ pc'[c] = "idle" /\ req'[c] = NoRequest /\ reply'[c] = "none"
      /\ UNCHANGED <<db, issued>>
  BY <1>0 DEF Return, Crash, Reset, Goto
<1>2. Phase(c) # "idle" /\ Phase(c)' = "idle"
  BY <1>1 DEF Phase
<1>3. CallView' = [CallView EXCEPT ![c] = [phase |-> "idle", req |-> NoRequest, reply |-> "none"]]
  <2>1. CallView' = [CallView EXCEPT ![c] = [phase |-> Phase(c)', req |-> req'[c], reply |-> reply'[c]]]
    BY CallStep DEF Step
  <2> QED BY <1>1, <1>2, <2>1
<1> QED BY <1>0, <1>1, <1>2, <1>3, ViewPrimed
        DEF Service!Finish, Service!Idle, Service!NoRequest, NoRequest

(* The COMMIT of a command is the instant at which the call takes effect.  *)
LEMMA CommitAnswers ==
  ASSUME IInv, IInv', EInv, NEW c \in Callers, Step(c), Commit(c)
  PROVE  /\ db' = work /\ db \in Database /\ db' \in Database /\ UniqueIn(db) /\ UniqueIn(db')
         /\ CallView[c].phase = "invoked" /\ CallView[c].req = req[c]
         /\ Service!Answer(c, "ok") /\ UNCHANGED issued
         /\ req[c] \in Request /\ RequestOK(c) /\ pc[c] = "commit" /\ Valid(req[c])
<1>1. /\ db' = work /\ db \in Database /\ db' \in Database /\ UniqueIn(db) /\ UniqueIn(work)
      /\ pc[c] = "commit" /\ UNCHANGED <<req, issued>> /\ RequestOK(c) /\ req[c] \in Request
  BY CommitFacts
<1>2. /\ pc \in [Callers -> Steps] /\ reply \in [Callers -> Replies]
      /\ CallView[c].phase = Phase(c) /\ CallView[c].req = req[c]
  BY StepFacts
<1>3. EffectOK(c)
  BY <1>1 DEF IInv, LockInv, EInv, InTx
<1>4. pc'[c] = "reply" /\ reply'[c] = "ok" /\ req[c].op # "get" /\ Valid(req[c])
  BY <1>2, <1>3 DEF Commit, Reply, Goto, EffectOK
<1>5. Phase(c) = "invoked" /\ Phase(c)' = "performed"
  BY <1>1, <1>4 DEF Phase
<1>6. Service!Answer(c, "ok")
  BY <1>1, <1>4, <1>5, AnswerStep
<1> QED BY <1>1, <1>2, <1>4, <1>5, <1>6

(* An id whose rows are the same is seen the same.                         *)
LEMMA SameView ==
  ASSUME NEW d \in Database, UniqueIn(d), NEW e \in Database, UniqueIn(e), NEW i \in Ids,
         \A k \in Pks : d.memories[k].id = i \/ e.memories[k].id = i => e.memories[k] = d.memories[k]
  PROVE  View(e)[i] = View(d)[i]
<1>1. PkOf(e, i) = PkOf(d, i) /\ \A k \in PkOf(d, i) : e.memories[k] = d.memories[k]
  BY DEF PkOf, Used
<1>2. CASE PkOf(d, i) = {}
  BY <1>1, <1>2, ViewOf DEF Present
<1>3. ASSUME NEW k \in PkOf(d, i) PROVE View(e)[i] = View(d)[i]
  BY <1>1, <1>3, ViewOf
<1> QED BY <1>2, <1>3

LEMMA FreshView ==
  ASSUME NEW i \in Ids, NEW keywords
  PROVE  RowView(NewMemory(i, keywords)) = Service!Fresh(keywords)
<1>1. /\ NewMemory(i, keywords).keywords = keywords /\ NewMemory(i, keywords).superseded_by = NoId
      /\ NewMemory(i, keywords).votes_up = 0 /\ NewMemory(i, keywords).votes_down = 0
      /\ NewMemory(i, keywords).access_count = 0
  BY DEF NewMemory, NoRow
<1> QED BY <1>1 DEF RowView, Service!Fresh

LEMMA StoreStep ==
  ASSUME IInv, IInv', EInv, NEW c \in Callers, Step(c), Commit(c), req[c].op = "store"
  PROVE  Service!PerformStore(c)
<1>1. /\ db \in Database /\ db' \in Database /\ UniqueIn(db) /\ UniqueIn(db')
      /\ CallView[c].phase = "invoked" /\ CallView[c].req = req[c]
      /\ Service!Answer(c, "ok") /\ UNCHANGED issued
      /\ req[c] \in Request /\ RequestOK(c) /\ req[c].keywords # {}
  BY CommitAnswers DEF Valid
<1>2. PICK j \in Pks \ Used(db) :
        /\ db'.memories[j] = NewMemory(req[c].id, req[c].keywords)
        /\ req[c].target = NoId =>
              \A k \in Pks \ {j} : db'.memories[k] = db.memories[k]
        /\ req[c].target # NoId =>
              \E t \in Live(c) :
                /\ db'.memories[t] = [db.memories[t] EXCEPT !.superseded_by = req[c].id]
                /\ \A k \in Pks \ {j, t} : db'.memories[k] = db.memories[k]
  BY StoreCommit
<1>3. req[c].id \in Ids /\ req[c].target # req[c].id
  BY <1>1 DEF RequestOK
<1>4. db.memories[j].id = NoId /\ db'.memories[j].id = req[c].id /\ j \in PkOf(db', req[c].id)
  <2>1. db.memories[j].id = NoId
    BY <1>2 DEF Used, NoRow
  <2>2. db'.memories[j].id = req[c].id
    BY <1>2 DEF NewMemory, NoRow
  <2> QED BY <1>1, <1>3, <2>1, <2>2, UsedById DEF PkOf
<1>5. View(db')[req[c].id] = Service!Fresh(req[c].keywords)
  BY <1>1, <1>2, <1>3, <1>4, ViewOf, FreshView
<1> DEFINE After(i) == IF i = req[c].id THEN Service!Fresh(req[c].keywords)
                       ELSE IF i = req[c].target THEN [View(db)[i] EXCEPT !.superseded_by = req[c].id]
                       ELSE View(db)[i]
<1>6. CASE req[c].target = NoId
  <2>1. ASSUME NEW i \in Ids PROVE View(db')[i] = After(i)
    <3>1. CASE i = req[c].id
      BY <1>5, <3>1
    <3>2. CASE i # req[c].id
      <4>1. View(db')[i] = View(db)[i]
        BY <1>1, <1>2, <1>4, <1>6, <3>2, SameView
      <4> QED BY <1>6, <3>2, <4>1
    <3> QED BY <3>1, <3>2
  <2>2. View(db') = [i \in Ids |-> After(i)]
    BY <2>1, ViewIsFunction
  <2> QED BY <1>1, <1>6, <2>2, ViewPrimed DEF Service!PerformStore
<1>7. CASE req[c].target # NoId
  <2>1. PICK t \in Live(c) :
          /\ db'.memories[t] = [db.memories[t] EXCEPT !.superseded_by = req[c].id]
          /\ \A k \in Pks \ {j, t} : db'.memories[k] = db.memories[k]
    BY <1>2, <1>7
  <2>2. /\ t \in PkOf(db, req[c].target) /\ t \in Pks /\ db.memories[t] \in Row
        /\ db.memories[t].id = req[c].target /\ db.memories[t].superseded_by = NoId
        /\ req[c].target \in Ids /\ t # j
    BY <1>1, <1>4, UsedRow DEF Live, PkOf
  <2>3. db'.memories[t].id = req[c].target /\ t \in PkOf(db', req[c].target)
    <3>1. db'.memories[t].id = req[c].target
      BY <2>1, <2>2 DEF Row
    <3> QED BY <1>1, <2>2, <3>1, UsedById DEF PkOf
  <2>4. View(db)[req[c].target] = RowView(db.memories[t])
    BY <1>1, <2>2, ViewOf
  <2>5. View(db')[req[c].target] = [View(db)[req[c].target] EXCEPT !.superseded_by = req[c].id]
    <3>1. View(db')[req[c].target] = RowView(db'.memories[t])
      BY <1>1, <2>2, <2>3, ViewOf
    <3>2. \A x : RowView([db.memories[t] EXCEPT !.superseded_by = x]) =
                 [RowView(db.memories[t]) EXCEPT !.superseded_by = x]
      BY <2>2, ViewColumn
    <3> QED BY <2>1, <2>4, <3>1, <3>2
  <2>6. View(db)[req[c].target].present /\ View(db)[req[c].target].superseded_by = NoId
    BY <2>2, <2>4 DEF RowView
  <2>7. ASSUME NEW i \in Ids PROVE View(db')[i] = After(i)
    <3>1. CASE i = req[c].id
      BY <1>5, <3>1
    <3>2. CASE i = req[c].target
      BY <1>3, <2>5, <3>2
    <3>3. CASE i # req[c].id /\ i # req[c].target
      <4>1. ASSUME NEW k \in Pks, db.memories[k].id = i \/ db'.memories[k].id = i
            PROVE  db'.memories[k] = db.memories[k]
        <5>1. k # j /\ k # t
          BY <1>4, <2>2, <2>3, <3>3, <4>1
        <5> QED BY <2>1, <5>1
      <4>2. View(db')[i] = View(db)[i]
        BY <1>1, <4>1, SameView
      <4> QED BY <3>3, <4>2
    <3> QED BY <3>1, <3>2, <3>3
  <2>8. View(db') = [i \in Ids |-> After(i)]
    BY <2>7, ViewIsFunction
  <2> QED BY <1>1, <2>6, <2>8, ViewPrimed DEF Service!PerformStore
<1> QED BY <1>6, <1>7

LEMMA RateStep ==
  ASSUME IInv, IInv', EInv, NEW c \in Callers, Step(c), Commit(c), req[c].op = "rate"
  PROVE  Service!PerformRate(c)
<1>1. /\ db \in Database /\ db' \in Database /\ UniqueIn(db) /\ UniqueIn(db')
      /\ CallView[c].phase = "invoked" /\ CallView[c].req = req[c]
      /\ Service!Answer(c, "ok") /\ UNCHANGED issued
      /\ req[c] \in Request
  BY CommitAnswers
<1>2. PICK t \in Live(c) :
        /\ db'.memories[t] = Rated(db.memories[t], req[c].up)
        /\ \A k \in Pks \ {t} : db'.memories[k] = db.memories[k]
  BY RateCommit
<1>3. /\ t \in PkOf(db, req[c].target) /\ t \in Pks /\ db.memories[t] \in Row
      /\ db.memories[t].id = req[c].target /\ db.memories[t].superseded_by = NoId
      /\ req[c].target \in Ids
  BY <1>1, UsedRow DEF Live, PkOf
<1>4. db'.memories[t].id = req[c].target /\ t \in PkOf(db', req[c].target)
  <2>1. db'.memories[t].id = req[c].target
    BY <1>2, <1>3 DEF Rated, Row
  <2> QED BY <1>1, <1>3, <2>1, UsedById DEF PkOf
<1>5. View(db)[req[c].target] = RowView(db.memories[t])
  BY <1>1, <1>3, ViewOf
<1>6. View(db)[req[c].target].present /\ View(db)[req[c].target].superseded_by = NoId
  BY <1>3, <1>5 DEF RowView
<1>7. \A i \in Ids \ {req[c].target} : View(db')[i] = View(db)[i]
  BY <1>1, <1>2, <1>3, <1>4, SameView
<1>8. View(db')[req[c].target] = RowView(Rated(db.memories[t], req[c].up))
  BY <1>1, <1>2, <1>3, <1>4, ViewOf
<1>9. View(db) = [i \in Ids |-> View(db)[i]] /\ View(db') = [i \in Ids |-> View(db')[i]]
  BY ViewIsFunction
<1>10. /\ View(db)[req[c].target].votes_up = db.memories[t].votes_up
       /\ View(db)[req[c].target].votes_down = db.memories[t].votes_down
  BY <1>5 DEF RowView
<1>11. CASE req[c].up
  <2>1. View(db')[req[c].target] = [View(db)[req[c].target] EXCEPT !.votes_up = @ + 1]
    <3>1. \A n : RowView([db.memories[t] EXCEPT !.votes_up = n]) =
                 [RowView(db.memories[t]) EXCEPT !.votes_up = n]
      BY <1>3, ViewColumn
    <3>2. Rated(db.memories[t], req[c].up) = [db.memories[t] EXCEPT !.votes_up = db.memories[t].votes_up + 1]
      BY <1>11 DEF Rated
    <3> QED BY <1>5, <1>8, <1>10, <3>1, <3>2
  <2>2. View(db') = [View(db) EXCEPT ![req[c].target] = [View(db)[req[c].target] EXCEPT !.votes_up = @ + 1]]
    BY <1>3, <1>7, <1>9, <2>1
  <2> QED BY <1>1, <1>6, <1>11, <2>2, ViewPrimed DEF Service!PerformRate
<1>12. CASE ~req[c].up
  <2>1. View(db')[req[c].target] = [View(db)[req[c].target] EXCEPT !.votes_down = @ + 1]
    <3>1. \A n : RowView([db.memories[t] EXCEPT !.votes_down = n]) =
                 [RowView(db.memories[t]) EXCEPT !.votes_down = n]
      BY <1>3, ViewColumn
    <3>2. Rated(db.memories[t], req[c].up) = [db.memories[t] EXCEPT !.votes_down = db.memories[t].votes_down + 1]
      BY <1>12 DEF Rated
    <3> QED BY <1>5, <1>8, <1>10, <3>1, <3>2
  <2>2. View(db') = [View(db) EXCEPT ![req[c].target] = [View(db)[req[c].target] EXCEPT !.votes_down = @ + 1]]
    BY <1>3, <1>7, <1>9, <2>1
  <2> QED BY <1>1, <1>6, <1>12, <2>2, ViewPrimed DEF Service!PerformRate
<1> QED BY <1>11, <1>12

LEMMA DeleteStep ==
  ASSUME IInv, IInv', EInv, NEW c \in Callers, Step(c), Commit(c), req[c].op = "delete"
  PROVE  Service!PerformDelete(c)
<1>1. /\ db \in Database /\ db' \in Database /\ UniqueIn(db) /\ UniqueIn(db')
      /\ CallView[c].phase = "invoked" /\ CallView[c].req = req[c]
      /\ Service!Answer(c, "ok") /\ UNCHANGED issued
  BY CommitAnswers
<1>2. PICK t \in PkOf(db, req[c].target) :
        /\ db'.memories[t] = NoRow
        /\ \A k \in Pks \ {t} : db'.memories[k] = db.memories[k]
  BY DeleteCommit
<1>3. /\ t \in Pks /\ t \in Used(db) /\ db.memories[t].id = req[c].target /\ req[c].target \in Ids
      /\ db'.memories[t].id = NoId /\ Present(db, req[c].target)
  BY <1>1, <1>2, UsedRow, NoRowIsNoRow DEF PkOf, Present
<1>4. ~Present(db', req[c].target)
  BY <1>1, <1>2, <1>3, UsedRow DEF Present, PkOf, UniqueIn, Used
<1>5. View(db)[req[c].target].present /\ View(db')[req[c].target] = NoView
  BY <1>1, <1>3, <1>4, ViewOf
<1>6. \A i \in Ids \ {req[c].target} : View(db')[i] = View(db)[i]
  BY <1>1, <1>2, <1>3, SameView
<1>7. View(db) = [i \in Ids |-> View(db)[i]] /\ View(db') = [i \in Ids |-> View(db')[i]]
  BY ViewIsFunction
<1>8. View(db') = [View(db) EXCEPT ![req[c].target] = NoView]
  BY <1>3, <1>5, <1>6, <1>7
<1>9. NoView = Service!Absent
  BY DEF NoView, Service!Absent
<1> QED BY <1>1, <1>5, <1>8, <1>9, ViewPrimed DEF Service!PerformDelete

(* The statements before the COMMIT change nothing a caller can see.       *)
LEMMA HiddenStep ==
  ASSUME IInv, EInv, NEW c \in Callers, Step(c),
         \/ Begin(c) \/ LoadForUpdate(c) \/ LoadForDelete(c) \/ SaveInsert(c) \/ SaveUpdate(c)
         \/ SaveKeywords(c) \/ RemoveKeywords(c) \/ RemoveMemory(c)
  PROVE  UNCHANGED <<View(db), issued, CallView>>
<1>1. pc \in [Callers -> Steps]
  BY StepFacts
<1>2. /\ pc[c] \notin {"idle", "bump", "reply"} /\ pc'[c] \notin {"idle", "bump", "reply"}
      /\ UNCHANGED <<db, req, reply, issued>>
  BY <1>1 DEF Begin, LoadForUpdate, LoadForDelete, SaveInsert, SaveUpdate, SaveKeywords,
              RemoveKeywords, RemoveMemory, Goto
<1>3. Phase(c)' = Phase(c)
  BY <1>2 DEF Phase
<1>4. CallView' = [CallView EXCEPT ![c] = [phase |-> Phase(c), req |-> req[c], reply |-> reply[c]]]
  <2>1. CallView' = [CallView EXCEPT ![c] = [phase |-> Phase(c)', req |-> req'[c], reply |-> reply'[c]]]
    BY CallStep
  <2> QED BY <1>2, <1>3, <2>1
<1>5. CallView' = CallView
  BY <1>4 DEF CallView
<1> QED BY <1>2, <1>5, ViewPrimed

-----------------------------------------------------------------------------
LEMMA ServiceInit == Init => Service!Init
<1> SUFFICES ASSUME Init PROVE Service!Init
  OBVIOUS
<1>1. NoView = Service!Absent
  BY DEF NoView, Service!Absent
<1>2. \A i \in Ids : ~Present(db, i)
  BY EmptyDbOK DEF Init, Present, PkOf
<1>3. View(db) = [i \in Ids |-> Service!Absent]
  BY <1>1, <1>2 DEF View
<1>4. \A c \in Callers : Phase(c) = "idle" /\ req[c] = NoRequest /\ reply[c] = "none"
  BY DEF Init, Phase
<1>5. CallView = [c \in Callers |-> Service!Idle]
  BY <1>4 DEF CallView, Service!Idle, Service!NoRequest, NoRequest
<1> QED BY <1>3, <1>5 DEF Init, Service!Init

LEMMA ServiceNext == IInv /\ IInv' /\ EInv /\ [Next]_vars => [Service!Next]_(Service!vars)
<1> SUFFICES ASSUME IInv, IInv', EInv, [Next]_vars PROVE Service!Next \/ UNCHANGED <<View(db), issued, CallView>>
  BY DEF Service!vars
<1>1. ASSUME NEW c \in Callers, Call(c) PROVE Service!Next
  BY <1>1, InvokeStep DEF Service!Next
<1>2. ASSUME NEW c \in Callers, Return(c) \/ Crash(c) PROVE Service!Next
  BY <1>2, FinishStep DEF Service!Next
<1>3. ASSUME NEW c \in Callers, Step(c), Commit(c) PROVE Service!Next
  <2>1. req[c].op \in {"store", "rate", "delete"}
    BY <1>3, CommitFacts DEF Done, Request, Ops
  <2> QED BY <1>3, <2>1, StoreStep, RateStep, DeleteStep DEF Service!Next
<1>4. ASSUME NEW c \in Callers, Step(c), ReadRow(c) PROVE Service!Next
  BY <1>4, GetStep, RefuseStep DEF Service!Next
<1>5. ASSUME NEW c \in Callers, Step(c), BumpAccess(c) \/ BumpLost(c) PROVE Service!Next
  BY <1>5, CountStep DEF Service!Next
<1>6. ASSUME NEW c \in Callers, Step(c),
             \/ RejectInvalid(c) \/ Busy(c) \/ LoadMissing(c) \/ LoadSuperseded(c)
             \/ StatementFails(c) \/ ReadFails(c)
      PROVE  Service!Next
  BY <1>6, RefuseStep DEF Service!Next
<1>7. ASSUME NEW c \in Callers, Step(c),
             \/ Begin(c) \/ LoadForUpdate(c) \/ LoadForDelete(c) \/ SaveInsert(c) \/ SaveUpdate(c)
             \/ SaveKeywords(c) \/ RemoveKeywords(c) \/ RemoveMemory(c)
      PROVE  UNCHANGED <<View(db), issued, CallView>>
  BY <1>7, HiddenStep
<1>8. ASSUME NEW c \in Callers, Step(c)
      PROVE  Service!Next \/ UNCHANGED <<View(db), issued, CallView>>
  BY <1>2, <1>3, <1>4, <1>5, <1>6, <1>7, <1>8 DEF Step
<1>9. CASE UNCHANGED vars
  BY <1>9 DEF vars, View, CallView, Phase, Present, PkOf, Used
<1> QED BY <1>1, <1>2, <1>8, <1>9 DEF Next

(* The transactions implement the service: every call takes effect at one  *)
(* instant, whole and once, or never, and a refusal is true when decided.  *)
THEOREM Refinement == Spec => ImplementsService
BY EffectInductive, ServiceInit, ServiceNext, PTL DEF Spec, ImplementsService, Service!Spec
=============================================================================
