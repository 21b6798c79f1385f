---------------------------- MODULE FacesProofs ------------------------------
(***************************************************************************)
(* Proofs about Search and Faces, for any memories, searches, batches and  *)
(* recalls, and any limits: what the agent pages through, packs and counts *)
(* is what was there.                                                      *)
(***************************************************************************)
EXTENDS Faces, FiniteSetTheorems, SequenceTheorems, WellFoundedInduction, TLAPS

-----------------------------------------------------------------------------
(* Recursion over the numbers up to m.                                     *)

LEMMA Least ==
  ASSUME NEW T, T \subseteq Nat, T # {}
  PROVE  \E n \in T : \A m \in T : ~(m < n)
<1>1. \A m, n \in Nat : <<m, n>> \in OpToRel(<, Nat) <=> m < n
  BY DEF OpToRel
<1> QED
  BY <1>1, NatLessThanWellFounded, WFMin

LEMMA UpTo ==
  ASSUME NEW m \in Nat, NEW G, 0 \in G, \A n \in 1..m : n - 1 \in G => n \in G
  PROVE  0..m \subseteq G
<1> DEFINE T == (0..m) \ G
<1>1. CASE T # {}
  <2>1. PICK n \in T : \A k \in T : ~(k < n)
    <3>1. T \subseteq Nat
      OBVIOUS
    <3> HIDE DEF T
    <3> QED
      BY <1>1, <3>1, Least
  <2>2. n \in 1..m /\ n \notin G
    BY <2>1
  <2>3. n - 1 \in 0..m /\ n - 1 < n /\ n - 1 \notin T
    BY <2>1, <2>2
  <2> QED
    BY <2>2, <2>3
<1>2. CASE T = {}
  BY <1>2
<1> QED
  BY <1>1, <1>2

(* The step is a function, as the rules of the provers ask.                *)
Recursive(f, m, d, g) == f[0] = d /\ \A n \in 1..m : f[n] = g[n][f[n - 1]]

LEMMA Recursion ==
  ASSUME NEW D, NEW d \in D, NEW m \in Nat, NEW g, \A n \in 1..m : g[n] \in [D -> D]
  PROVE  \E f \in [0..m -> D] : Recursive(f, m, d, g)
<1> DEFINE G == {n \in 0..m : \E f \in [0..n -> D] : Recursive(f, n, d, g)}
<1>1. 0 \in G
  <2> DEFINE f == [i \in 0..0 |-> d]
  <2>1. f \in [0..0 -> D] /\ Recursive(f, 0, d, g)
    BY DEF Recursive
  <2> QED
    BY <2>1
<1>2. ASSUME NEW n \in 1..m, n - 1 \in G
      PROVE  n \in G
  <2>1. PICK f \in [0..n - 1 -> D] : Recursive(f, n - 1, d, g)
    BY <1>2
  <2> DEFINE e == g[n][f[n - 1]]
             h == [i \in 0..n |-> IF i = n THEN e ELSE f[i]]
  <2>2. n - 1 \in 0..n - 1 /\ n # 0 /\ 0 \in 0..n - 1 /\ \A i \in 1..n - 1 : i # n /\ i - 1 # n
    OBVIOUS
  <2>3. e \in D
    BY <2>2
  <2>4. h \in [0..n -> D]
    <3> HIDE DEF e
    <3> QED
      BY <2>3
  <2>5. h[n] = e /\ \A i \in 0..n - 1 : h[i] = f[i]
    BY <2>2
  <2>6. Recursive(h, n, d, g)
    <3> HIDE DEF h
    <3>1. h[0] = d
      BY <2>1, <2>2, <2>5 DEF Recursive
    <3>2. h[n] = g[n][h[n - 1]]
      BY <2>2, <2>5
    <3>3. ASSUME NEW i \in 1..n - 1
          PROVE  h[i] = g[i][h[i - 1]]
      <4>1. i \in 0..n - 1 /\ i - 1 \in 0..n - 1
        OBVIOUS
      <4> QED
        BY <2>1, <2>5, <4>1 DEF Recursive
    <3>4. \A i \in 1..n : i = n \/ i \in 1..n - 1
      OBVIOUS
    <3> QED
      BY <3>1, <3>2, <3>3, <3>4 DEF Recursive
  <2>7. n \in 0..m
    OBVIOUS
  <2> HIDE DEF h
  <2> QED
    BY <2>4, <2>6, <2>7
<1> HIDE DEF G
<1>3. m \in G
  <2>1. \A n \in 1..m : n - 1 \in G => n \in G
    BY <1>2
  <2>2. 0..m \subseteq G
    BY <1>1, <2>1, UpTo
  <2> QED
    BY <2>2
<1> QED
  BY <1>3 DEF G

-----------------------------------------------------------------------------
(* Packs.                                                                  *)

(* The recursive functions of the model, by their defining equations.      *)
Sized(f, ids) == f = [n \in 0..Len(ids) |-> IF n = 0 THEN Heading ELSE f[n - 1] + Size[ids[n]]]

LEMMA SizedExists ==
  ASSUME NEW ids \in Seq(Ids)
  PROVE  \E f \in [0..Len(ids) -> Nat] : Sized(f, ids)
<1> DEFINE m == Len(ids)
           g == [n \in 1..m |-> [k \in Nat |-> k + Size[ids[n]]]]
<1>1. m \in Nat /\ Heading \in Nat /\ \A n \in 1..m : Size[ids[n]] \in Nat
  BY SearchAssumption
<1>2. \A n \in 1..m : g[n] \in [Nat -> Nat] /\ \A k \in Nat : g[n][k] = k + Size[ids[n]]
  BY <1>1
<1> HIDE DEF g
<1>3. PICK f \in [0..m -> Nat] : Recursive(f, m, Heading, g)
  BY <1>1, <1>2, Recursion
<1>4. \A n \in 0..m : f[n] = IF n = 0 THEN Heading ELSE f[n - 1] + Size[ids[n]]
  <2>1. f[0] = Heading
    BY <1>3 DEF Recursive
  <2>2. \A n \in 1..m : f[n] = g[n][f[n - 1]] /\ f[n - 1] \in Nat
    <3>1. \A n \in 1..m : n - 1 \in 0..m
      BY <1>1
    <3>2. \A n \in 1..m : f[n] = g[n][f[n - 1]]
      BY <1>3 DEF Recursive
    <3> QED
      BY <1>3, <3>1, <3>2
  <2>3. \A n \in 0..m : n = 0 \/ n \in 1..m
    BY <1>1
  <2> QED
    BY <1>2, <2>1, <2>2, <2>3
<1> QED
  BY <1>3, <1>4 DEF Sized

LEMMA LengthIs ==
  ASSUME NEW ids \in Seq(Ids)
  PROVE  \E f : /\ Length(ids) = f[Len(ids)] /\ f[0] = Heading
                /\ \A n \in 1..Len(ids) : f[n] = f[n - 1] + Size[ids[n]]
<1> DEFINE f == CHOOSE f : Sized(f, ids)
<1>1. Sized(f, ids)
  BY SizedExists
<1>2. Length(ids) = f[Len(ids)]
  BY DEF Length, Sized
<1>3. f[0] = Heading /\ \A n \in 1..Len(ids) : f[n] = f[n - 1] + Size[ids[n]]
  <2>1. Len(ids) \in Nat
    OBVIOUS
  <2> HIDE DEF f
  <2>2. \A n \in 0..Len(ids) : f[n] = IF n = 0 THEN Heading ELSE f[n - 1] + Size[ids[n]]
    BY <1>1 DEF Sized
  <2> QED
    BY <2>1, <2>2
<1> QED
  BY <1>2, <1>3

(* One entry more.                                                         *)
LEMMA LengthAppend ==
  /\ Length(<<>>) = Heading
  /\ \A ids \in Seq(Ids), id \in Ids : Length(Append(ids, id)) = Length(ids) + Size[id]
<1>1. Length(<<>>) = Heading
  <2>1. <<>> \in Seq(Ids) /\ Len(<<>>) = 0
    OBVIOUS
  <2> QED
    BY <2>1, LengthIs
<1>2. ASSUME NEW ids \in Seq(Ids), NEW id \in Ids
      PROVE  Length(Append(ids, id)) = Length(ids) + Size[id]
  <2> DEFINE more == Append(ids, id)
             m == Len(ids)
  <2>1. /\ more \in Seq(Ids) /\ Len(more) = m + 1 /\ m \in Nat
        /\ more[m + 1] = id /\ \A n \in 1..m : more[n] = ids[n]
    OBVIOUS
  <2> HIDE DEF more
  <2>2. PICK f : /\ Length(ids) = f[m] /\ f[0] = Heading
                 /\ \A n \in 1..m : f[n] = f[n - 1] + Size[ids[n]]
    BY LengthIs
  <2>h. PICK h : /\ Length(more) = h[Len(more)] /\ h[0] = Heading
                 /\ \A n \in 1..Len(more) : h[n] = h[n - 1] + Size[more[n]]
    BY <2>1, LengthIs
  <2>3. /\ Length(more) = h[m + 1] /\ h[0] = Heading
        /\ \A n \in 1..m + 1 : h[n] = h[n - 1] + Size[more[n]]
    BY <2>1, <2>h
  <2> DEFINE G == {n \in 0..m : f[n] = h[n]}
  <2>4. 0 \in G
    BY <2>1, <2>2, <2>3
  <2>5. \A n \in 1..m : n - 1 \in G => n \in G
    <3> SUFFICES ASSUME NEW n \in 1..m, f[n - 1] = h[n - 1]
                 PROVE  f[n] = h[n] /\ n \in 0..m
      OBVIOUS
    <3>1. n \in 1..m + 1 /\ n \in 0..m
      BY <2>1
    <3> QED
      BY <2>1, <2>2, <2>3, <3>1
  <2>6. m \in G
    <3> HIDE DEF G
    <3>1. 0..m \subseteq G
      BY <2>1, <2>4, <2>5, UpTo
    <3> QED
      BY <2>1, <3>1
  <2>7. m + 1 \in 1..m + 1 /\ m + 1 - 1 = m
    BY <2>1
  <2>8. Length(more) = h[m] + Size[id]
    BY <2>1, <2>3, <2>7
  <2>9. f[m] = h[m]
    BY <2>6
  <2> QED
    BY <2>2, <2>8, <2>9 DEF more
<1> QED
  BY <1>1, <1>2

LEMMA LengthType == \A ids \in Seq(Ids) : Length(ids) \in Nat
<1> SUFFICES ASSUME NEW ids \in Seq(Ids)
             PROVE  Length(ids) \in Nat
  OBVIOUS
<1>1. PICK f : /\ Length(ids) = f[Len(ids)] /\ f[0] = Heading
               /\ \A n \in 1..Len(ids) : f[n] = f[n - 1] + Size[ids[n]]
  BY LengthIs
<1> DEFINE G == {n \in 0..Len(ids) : f[n] \in Nat}
<1>2. Len(ids) \in Nat /\ Heading \in Nat /\ \A n \in 1..Len(ids) : Size[ids[n]] \in Nat
  BY SearchAssumption
<1>3. 0 \in G
  BY <1>1, <1>2
<1>4. \A n \in 1..Len(ids) : n - 1 \in G => n \in G
  BY <1>1, <1>2
<1>5. Len(ids) \in G
  <2> HIDE DEF G
  <2>1. 0..Len(ids) \subseteq G
    BY <1>2, <1>3, <1>4, UpTo
  <2> QED
    BY <1>2, <2>1
<1> QED
  BY <1>1, <1>5

Pack == [size : Nat, entries : Seq(Ids), full : BOOLEAN]

LEMMA PackedIs ==
  ASSUME NEW p \in Pack, NEW r, r.id \in Ids, NEW budget \in Int
  PROVE  /\ Packed(p, r, budget) \in Pack
         /\ p.full => Packed(p, r, budget) = p
         /\ ~p.full /\ Overflows(p, r, budget) =>
              /\ Packed(p, r, budget).size = p.size
              /\ Packed(p, r, budget).entries = p.entries
              /\ Packed(p, r, budget).full
         /\ ~p.full /\ ~Overflows(p, r, budget) =>
              /\ Packed(p, r, budget).size = p.size + Size[r.id]
              /\ Packed(p, r, budget).entries = Append(p.entries, r.id)
              /\ Packed(p, r, budget).full <=> p.size + Size[r.id] >= budget
<1>1. Size[r.id] \in Nat /\ p.size \in Nat /\ p.entries \in Seq(Ids) /\ p.full \in BOOLEAN
  BY SearchAssumption DEF Pack
<1>2. CASE p.full
  BY <1>2 DEF Packed
<1>3. CASE ~p.full /\ Overflows(p, r, budget)
  <2>1. Packed(p, r, budget) = [p EXCEPT !.full = TRUE]
    BY <1>3 DEF Packed
  <2>2. [p EXCEPT !.full = TRUE] \in Pack
    BY DEF Pack
  <2>3. \A b \in BOOLEAN : LET q == [p EXCEPT !.full = b]
                           IN  q.size = p.size /\ q.entries = p.entries /\ q.full = b
    BY DEF Pack
  <2> QED
    BY <1>3, <2>1, <2>2, <2>3
<1>4. CASE ~p.full /\ ~Overflows(p, r, budget)
  <2> DEFINE b == p.size + Size[r.id] >= budget
  <2>1. Packed(p, r, budget) = [size |-> p.size + Size[r.id], entries |-> Append(p.entries, r.id),
                                full |-> b]
    BY <1>4 DEF Packed
  <2>2. b \in BOOLEAN /\ p.size + Size[r.id] \in Nat /\ Append(p.entries, r.id) \in Seq(Ids)
    BY <1>1
  <2>3. b <=> p.size + Size[r.id] >= budget
    OBVIOUS
  <2> HIDE DEF b
  <2>4. Packed(p, r, budget) \in Pack
    BY <2>1, <2>2 DEF Pack
  <2> QED
    BY <1>4, <2>1, <2>3, <2>4
<1> QED
  BY <1>1, <1>2, <1>3, <1>4

LEMMA Sizes == \A r \in Row : r.id \in Ids /\ Size[r.id] \in Nat \ {0} /\ Size[r.id] > 0
BY SearchAssumption DEF Row

LEMMA NoPack ==
  /\ EmptyPack \in Pack /\ EmptyPack.size = Heading /\ EmptyPack.entries = <<>> /\ ~EmptyPack.full
  /\ Len(EmptyPack.entries) = 0
BY SearchAssumption DEF EmptyPack, Pack

PackedBy(f, rs, budget) ==
  f = [n \in 0..Len(rs) |-> IF n = 0 THEN EmptyPack ELSE Packed(f[n - 1], rs[n], budget)]

LEMMA PackedExists ==
  ASSUME NEW rs \in Seq(Row), NEW budget \in Int
  PROVE  \E f \in [0..Len(rs) -> Pack] : PackedBy(f, rs, budget)
<1> DEFINE m == Len(rs)
           g == [n \in 1..m |-> [p \in Pack |-> Packed(p, rs[n], budget)]]
<1>1. m \in Nat /\ EmptyPack \in Pack /\ \A n \in 1..m : rs[n].id \in Ids
  BY Sizes, NoPack
<1>2. \A n \in 1..m : g[n] \in [Pack -> Pack] /\ \A p \in Pack : g[n][p] = Packed(p, rs[n], budget)
  BY <1>1, PackedIs
<1> HIDE DEF g
<1>3. PICK f \in [0..m -> Pack] : Recursive(f, m, EmptyPack, g)
  BY <1>1, <1>2, Recursion
<1>4. \A n \in 0..m : f[n] = IF n = 0 THEN EmptyPack ELSE Packed(f[n - 1], rs[n], budget)
  <2>1. f[0] = EmptyPack
    BY <1>3 DEF Recursive
  <2>2. \A n \in 1..m : f[n] = g[n][f[n - 1]] /\ f[n - 1] \in Pack
    <3>1. \A n \in 1..m : n - 1 \in 0..m
      BY <1>1
    <3>2. \A n \in 1..m : f[n] = g[n][f[n - 1]]
      BY <1>3 DEF Recursive
    <3> QED
      BY <1>3, <3>1, <3>2
  <2>3. \A n \in 0..m : n = 0 \/ n \in 1..m
    BY <1>1
  <2> QED
    BY <1>2, <2>1, <2>2, <2>3
<1> QED
  BY <1>3, <1>4 DEF PackedBy

LEMMA AssembledIs ==
  ASSUME NEW rs \in Seq(Row), NEW budget \in Int
  PROVE  \E f : /\ Assembled(rs, budget) = f[Len(rs)].entries /\ f[0] = EmptyPack
                /\ \A n \in 1..Len(rs) : f[n] = Packed(f[n - 1], rs[n], budget)
<1> DEFINE f == CHOOSE f : PackedBy(f, rs, budget)
<1>1. PackedBy(f, rs, budget)
  BY PackedExists
<1>2. Assembled(rs, budget) = f[Len(rs)].entries
  BY DEF Assembled, PackedBy
<1>3. f[0] = EmptyPack /\ \A n \in 1..Len(rs) : f[n] = Packed(f[n - 1], rs[n], budget)
  <2>1. Len(rs) \in Nat
    OBVIOUS
  <2> HIDE DEF f
  <2>2. \A n \in 0..Len(rs) : f[n] = IF n = 0 THEN EmptyPack ELSE Packed(f[n - 1], rs[n], budget)
    BY <1>1 DEF PackedBy
  <2> QED
    BY <2>1, <2>2
<1> QED
  BY <1>2, <1>3

(* What a pack is after n of the candidates: the first of them, all of them*)
(* unless it is full, and full only if the next does not fit.              *)
PackOK(p, n, rs, budget) ==
  /\ p \in Pack /\ p.size = Length(p.entries)
  /\ Len(p.entries) <= n /\ \A i \in 1..Len(p.entries) : p.entries[i] = rs[i].id
  /\ n > 0 \/ p.full => Len(p.entries) > 0
  /\ Len(p.entries) > 1 => p.size <= budget
  /\ ~p.full => Len(p.entries) = n
  /\ p.full /\ Len(p.entries) < Len(rs) => p.size + Size[rs[Len(p.entries) + 1].id] > budget

LEMMA PackStep ==
  ASSUME NEW rs \in Seq(Row), NEW budget \in Int, NEW n \in 1..Len(rs), NEW p,
         PackOK(p, n - 1, rs, budget)
  PROVE  PackOK(Packed(p, rs[n], budget), n, rs, budget)
<1> DEFINE q == Packed(p, rs[n], budget)
           k == Len(p.entries)
<1>1. /\ \A i \in 1..Len(rs) : rs[i].id \in Ids /\ Size[rs[i].id] \in Nat /\ Size[rs[i].id] > 0
      /\ Len(rs) \in Nat /\ n \in Nat
  BY Sizes
<1>2. p \in Pack /\ k \in Nat /\ p.size \in Nat /\ p.entries \in Seq(Ids)
  BY DEF PackOK, Pack
<1>3. q \in Pack
  BY <1>1, <1>2, PackedIs
<1>4. CASE p.full
  <2>1. q = p
    BY <1>1, <1>2, <1>4, PackedIs
  <2> QED
    BY <1>1, <1>2, <1>4, <2>1 DEF PackOK
<1>5. ~p.full => k = n - 1
  BY DEF PackOK
<1>6. CASE ~p.full /\ Overflows(p, rs[n], budget)
  <2>1. q.size = p.size /\ q.entries = p.entries /\ q.full
    BY <1>1, <1>2, <1>6, PackedIs
  <2>2. p.size + Size[rs[n].id] > budget /\ p.entries # <<>>
    BY <1>6 DEF Overflows
  <2>3. k > 0 /\ k + 1 = n
    BY <1>1, <1>2, <1>5, <1>6, <2>2
  <2>4. /\ p.size = Length(p.entries) /\ \A i \in 1..k : p.entries[i] = rs[i].id
        /\ k > 1 => p.size <= budget
    BY DEF PackOK
  <2>5. Len(q.entries) = k
    BY <2>1
  <2>6. rs[k + 1] = rs[n]
    BY <2>3
  <2> HIDE DEF q, k
  <2>7. /\ q \in Pack /\ q.size = Length(q.entries)
        /\ Len(q.entries) <= n /\ \A i \in 1..Len(q.entries) : q.entries[i] = rs[i].id
    BY <1>1, <1>2, <1>3, <2>1, <2>3, <2>4, <2>5
  <2>8. /\ n > 0 \/ q.full => Len(q.entries) > 0
        /\ Len(q.entries) > 1 => q.size <= budget
    BY <1>1, <1>2, <2>1, <2>3, <2>4, <2>5
  <2>9. /\ ~q.full => Len(q.entries) = n
        /\ q.full /\ Len(q.entries) < Len(rs) => q.size + Size[rs[Len(q.entries) + 1].id] > budget
    BY <2>1, <2>2, <2>5, <2>6
  <2> QED
    BY <2>7, <2>8, <2>9 DEF PackOK, q
<1>7. CASE ~p.full /\ ~Overflows(p, rs[n], budget)
  <2>1. /\ q.size = p.size + Size[rs[n].id] /\ q.entries = Append(p.entries, rs[n].id)
        /\ q.full <=> p.size + Size[rs[n].id] >= budget
    BY <1>1, <1>2, <1>7, PackedIs
  <2>2. p.size + Size[rs[n].id] <= budget \/ p.entries = <<>>
    BY <1>1, <1>2, <1>7 DEF Overflows
  <2>3. /\ Len(q.entries) = n /\ q.entries[n] = rs[n].id
        /\ \A i \in 1..n - 1 : q.entries[i] = p.entries[i]
    BY <1>1, <1>2, <1>5, <1>7, <2>1
  <2>4. q.size = Length(q.entries)
    BY <1>1, <1>2, <2>1, LengthAppend DEF PackOK
  <2> HIDE DEF q
  <2>5. \A i \in 1..n : q.entries[i] = rs[i].id
    BY <1>1, <1>5, <1>7, <2>3 DEF PackOK
  <2>6. n > 1 => q.size <= budget
    BY <1>1, <1>2, <1>5, <1>7, <2>1, <2>2
  <2>7. q.full /\ n < Len(rs) => q.size + Size[rs[n + 1].id] > budget
    <3>1. n < Len(rs) => n + 1 \in 1..Len(rs)
      BY <1>1
    <3> QED
      BY <1>1, <1>2, <2>1, <3>1
  <2>8. Len(q.entries) = n
    BY <2>3
  <2>9. /\ q \in Pack /\ q.size = Length(q.entries)
        /\ Len(q.entries) <= n /\ \A i \in 1..Len(q.entries) : q.entries[i] = rs[i].id
    BY <1>1, <1>3, <2>4, <2>5, <2>8
  <2>10. /\ n > 0 \/ q.full => Len(q.entries) > 0
         /\ Len(q.entries) > 1 => q.size <= budget
    BY <1>1, <2>6, <2>8
  <2>11. /\ ~q.full => Len(q.entries) = n
         /\ q.full /\ Len(q.entries) < Len(rs) => q.size + Size[rs[Len(q.entries) + 1].id] > budget
    BY <2>7, <2>8
  <2> QED
    BY <2>9, <2>10, <2>11 DEF PackOK, q
<1> QED
  BY <1>4, <1>6, <1>7

(* A pack is the first candidates, as many as fit and at least one.        *)
LEMMA AssembledFits ==
  ASSUME NEW rs \in Seq(Row), NEW budget \in Int
  PROVE  LET entries == Assembled(rs, budget)
             n       == Len(entries)
         IN  /\ entries \in Seq(Ids) /\ n <= Len(rs)
             /\ \A i \in 1..n : entries[i] = rs[i].id
             /\ rs # <<>> => n > 0
             /\ n > 1 => Length(entries) <= budget
             /\ n < Len(rs) => Length(Append(entries, rs[n + 1].id)) > budget
<1>1. PICK f : /\ Assembled(rs, budget) = f[Len(rs)].entries /\ f[0] = EmptyPack
               /\ \A n \in 1..Len(rs) : f[n] = Packed(f[n - 1], rs[n], budget)
  BY AssembledIs
<1> DEFINE G == {n \in 0..Len(rs) : PackOK(f[n], n, rs, budget)}
<1>2. Len(rs) \in Nat /\ (rs # <<>> => Len(rs) > 0)
  OBVIOUS
<1>3. PackOK(f[0], 0, rs, budget)
  BY <1>1, NoPack, LengthAppend DEF PackOK
<1>4. \A n \in 1..Len(rs) : PackOK(f[n - 1], n - 1, rs, budget) => PackOK(f[n], n, rs, budget)
  BY <1>1, PackStep
<1>5. 0 \in G /\ \A n \in 1..Len(rs) : n - 1 \in G => n \in G
  BY <1>2, <1>3, <1>4
<1>6. PackOK(f[Len(rs)], Len(rs), rs, budget)
  <2> HIDE DEF G
  <2>1. 0..Len(rs) \subseteq G
    BY <1>2, <1>5, UpTo
  <2> QED
    BY <1>2, <2>1 DEF G
<1> DEFINE p == f[Len(rs)]
           n == Len(p.entries)
<1>7. p \in Pack /\ p.entries \in Seq(Ids) /\ n \in Nat
  BY <1>6 DEF PackOK, Pack
<1> HIDE DEF p
<1>8. n < Len(rs) => Length(Append(p.entries, rs[n + 1].id)) > budget
  <2>1. n < Len(rs) => rs[n + 1].id \in Ids
    <3>1. n < Len(rs) => n + 1 \in 1..Len(rs)
      BY <1>2, <1>7
    <3> QED
      BY <3>1, Sizes
  <2>2. n < Len(rs) => p.full
    BY <1>2, <1>6 DEF PackOK, p
  <2> QED
    BY <1>6, <1>7, <2>1, <2>2, LengthAppend DEF PackOK, p
<1>9. p.entries = Assembled(rs, budget)
  BY <1>1 DEF p
<1> QED
  BY <1>2, <1>6, <1>7, <1>8, <1>9 DEF PackOK, p

-----------------------------------------------------------------------------
(* The candidates that are still there.                                    *)
SurvivedBy(f, rs, ids) ==
  f = [n \in 0..Len(rs) |-> IF n = 0 THEN <<>>
                            ELSE IF rs[n].id \in ids THEN Append(f[n - 1], rs[n]) ELSE f[n - 1]]

LEMMA SurvivingExists ==
  ASSUME NEW rs \in Seq(Row), NEW ids
  PROVE  \E f \in [0..Len(rs) -> Seq(Row)] : SurvivedBy(f, rs, ids)
<1> DEFINE m == Len(rs)
           Keep(s, n) == IF rs[n].id \in ids THEN Append(s, rs[n]) ELSE s
           g == [n \in 1..m |-> [s \in Seq(Row) |-> Keep(s, n)]]
<1>1. m \in Nat /\ <<>> \in Seq(Row) /\ \A n \in 1..m : rs[n] \in Row
  OBVIOUS
<1>2. \A n \in 1..m : g[n] \in [Seq(Row) -> Seq(Row)] /\ \A s \in Seq(Row) : g[n][s] = Keep(s, n)
  <2>1. \A n \in 1..m, s \in Seq(Row) : Keep(s, n) \in Seq(Row)
    BY <1>1
  <2> HIDE DEF Keep
  <2> QED
    BY <2>1
<1> HIDE DEF g
<1>3. PICK f \in [0..m -> Seq(Row)] : Recursive(f, m, <<>>, g)
  <2> DEFINE empty == <<>>
  <2>1. empty \in Seq(Row) /\ \A n \in 1..m : g[n] \in [Seq(Row) -> Seq(Row)]
    BY <1>1, <1>2
  <2> HIDE DEF empty
  <2>2. \E f \in [0..m -> Seq(Row)] : Recursive(f, m, empty, g)
    BY <1>1, <2>1, Recursion
  <2> QED
    BY <2>2 DEF empty
<1>4. \A n \in 0..m : f[n] = IF n = 0 THEN <<>> ELSE Keep(f[n - 1], n)
  <2>1. f[0] = <<>>
    BY <1>3 DEF Recursive
  <2>2. \A n \in 1..m : f[n] = g[n][f[n - 1]] /\ f[n - 1] \in Seq(Row)
    <3>1. \A n \in 1..m : n - 1 \in 0..m
      BY <1>1
    <3>2. \A n \in 1..m : f[n] = g[n][f[n - 1]]
      BY <1>3 DEF Recursive
    <3> QED
      BY <1>3, <3>1, <3>2
  <2>3. \A n \in 0..m : n = 0 \/ n \in 1..m
    BY <1>1
  <2> HIDE DEF Keep
  <2> QED
    BY <1>2, <2>1, <2>2, <2>3
<1> QED
  BY <1>3, <1>4 DEF SurvivedBy

LEMMA SurvivingType == \A rs \in Seq(Row) : \A ids : Surviving(rs, ids) \in Seq(Row)
<1> SUFFICES ASSUME NEW rs \in Seq(Row), NEW ids
             PROVE  Surviving(rs, ids) \in Seq(Row)
  OBVIOUS
<1> DEFINE f == CHOOSE f : SurvivedBy(f, rs, ids)
<1>1. PICK h \in [0..Len(rs) -> Seq(Row)] : SurvivedBy(h, rs, ids)
  BY SurvivingExists
<1>2. SurvivedBy(f, rs, ids)
  BY <1>1
<1>3. Surviving(rs, ids) = f[Len(rs)]
  BY DEF Surviving, SurvivedBy
<1>4. Len(rs) \in Nat /\ \A n \in 1..Len(rs) : rs[n] \in Row
  OBVIOUS
<1> HIDE DEF f
<1>5. \A n \in 0..Len(rs) :
        f[n] = IF n = 0 THEN <<>> ELSE IF rs[n].id \in ids THEN Append(f[n - 1], rs[n]) ELSE f[n - 1]
  BY <1>2 DEF SurvivedBy
<1> DEFINE G == {n \in 0..Len(rs) : f[n] \in Seq(Row)}
<1>6. 0 \in G
  <2>1. 0 \in 0..Len(rs) /\ <<>> \in Seq(Row)
    BY <1>4
  <2>2. f[0] = <<>>
    BY <1>5, <2>1
  <2> QED
    BY <2>1, <2>2
<1>7. ASSUME NEW n \in 1..Len(rs), f[n - 1] \in Seq(Row)
      PROVE  f[n] \in Seq(Row) /\ n \in 0..Len(rs)
  <2>1. n \in 0..Len(rs) /\ n # 0 /\ rs[n] \in Row
    BY <1>4
  <2>2. Append(f[n - 1], rs[n]) \in Seq(Row)
    BY <1>7, <2>1
  <2> QED
    BY <1>5, <1>7, <2>1, <2>2
<1>8. \A n \in 1..Len(rs) : n - 1 \in G => n \in G
  BY <1>7
<1> HIDE DEF G
<1>9. 0..Len(rs) \subseteq G
  BY <1>4, <1>6, <1>8, UpTo
<1> QED
  BY <1>3, <1>4, <1>9 DEF G

-----------------------------------------------------------------------------
(* Limits, budgets and int32s.                                             *)

LEMMA Remainder ==
  ASSUME NEW x \in Int, NEW y \in Nat, y > 0
  PROVE  x % y \in 0..y - 1 /\ (x \in 0..y - 1 => x % y = x)
OBVIOUS

LEMMA Int32Is ==
  ASSUME NEW x \in Int
  PROVE  /\ Int32(x) \in Int /\ -Half <= Int32(x) /\ Int32(x) < Half
         /\ -Half <= x /\ x < Half => Int32(x) = x
<1> DEFINE y == 2 * Half
           z == x + Half
<1>1. y \in Nat /\ y > 0 /\ z \in Int /\ Half \in Nat /\ y = Half + Half
  BY SearchAssumption
<1>2. Int32(x) = (z % y) - Half
  BY DEF Int32
<1>3. z % y \in 0..y - 1 /\ (z \in 0..y - 1 => z % y = z)
  <2> HIDE DEF y, z
  <2> QED
    BY <1>1, Remainder
<1>4. z = x + Half
  OBVIOUS
<1> HIDE DEF y, z
<1> QED
  BY <1>1, <1>2, <1>3, <1>4

LEMMA LimitIs == \A limit \in Int : Limited(limit) \in Nat /\ Limited(limit) >= 1
BY SearchAssumption DEF Limited, AtMost

(* A budget that is asked for is not exceeded, whatever int32 makes of it. *)
LEMMA BudgetIs ==
  ASSUME NEW asked \in Int
  PROVE  /\ Budget(asked) \in Int /\ Budget(Int32(asked)) \in Int
         /\ asked > 0 => Budget(asked) <= asked /\ Budget(Int32(asked)) <= asked
<1>1. Half \in Nat /\ DefaultBudget \in Nat /\ DefaultBudget <= Half
  BY SearchAssumption
<1>2. /\ Int32(asked) \in Int /\ Int32(asked) < Half
      /\ -Half <= asked /\ asked < Half => Int32(asked) = asked
  BY Int32Is
<1> QED
  BY <1>1, <1>2 DEF Budget

-----------------------------------------------------------------------------
(* Ranks. What the order of a search sees of a row, and the place of a row *)
(* among those found.                                                      *)
Sight == [id : Ids, pk : Nat, key : Int]

Ahead(v, w) == v.key < w.key \/ (v.key = w.key /\ v.pk < w.pk)

Ranked(W) ==
  /\ W \subseteq Sight /\ IsFiniteSet(W)
  /\ \A v, w \in W : v.pk = w.pk \/ v.id = w.id => v = w

Above(W, w) == {v \in W : Ahead(v, w)}

Place(W, w) == Cardinality(Above(W, w)) + 1

At(W, i) == CHOOSE w \in W : Place(W, w) = i

LEMMA AheadOrders ==
  /\ \A v \in Sight : ~Ahead(v, v)
  /\ \A u, v, w \in Sight : Ahead(u, v) /\ Ahead(v, w) => Ahead(u, w)
  /\ \A v, w \in Sight : v.pk # w.pk => Ahead(v, w) \/ Ahead(w, v)
<1>1. \A v \in Sight : v.key \in Int /\ v.pk \in Nat
  BY DEF Sight
<1>2. ASSUME NEW u \in Sight, NEW v \in Sight, NEW w \in Sight
      PROVE  /\ ~Ahead(v, v)
             /\ Ahead(u, v) /\ Ahead(v, w) => Ahead(u, w)
             /\ v.pk # w.pk => Ahead(v, w) \/ Ahead(w, v)
  <2>1. /\ u.key \in Int /\ u.pk \in Int /\ v.key \in Int /\ v.pk \in Int
        /\ w.key \in Int /\ w.pk \in Int
    BY <1>1
  <2>2. ~Ahead(v, v)
    BY <2>1 DEF Ahead
  <2>3. Ahead(u, v) /\ Ahead(v, w) => Ahead(u, w)
    BY <2>1 DEF Ahead
  <2>4. v.pk # w.pk => Ahead(v, w) \/ Ahead(w, v)
    BY <2>1 DEF Ahead
  <2> QED
    BY <2>2, <2>3, <2>4
<1> QED
  BY <1>2

LEMMA Aboves ==
  ASSUME NEW W, Ranked(W), NEW w \in W
  PROVE  /\ IsFiniteSet(Above(W, w)) /\ Cardinality(Above(W, w)) \in Nat
         /\ Place(W, w) \in Nat /\ Place(W, w) >= 1 /\ Place(W, w) <= Cardinality(W)
<1>1. IsFiniteSet(W) /\ w \in Sight
  BY DEF Ranked
<1>2. Above(W, w) \in SUBSET (W \ {w})
  BY <1>1, AheadOrders DEF Above
<1>3. IsFiniteSet(W \ {w}) /\ Cardinality(W \ {w}) = Cardinality(W) - 1
  BY <1>1, FS_RemoveElement
<1>4. IsFiniteSet(Above(W, w)) /\ Cardinality(Above(W, w)) <= Cardinality(W \ {w})
  BY <1>2, <1>3, FS_Subset
<1>5. Cardinality(Above(W, w)) \in Nat /\ Cardinality(W) \in Nat
  BY <1>1, <1>4, FS_CardinalityType
<1> QED
  BY <1>3, <1>4, <1>5 DEF Place

LEMMA PlaceOrders ==
  ASSUME NEW W, Ranked(W), NEW v \in W, NEW w \in W, Ahead(v, w)
  PROVE  Place(W, v) < Place(W, w)
<1>1. W \subseteq Sight
  BY DEF Ranked
<1>2. Above(W, v) \in SUBSET Above(W, w) /\ v \in Above(W, w) /\ v \notin Above(W, v)
  BY <1>1, AheadOrders DEF Above
<1>3. /\ IsFiniteSet(Above(W, w)) /\ Cardinality(Above(W, w)) \in Nat
      /\ IsFiniteSet(Above(W, v)) /\ Cardinality(Above(W, v)) \in Nat
  BY Aboves
<1>4. /\ Cardinality(Above(W, v)) <= Cardinality(Above(W, w))
      /\ Cardinality(Above(W, w)) = Cardinality(Above(W, v)) => Above(W, w) = Above(W, v)
  BY <1>2, <1>3, FS_Subset
<1> QED
  BY <1>2, <1>3, <1>4 DEF Place

LEMMA PlaceApart ==
  ASSUME NEW W, Ranked(W), NEW v \in W, NEW w \in W
  PROVE  /\ Place(W, v) = Place(W, w) => v = w
         /\ Place(W, v) < Place(W, w) => Ahead(v, w)
<1>1. v \in Sight /\ w \in Sight /\ (v # w => v.pk # w.pk)
  BY DEF Ranked
<1>2. v = w \/ Ahead(v, w) \/ Ahead(w, v)
  BY <1>1, AheadOrders
<1>3. Place(W, v) \in Nat /\ Place(W, w) \in Nat
  BY Aboves
<1>4. Ahead(v, w) => Place(W, v) < Place(W, w)
  BY PlaceOrders
<1>5. Ahead(w, v) => Place(W, w) < Place(W, v)
  BY PlaceOrders
<1> QED
  BY <1>2, <1>3, <1>4, <1>5

(* Every place is taken: there are as many places as things found.         *)
LEMMA Taken ==
  ASSUME NEW W, Ranked(W)
  PROVE  \A i \in 1..Cardinality(W) : At(W, i) \in W /\ Place(W, At(W, i)) = i
<1> DEFINE n == Cardinality(W)
           f == [w \in W |-> Place(W, w)]
<1>1. IsFiniteSet(W) /\ n \in Nat
  BY FS_CardinalityType DEF Ranked
<1>2. \A w \in W : Place(W, w) \in 1..n
  BY <1>1, Aboves
<1>3. f \in Injection(W, 1..n)
  <2>1. f \in [W -> 1..n]
    BY <1>2
  <2>2. \A v, w \in W : f[v] = f[w] => v = w
    BY PlaceApart
  <2> QED
    BY <2>1, <2>2 DEF Injection, IsInjective
<1>4. IsFiniteSet(1..n) /\ Cardinality(1..n) = n
  <2> HIDE DEF n
  <2>1. Cardinality(1..n) = IF 1 > n THEN 0 ELSE n - 1 + 1
    BY <1>1, FS_Interval
  <2> QED
    BY <1>1, <2>1, FS_Interval
<1>5. f \in Surjection(W, 1..n)
  BY <1>3, <1>4, FS_Injection
<1>6. \A i \in 1..n : \E w \in W : Place(W, w) = i
  BY <1>5 DEF Surjection
<1> QED
  BY <1>6 DEF At

LEMMA PlaceAt ==
  ASSUME NEW W, Ranked(W), NEW w \in W
  PROVE  At(W, Place(W, w)) = w
<1>1. Place(W, w) \in 1..Cardinality(W)
  <2>1. Cardinality(W) \in Nat
    BY FS_CardinalityType DEF Ranked
  <2> QED
    BY <2>1, Aboves
<1> QED
  BY <1>1, Taken, PlaceApart

(* One thing more moves those behind it one place on.                      *)
LEMMA PlaceGrows ==
  ASSUME NEW W, NEW x, Ranked(W \cup {x}), Ranked(W)
  PROVE  /\ \A w \in W : Place(W \cup {x}, w) >= Place(W, w)
         /\ Cardinality(W \cup {x}) >= Cardinality(W)
<1>1. ASSUME NEW w \in W
      PROVE  Place(W \cup {x}, w) >= Place(W, w)
  <2>1. Above(W, w) \in SUBSET Above(W \cup {x}, w)
    BY DEF Above
  <2>2. /\ IsFiniteSet(Above(W \cup {x}, w)) /\ Cardinality(Above(W \cup {x}, w)) \in Nat
        /\ Cardinality(Above(W, w)) \in Nat
    BY Aboves
  <2>3. Cardinality(Above(W, w)) <= Cardinality(Above(W \cup {x}, w))
    BY <2>1, <2>2, FS_Subset
  <2> QED
    BY <2>2, <2>3 DEF Place
<1>2. Cardinality(W) <= Cardinality(W \cup {x})
  <2>1. IsFiniteSet(W \cup {x}) /\ W \in SUBSET (W \cup {x})
    BY DEF Ranked
  <2>2. Cardinality(W) <= Cardinality(W \cup {x})
    BY <2>1, FS_Subset
  <2> QED
    BY <2>2
<1>3. Cardinality(W) \in Nat /\ Cardinality(W \cup {x}) \in Nat
  BY FS_CardinalityType DEF Ranked
<1> QED
  BY <1>1, <1>2, <1>3

-----------------------------------------------------------------------------
(* Searches.                                                               *)
FilterOK(f) == f \in Filters /\ IsFiniteSet(f.any)

Found(R, f, t) == {r \in R : Matches(r, f, t)}

Look(r, C, f, t) == [id |-> r.id, pk |-> r.pk, key |-> Key(r, C, f, t)]

View(R, f, t) == {Look(r, Corpus(R), f, t) : r \in Found(R, f, t)}

LEMMA Texts ==
  ASSUME NEW s \in Nat, NEW t \in Nat
  PROVE  /\ Text(s) \in Int
         /\ Text(s) < Text(t) => Second(s) <= Second(t)
         /\ Text(s) = Text(t) => s = t
         /\ Second(s) < Second(t) => Text(s) < Text(t)
BY DEF Text, Second

LEMMA ScoreType ==
  ASSUME NEW r \in Row, NEW C \in SUBSET Ids, NEW f, FilterOK(f), NEW t \in Nat, r.created <= t
  PROVE  TextScore(r, C, f) \in Int /\ Score(r, C, f, t) \in Int
<1>0. TextScore(r, C, f) \in Int
  <2>1. r.id \in Ids /\ f.query \in SUBSET Terms
    BY DEF Row, FilterOK, Filters
  <2>2. TextRank \in [SUBSET Ids -> [SUBSET Terms -> [Ids -> Int]]]
    BY SearchAssumption
  <2>3. TextRank[C][f.query][r.id] \in Int
    BY <2>1, <2>2
  <2> QED
    BY <2>3 DEF TextScore
<1>1. Cardinality(f.any \cap r.keywords) \in Nat
  BY FS_Intersection, FS_CardinalityType DEF FilterOK
<1>2. r.reads \in Nat /\ r.up \in Nat /\ r.down \in Nat /\ r.created \in Nat
  BY DEF Row
<1> DEFINE reads == IF r.reads < AccessCap THEN r.reads ELSE AccessCap
           age == 30 * Day + t - r.created
           fresh == (1800 * Day) \div age
<1>3. reads \in Int
  BY <1>2 DEF AccessCap
<1>4. fresh \in Int
  <2>1. Day \in Nat /\ Day > 0
    BY SearchAssumption
  <2>2. age \in Nat /\ age > 0 /\ 1800 * Day \in Nat
    BY <1>2, <2>1
  <2> HIDE DEF age
  <2> QED
    BY <2>2
<1> DEFINE text == TextScore(r, C, f)
<1>5. Score(r, C, f, t)
        = text + 20 * (r.up - r.down) + reads + fresh + 30 * Cardinality(f.any \cap r.keywords)
  BY DEF Score
<1>6. text \in Int
  BY <1>0
<1> HIDE DEF reads, fresh, text
<1>7. Score(r, C, f, t) \in Int
  BY <1>1, <1>2, <1>3, <1>4, <1>5, <1>6
<1> QED
  BY <1>0, <1>7

LEMMA KeyType ==
  ASSUME NEW r \in Row, NEW C \in SUBSET Ids, NEW f, FilterOK(f), NEW t \in Nat, r.created <= t
  PROVE  Key(r, C, f, t) \in Int
<1>1. r.reads \in Nat /\ r.up \in Nat /\ r.down \in Nat /\ r.created \in Nat
  BY DEF Row
<1>2. Text(r.created) \in Int /\ Score(r, C, f, t) \in Int
  BY <1>1, Texts, ScoreType
<1>3. f.order \in Orders
  BY DEF FilterOK, Filters
<1> QED
  BY <1>1, <1>2, <1>3 DEF Key, Orders

LEMMA CorpusIs ==
  ASSUME NEW R, NEW t, Memories(R, t)
  PROVE  Corpus(R) \in SUBSET Ids
BY DEF Corpus, Memories, Row

(* Which memories there are matters only when texts are weighed.           *)
LEMMA Unweighed ==
  ASSUME NEW f, FilterOK(f), f.order # "relevance" \/ f.query = {}, NEW t, NEW r, NEW C, NEW D
  PROVE  Key(r, C, f, t) = Key(r, D, f, t) /\ Look(r, C, f, t) = Look(r, D, f, t)
<1>1. f.order \in Orders
  BY DEF FilterOK, Filters
<1>2. CASE f.query = {}
  <2>1. TextScore(r, C, f) = 0 /\ TextScore(r, D, f) = 0
    BY <1>2 DEF TextScore
  <2>2. Score(r, C, f, t) = Score(r, D, f, t)
    BY <2>1 DEF Score
  <2> QED
    BY <2>2 DEF Key, Look
<1>3. CASE f.order # "relevance"
  <2>1. Key(r, C, f, t) = Key(r, D, f, t)
    BY <1>1, <1>3 DEF Key, Orders
  <2> QED
    BY <2>1 DEF Look
<1> QED
  BY <1>2, <1>3

LEMMA ViewRanked ==
  ASSUME NEW R, NEW t \in Nat, Memories(R, t), NEW f, FilterOK(f)
  PROVE  /\ Ranked(View(R, f, t)) /\ IsFiniteSet(Found(R, f, t))
         /\ \A r, s \in Found(R, f, t) : Look(r, Corpus(R), f, t) = Look(s, Corpus(R), f, t) => r = s
         /\ Cardinality(View(R, f, t)) = Cardinality(Found(R, f, t))
<1> DEFINE C == Corpus(R)
           F == Found(R, f, t)
           h == [r \in F |-> Look(r, C, f, t)]
<1>1. F \subseteq R /\ R \subseteq Row /\ IsFiniteSet(R)
  BY DEF Found, Memories
<1>2. IsFiniteSet(F)
  BY <1>1, FS_Subset
<1>3. \A r \in F : Look(r, C, f, t) \in Sight
  <2> SUFFICES ASSUME NEW r \in F
               PROVE  Look(r, C, f, t) \in Sight
    OBVIOUS
  <2>1. r \in Row /\ r.created <= t
    BY <1>1 DEF Memories
  <2>2. Key(r, C, f, t) \in Int /\ r.id \in Ids /\ r.pk \in Nat
    BY <2>1, CorpusIs, KeyType DEF Row
  <2> QED
    BY <2>2 DEF Look, Sight
<1>4. \A r, s \in F : r.pk = s.pk \/ r.id = s.id => r = s
  BY <1>1 DEF Memories
<1>5. \A r \in F : Look(r, C, f, t).id = r.id /\ Look(r, C, f, t).pk = r.pk
  BY DEF Look
<1>6. View(R, f, t) = {h[r] : r \in F}
  BY DEF View
<1>7. \A r, s \in F : Look(r, C, f, t) = Look(s, C, f, t) => r = s
  BY <1>4, <1>5
<1>8. h \in Bijection(F, View(R, f, t))
  <2>1. h \in [F -> View(R, f, t)]
    BY <1>6
  <2>2. \A r, s \in F : h[r] = h[s] => r = s
    BY <1>7
  <2>3. \A v \in View(R, f, t) : \E r \in F : h[r] = v
    BY <1>6
  <2> QED
    BY <2>1, <2>2, <2>3 DEF Bijection, Injection, Surjection, IsInjective
<1>9. IsFiniteSet(View(R, f, t)) /\ Cardinality(View(R, f, t)) = Cardinality(F)
  <2>1. ExistsBijection(F, View(R, f, t))
    BY <1>8 DEF ExistsBijection
  <2> QED
    BY <1>2, <2>1, FS_Bijection
<1>10. Ranked(View(R, f, t))
  <2>1. View(R, f, t) \subseteq Sight
    BY <1>3 DEF View
  <2>2. \A v \in View(R, f, t) : \E r \in F : v = Look(r, C, f, t) /\ v.id = r.id /\ v.pk = r.pk
    BY <1>5 DEF View
  <2>3. \A v, w \in View(R, f, t) : v.pk = w.pk \/ v.id = w.id => v = w
    BY <1>4, <2>2
  <2> QED
    BY <1>9, <2>1, <2>3 DEF Ranked
<1> QED
  BY <1>2, <1>7, <1>9, <1>10

LEMMA RankIsPlace ==
  ASSUME NEW R, NEW t \in Nat, Memories(R, t), NEW f, FilterOK(f), NEW r \in Found(R, f, t)
  PROVE  Cardinality({s \in Found(R, f, t) : Before(s, r, Corpus(R), f, t)}) + 1
           = Place(View(R, f, t), Look(r, Corpus(R), f, t))
<1> DEFINE C == Corpus(R)
           F == Found(R, f, t)
           W == View(R, f, t)
           S == {s \in F : Before(s, r, C, f, t)}
           T == Above(W, Look(r, C, f, t))
           h == [s \in S |-> Look(s, C, f, t)]
<1>1. /\ IsFiniteSet(F)
      /\ \A p, q \in F : Look(p, C, f, t) = Look(q, C, f, t) => p = q
  BY ViewRanked
<1>2. \A s \in F : Before(s, r, C, f, t) <=> Ahead(Look(s, C, f, t), Look(r, C, f, t))
  BY DEF Before, Ahead, Look
<1>3. \A v \in W : \E s \in F : v = Look(s, C, f, t)
  BY DEF View
<1>4. \A s \in F : Look(s, C, f, t) \in W
  BY DEF View
<1> HIDE DEF F, W
<1>5. \A s \in S : Look(s, C, f, t) \in T
  BY <1>2, <1>4 DEF Above
<1>6. \A v \in T : \E s \in S : v = Look(s, C, f, t)
  BY <1>2, <1>3 DEF Above
<1>7. \A s \in S : h[s] = Look(s, C, f, t)
  OBVIOUS
<1>8. h \in [S -> T]
  BY <1>5
<1>9. S \subseteq F
  OBVIOUS
<1> HIDE DEF h, S, T
<1>10. h \in Bijection(S, T)
  <2>1. \A p, q \in S : h[p] = h[q] => p = q
    BY <1>1, <1>7, <1>9
  <2>2. \A v \in T : \E s \in S : h[s] = v
    BY <1>6, <1>7
  <2> QED
    BY <1>8, <2>1, <2>2 DEF Bijection, Injection, Surjection, IsInjective
<1>11. Cardinality(S) = Cardinality(T)
  <2>1. IsFiniteSet(S)
    BY <1>1, <1>9, FS_Subset
  <2>2. ExistsBijection(S, T)
    BY <1>10 DEF ExistsBijection
  <2> QED
    BY <2>1, <2>2, FS_Bijection
<1> QED
  BY <1>11 DEF S, T, F, W, Place

(* A ranking lists what was found, by places.                              *)
LEMMA RankingIs ==
  ASSUME NEW R, NEW t \in Nat, Memories(R, t), NEW f, FilterOK(f)
  PROVE  LET W == View(R, f, t)
             n == Cardinality(W)
             ranking == Ranking(R, f, t)
         IN  /\ n \in Nat /\ ranking \in Seq(Row) /\ Len(ranking) = n
             /\ \A i \in 1..n : /\ ranking[i] \in Found(R, f, t)
                                /\ Look(ranking[i], Corpus(R), f, t) = At(W, i)
<1> DEFINE F == Found(R, f, t)
           W == View(R, f, t)
           n == Cardinality(W)
           ranking == Ranking(R, f, t)
           Rank(r) == Cardinality({s \in F : Before(s, r, Corpus(R), f, t)}) + 1
<1>1. /\ Ranked(W) /\ IsFiniteSet(F) /\ Cardinality(F) = n
      /\ \A p, q \in F : Look(p, Corpus(R), f, t) = Look(q, Corpus(R), f, t) => p = q
  BY ViewRanked
<1>2. n \in Nat
  BY <1>1, FS_CardinalityType
<1>3. ranking = [i \in 1..n |-> CHOOSE r \in F : Rank(r) = i]
  BY <1>1 DEF Ranking, Found
<1>4. \A r \in F : Rank(r) = Place(W, Look(r, Corpus(R), f, t)) /\ Look(r, Corpus(R), f, t) \in W
  BY RankIsPlace DEF View
<1>5. \A v \in W : \E r \in F : v = Look(r, Corpus(R), f, t)
  BY DEF View
<1>6. F \subseteq Row
  BY DEF Found, Memories
<1> HIDE DEF F, W, Rank, ranking
<1>7. ASSUME NEW i \in 1..n
      PROVE  ranking[i] \in F /\ Look(ranking[i], Corpus(R), f, t) = At(W, i)
  <2>1. At(W, i) \in W /\ Place(W, At(W, i)) = i
    BY <1>1, Taken
  <2>2. PICK r \in F : Look(r, Corpus(R), f, t) = At(W, i)
    BY <1>5, <2>1
  <2>3. Rank(r) = i
    BY <1>4, <2>1, <2>2
  <2>4. ranking[i] = CHOOSE s \in F : Rank(s) = i
    BY <1>3
  <2>5. ranking[i] \in F /\ Rank(ranking[i]) = i
    BY <2>3, <2>4
  <2>6. Look(ranking[i], Corpus(R), f, t) \in W /\ Place(W, Look(ranking[i], Corpus(R), f, t)) = i
    BY <1>4, <2>5
  <2>7. Look(ranking[i], Corpus(R), f, t) = At(W, i)
    BY <1>1, <2>6, PlaceAt
  <2> QED
    BY <2>5, <2>7
<1>8. ranking \in Seq(Row) /\ Len(ranking) = n
  <2>1. \A i \in 1..n : ranking[i] \in Row
    BY <1>6, <1>7
  <2>2. ranking = [i \in 1..n |-> ranking[i]]
    BY <1>3
  <2>3. ranking \in [1..n -> Row]
    BY <2>1, <2>2
  <2> QED
    BY <1>2, <2>3
<1> QED
  BY <1>2, <1>7, <1>8 DEF F, W, ranking

(* A page of it.                                                           *)
LEMMA RowsAre ==
  ASSUME NEW S, NEW s \in Seq(S), NEW o \in Nat, NEW l \in Nat, l >= 1
  PROVE  LET page == Rows(s, o, l)
             m == Len(page)
         IN  /\ page \in Seq(S) /\ m \in Nat /\ m <= l
             /\ o < Len(s) => m > 0 /\ o + m <= Len(s) /\ (m < l => o + m = Len(s))
             /\ o >= Len(s) => m = 0 /\ page = <<>>
             /\ \A i \in 1..m : o + i \in 1..Len(s) /\ page[i] = s[o + i]
<1> DEFINE b == AtMost(o + l, Len(s))
           page == SubSeq(s, o + 1, b)
<1>1. /\ b \in Nat /\ b <= Len(s) /\ b <= o + l /\ Len(s) \in Nat
      /\ b = o + l \/ b = Len(s)
  BY DEF AtMost
<1> HIDE DEF b
<1>2. \A i \in o + 1 .. b : i \in 1..Len(s)
  BY <1>1
<1>3. /\ page \in Seq(S)
      /\ Len(page) = IF o + 1 <= b THEN b - (o + 1) + 1 ELSE 0
      /\ \A i \in 1..b - (o + 1) + 1 : page[i] = s[o + 1 + i - 1]
  BY <1>1, <1>2, SubSeqProperties
<1>4. Rows(s, o, l) = page
  BY DEF Rows, b
<1> DEFINE m == Len(page)
<1> HIDE DEF page
<1>5. /\ m \in Nat /\ m <= l
      /\ o < Len(s) => m > 0 /\ o + m <= Len(s) /\ (m < l => o + m = Len(s))
      /\ o >= Len(s) => m = 0
  BY <1>1, <1>3
<1>6. \A i \in 1..m : o + i \in 1..Len(s) /\ page[i] = s[o + i]
  <2> SUFFICES ASSUME NEW i \in 1..m
               PROVE  o + i \in 1..Len(s) /\ page[i] = s[o + i]
    OBVIOUS
  <2>1. i \in 1..b - (o + 1) + 1 /\ o + 1 + i - 1 = o + i
    BY <1>1, <1>3
  <2> QED
    BY <1>1, <1>3, <2>1
<1>7. m = 0 => page = <<>>
  BY <1>3
<1> QED
  BY <1>3, <1>4, <1>5, <1>6, <1>7

(* Where a page begins and how long it is changes nothing of what is found.*)
Alike(f, g) ==
  /\ g.query = f.query /\ g.keywords = f.keywords /\ g.any = f.any /\ g.since = f.since
  /\ g.until = f.until /\ g.order = f.order /\ g.dead = f.dead

LEMMA AlikeFind ==
  ASSUME NEW f, NEW g, Alike(f, g), NEW R, NEW t
  PROVE  Found(R, g, t) = Found(R, f, t) /\ View(R, g, t) = View(R, f, t)
<1>1. \A r : Matches(r, g, t) <=> Matches(r, f, t)
  BY DEF Matches, Alike
<1>2. \A r, C : Key(r, C, g, t) = Key(r, C, f, t)
  BY DEF Key, Score, TextScore, Alike
<1>3. Found(R, g, t) = Found(R, f, t)
  BY <1>1 DEF Found
<1>4. \A r, C : Look(r, C, g, t) = Look(r, C, f, t)
  BY <1>2 DEF Look
<1> QED
  BY <1>3, <1>4 DEF View

LEMMA SentIs ==
  ASSUME NEW f, FilterOK(f), NEW o \in Int
  PROVE  LET g == Sent([f EXCEPT !.offset = o])
         IN  /\ FilterOK(g) /\ Alike(f, g) /\ g.skipTotal = f.skipTotal
             /\ g.offset = o \/ g.offset = Int32(o)
<1> DEFINE e == [f EXCEPT !.offset = o]
<1>1. f \in Filters /\ IsFiniteSet(f.any)
  BY DEF FilterOK
<1>2. /\ e \in Filters /\ Alike(f, e) /\ e.skipTotal = f.skipTotal /\ e.offset = o
      /\ e.limit \in Int
  BY <1>1 DEF Filters, Alike
<1> HIDE DEF e
<1>3. Int32(e.limit) \in Int /\ Int32(e.offset) \in Int
  BY <1>2, Int32Is
<1>4. /\ Narrowed(e) \in Filters /\ Alike(e, Narrowed(e)) /\ Narrowed(e).skipTotal = e.skipTotal
      /\ Narrowed(e).offset = Int32(e.offset)
  BY <1>2, <1>3 DEF Filters, Alike, Narrowed
<1>5. Sent(e) = e \/ Sent(e) = Narrowed(e)
  BY DEF Sent
<1>6. Alike(f, Sent(e)) /\ Sent(e) \in Filters
  BY <1>2, <1>4, <1>5 DEF Alike
<1>7. FilterOK(Sent(e))
  BY <1>1, <1>6 DEF FilterOK, Alike
<1>8. Sent(e).skipTotal = f.skipTotal /\ (Sent(e).offset = o \/ Sent(e).offset = Int32(o))
  BY <1>2, <1>4, <1>5
<1> QED
  BY <1>6, <1>7, <1>8 DEF e

(* A page is the things at the places that follow its offset.              *)
LEMMA PageIs ==
  ASSUME NEW R, NEW t \in Nat, Memories(R, t), NEW f, FilterOK(f)
  PROVE  LET W == View(R, f, t)
             n == Cardinality(W)
             page == Page(R, f, t)
             m == Len(page.results)
             o == AtLeast(f.offset, 0)
         IN  /\ page.results \in Seq(Row) /\ m \in Nat /\ n \in Nat /\ o \in Nat
             /\ m <= Limited(f.limit)
             /\ o < n => m > 0 /\ o + m <= n /\ (m < Limited(f.limit) => o + m = n)
             /\ o >= n => m = 0
             /\ \A i \in 1..m : /\ o + i \in 1..n /\ page.results[i].id = At(W, o + i).id
                                /\ page.results[i] \in Found(R, f, t)
             /\ page.total = IF f.skipTotal \/ m = 0 THEN 0 ELSE n
<1> DEFINE W == View(R, f, t)
           n == Cardinality(W)
           ranking == Ranking(R, f, t)
           page == Page(R, f, t)
           results == page.results
           m == Len(results)
           o == AtLeast(f.offset, 0)
           l == Limited(f.limit)
<1>1. /\ n \in Nat /\ ranking \in Seq(Row) /\ Len(ranking) = n
      /\ \A i \in 1..n : /\ ranking[i] \in Found(R, f, t)
                         /\ Look(ranking[i], Corpus(R), f, t) = At(W, i)
  BY RankingIs
<1>2. o \in Nat /\ l \in Nat /\ l >= 1
  BY LimitIs DEF FilterOK, Filters, AtLeast
<1>3. results = Rows(ranking, o, l)
  BY DEF Page
<1>4. page.total = IF f.skipTotal \/ results = <<>> THEN 0 ELSE n
  BY <1>1 DEF Page
<1> HIDE DEF W, ranking, page, o, l
<1>5. /\ results \in Seq(Row) /\ m \in Nat /\ m <= l
      /\ o < n => m > 0 /\ o + m <= n /\ (m < l => o + m = n)
      /\ o >= n => m = 0
      /\ \A i \in 1..m : o + i \in 1..n /\ results[i] = ranking[o + i]
  <2> HIDE DEF results
  <2> QED
    BY <1>1, <1>2, <1>3, RowsAre
<1>6. \A i \in 1..n : ranking[i].id = At(W, i).id
  <2>1. \A i \in 1..n : Look(ranking[i], Corpus(R), f, t).id = At(W, i).id
    BY <1>1
  <2>2. \A r : Look(r, Corpus(R), f, t).id = r.id
    BY DEF Look
  <2> QED
    BY <2>1, <2>2
<1>7. results = <<>> <=> m = 0
  BY <1>5
<1>8. page.total = IF f.skipTotal \/ m = 0 THEN 0 ELSE n
  BY <1>4, <1>7
<1>9. \A i \in 1..m : /\ o + i \in 1..n /\ results[i].id = At(W, o + i).id
                      /\ results[i] \in Found(R, f, t)
  <2> HIDE DEF results, m, n
  <2> QED
    BY <1>1, <1>5, <1>6
<1> QED
  BY <1>1, <1>2, <1>5, <1>8, <1>9 DEF W, page, o, l

-----------------------------------------------------------------------------
(* What surely matches is found, what is found may match.                  *)
LEMMA SureFound ==
  ASSUME Memories(rows, now), now \in Nat, NEW f, FilterOK(f)
  PROVE  /\ \A id \in Sure(f) : \E w \in View(rows, f, now) : w.id = id
         /\ \A w \in View(rows, f, now) : w.id \in Possible(f)
<1>1. /\ f.query \subseteq Terms /\ f.keywords \subseteq Terms /\ f.any \subseteq Terms
      /\ f.since \subseteq Nat /\ f.until \subseteq Nat /\ f.dead \in BOOLEAN
  BY DEF FilterOK, Filters
<1>2. \A r \in rows : r \in Row
  BY DEF Memories
<1>3. \A r \in Row : /\ r.created \in Nat /\ r.expires \in Nat /\ r.superseded \in BOOLEAN
                     /\ r.keywords \subseteq Terms
  BY DEF Row
<1>4. \A r : Asked(r, f) <=> /\ f.query \subseteq r.words \cup r.keywords
                             /\ f.keywords \subseteq r.keywords
                             /\ f.any = {} \/ f.any \cap r.keywords # {}
  BY DEF Asked
<1>5. ASSUME NEW id \in Sure(f)
      PROVE  \E w \in View(rows, f, now) : w.id = id
  <2>1. PICK r \in rows : /\ r.id = id /\ Asked(r, f)
                          /\ ~f.dead => ~r.superseded /\ Second(r.expires) > Second(now)
                          /\ \A time \in f.since : Second(r.created) > Second(time)
                          /\ \A time \in f.until : Second(r.created) < Second(time)
    BY DEF Sure
  <2>2. r \in Row /\ r.created \in Nat /\ r.expires \in Nat
    BY <1>2, <1>3
  <2>3. \A s \in Nat : Second(s) \in Int
    BY DEF Second
  <2>4. ~f.dead => Live(r, now)
    <3>1. Second(now) < Second(r.expires) => Text(now) < Text(r.expires)
      BY <2>2, Texts
    <3>2. Text(now) \in Int /\ Text(r.expires) \in Int
      BY <2>2, Texts
    <3> QED
      BY <2>1, <2>2, <2>3, <3>1, <3>2 DEF Live
  <2>5. ASSUME NEW time \in f.since
        PROVE  Text(r.created) >= Text(time)
    <3>1. Second(time) < Second(r.created) => Text(time) < Text(r.created)
      BY <1>1, <2>2, Texts
    <3>2. Text(time) \in Int /\ Text(r.created) \in Int /\ Second(time) \in Int
      BY <1>1, <2>2, <2>3, Texts
    <3> QED
      BY <2>1, <2>2, <2>3, <3>1, <3>2
  <2>6. ASSUME NEW time \in f.until
        PROVE  Text(r.created) <= Text(time)
    <3>1. Second(r.created) < Second(time) => Text(r.created) < Text(time)
      BY <1>1, <2>2, Texts
    <3>2. Text(time) \in Int /\ Text(r.created) \in Int
      BY <1>1, <2>2, Texts
    <3> QED
      BY <2>1, <3>1, <3>2
  <2>7. Matches(r, f, now)
    BY <1>4, <2>1, <2>4, <2>5, <2>6 DEF Matches
  <2>8. Look(r, Corpus(rows), f, now) \in View(rows, f, now)
    BY <2>7 DEF View, Found
  <2>9. Look(r, Corpus(rows), f, now).id = id
    BY <2>1 DEF Look
  <2> QED
    BY <2>8, <2>9
<1>6. ASSUME NEW w \in View(rows, f, now)
      PROVE  w.id \in Possible(f)
  <2>1. PICK r \in rows : Matches(r, f, now) /\ w.id = r.id
    BY DEF View, Found, Look
  <2>2. r \in Row /\ r.created \in Nat /\ r.expires \in Nat
    BY <1>2, <1>3
  <2>3. ~f.dead => ~r.superseded /\ Second(r.expires) >= Second(now)
    <3>1. ~f.dead => ~r.superseded /\ Text(now) < Text(r.expires)
      <4>1. Text(now) \in Int /\ Text(r.expires) \in Int
        BY <2>2, Texts
      <4> QED
        BY <2>1, <4>1 DEF Matches, Live
    <3>2. Text(now) < Text(r.expires) => Second(now) <= Second(r.expires)
      BY <2>2, Texts
    <3>3. Second(now) \in Int /\ Second(r.expires) \in Int
      BY <2>2 DEF Second
    <3> QED
      BY <3>1, <3>2, <3>3
  <2>4. ASSUME NEW time \in f.since
        PROVE  Second(r.created) >= Second(time)
    <3>1. Text(r.created) >= Text(time) /\ time \in Nat
      BY <1>1, <2>1 DEF Matches
    <3>2. /\ Text(time) \in Int /\ Text(r.created) \in Int
          /\ Text(time) < Text(r.created) => Second(time) <= Second(r.created)
          /\ Text(time) = Text(r.created) => time = r.created
      BY <2>2, <3>1, Texts
    <3>3. Second(time) \in Int /\ Second(r.created) \in Int
      BY <2>2, <3>1 DEF Second
    <3> QED
      BY <3>1, <3>2, <3>3
  <2>5. ASSUME NEW time \in f.until
        PROVE  Second(r.created) <= Second(time)
    <3>1. Text(r.created) <= Text(time) /\ time \in Nat
      BY <1>1, <2>1 DEF Matches
    <3>2. /\ Text(time) \in Int /\ Text(r.created) \in Int
          /\ Text(r.created) < Text(time) => Second(r.created) <= Second(time)
          /\ Text(r.created) = Text(time) => r.created = time
      BY <2>2, <3>1, Texts
    <3>3. Second(time) \in Int /\ Second(r.created) \in Int
      BY <2>2, <3>1 DEF Second
    <3> QED
      BY <3>1, <3>2, <3>3
  <2>6. Asked(r, f)
    BY <1>4, <2>1 DEF Matches
  <2> QED
    BY <2>1, <2>3, <2>4, <2>5, <2>6 DEF Possible
<1> QED
  BY <1>5, <1>6

(* A memory that comes first is not the worse one.                         *)
LEMMA Division ==
  ASSUME NEW x \in Nat, NEW p \in Nat, NEW q \in Nat, q > 0, p >= q
  PROVE  x \div p \in Nat /\ x \div q \in Nat /\ x \div p <= x \div q
<1> DEFINE u == x \div p
           v == x \div q
<1>1. u \in Nat /\ v \in Nat /\ p * u <= x /\ x < q * (v + 1)
  OBVIOUS
<1> HIDE DEF u, v
<1>2. ASSUME u >= v + 1
      PROVE  FALSE
  <2>1. q * (v + 1) <= q * u
    BY <1>1, <1>2
  <2>2. q * u <= p * u
    BY <1>1
  <2> QED
    BY <1>1, <2>1, <2>2
<1>3. u <= v
  BY <1>1, <1>2
<1> QED
  BY <1>1, <1>3 DEF u, v

LEMMA NotWorse ==
  ASSUME NEW t \in Nat, NEW C \in SUBSET Ids, C = Corpus(rows), NEW f, FilterOK(f),
         NEW r \in Row, NEW s \in Row, r.created <= t, s.created <= t, Before(r, s, C, f, t)
  PROVE  ~Worse(r, s, f)
<1>1. /\ r.reads \in Nat /\ r.up \in Nat /\ r.down \in Nat /\ r.created \in Nat
      /\ s.reads \in Nat /\ s.up \in Nat /\ s.down \in Nat /\ s.created \in Nat
  BY DEF Row
<1>2. Key(r, C, f, t) \in Int /\ Key(s, C, f, t) \in Int /\ Key(r, C, f, t) <= Key(s, C, f, t)
  BY KeyType DEF Before
<1>3. /\ Text(r.created) \in Int /\ Text(s.created) \in Int
      /\ Text(r.created) < Text(s.created) => Second(r.created) <= Second(s.created)
      /\ Text(r.created) = Text(s.created) => r.created = s.created
      /\ Text(s.created) < Text(r.created) => Second(s.created) <= Second(r.created)
  BY <1>1, Texts
<1>4. Second(r.created) \in Int /\ Second(s.created) \in Int
  BY <1>1 DEF Second
<1>5. CASE f.order = "created_asc"
  BY <1>2, <1>3, <1>4, <1>5 DEF Key, Worse
<1>6. CASE f.order = "created_desc"
  BY <1>2, <1>3, <1>4, <1>6 DEF Key, Worse
<1>7. CASE f.order \in {"rating_asc", "rating_desc", "reads_asc", "reads_desc"}
  <2>1. CASE f.order = "rating_asc"
    BY <1>1, <1>2, <2>1 DEF Key, Worse
  <2>2. CASE f.order = "rating_desc"
    BY <1>1, <1>2, <2>2 DEF Key, Worse
  <2>3. CASE f.order = "reads_asc"
    BY <1>1, <1>2, <2>3 DEF Key, Worse
  <2>4. CASE f.order = "reads_desc"
    BY <1>1, <1>2, <2>4 DEF Key, Worse
  <2> QED
    BY <1>7, <2>1, <2>2, <2>3, <2>4
<1>8. CASE f.order = "relevance"
  <2> DEFINE Reads(q) == IF q.reads < AccessCap THEN q.reads ELSE AccessCap
             Age(q) == 30 * Day + t - q.created
             Fresh(q) == (1800 * Day) \div Age(q)
             Texted(q) == TextScore(q, C, f)
             Kept(q) == Cardinality(f.any \cap q.keywords)
  <2>1. Score(r, C, f, t) = Texted(r) + 20 * (r.up - r.down) + Reads(r) + Fresh(r) + 30 * Kept(r)
    BY DEF Score
  <2>2. Score(s, C, f, t) = Texted(s) + 20 * (s.up - s.down) + Reads(s) + Fresh(s) + 30 * Kept(s)
    BY DEF Score
  <2>3. /\ Score(r, C, f, t) \in Int /\ Score(s, C, f, t) \in Int
        /\ Score(r, C, f, t) >= Score(s, C, f, t)
    BY <1>2, <1>8, ScoreType DEF Key
  <2>4. ASSUME Worse(r, s, f)
        PROVE  FALSE
    <3>1. /\ Texted(r) <= Texted(s)
          /\ r.up - r.down < s.up - s.down
          /\ r.reads <= s.reads
          /\ r.created <= s.created
          /\ Cardinality(r.keywords \cap f.any) <= Cardinality(s.keywords \cap f.any)
      BY <1>8, <2>4 DEF Worse
    <3>2. Reads(r) \in Nat /\ Reads(s) \in Nat /\ Reads(r) <= Reads(s)
      BY <1>1, <3>1 DEF AccessCap
    <3>3. Kept(r) \in Nat /\ Kept(s) \in Nat /\ Kept(r) <= Kept(s)
      <4>1. f.any \cap r.keywords = r.keywords \cap f.any /\ f.any \cap s.keywords = s.keywords \cap f.any
        OBVIOUS
      <4>2. Kept(r) \in Nat /\ Kept(s) \in Nat
        BY FS_Intersection, FS_CardinalityType DEF FilterOK
      <4> QED
        BY <3>1, <4>1, <4>2
    <3>4. Fresh(r) \in Nat /\ Fresh(s) \in Nat /\ Fresh(r) <= Fresh(s)
      <4>1. Day \in Nat /\ Day > 0
        BY SearchAssumption
      <4>2. 1800 * Day \in Nat /\ Age(r) \in Nat /\ Age(s) \in Nat /\ Age(s) > 0 /\ Age(r) >= Age(s)
        BY <1>1, <3>1, <4>1
      <4> HIDE DEF Age
      <4> QED
        BY <4>2, Division
    <3>5. Texted(r) \in Int /\ Texted(s) \in Int
      BY ScoreType
    <3> HIDE DEF Texted, Reads, Fresh, Kept
    <3> QED
      BY <1>1, <2>1, <2>2, <2>3, <3>1, <3>2, <3>3, <3>4, <3>5
  <2> QED
    BY <2>4
<1>9. f.order \in Orders
  BY DEF FilterOK, Filters
<1> QED
  BY <1>5, <1>6, <1>7, <1>8, <1>9 DEF Orders


-----------------------------------------------------------------------------
(* What a command is at any time.                                          *)
PagingTask ==
  [kind : {"paging"}, state : {"running", "done"}, filters : Searches, offset : Nat,
   shown : Seq(Ids), sure : SUBSET Ids, possible : SUBSET Ids, moved : BOOLEAN, grown : BOOLEAN]

BatchTask ==
  [kind : {"batch"}, state : {"running", "done"}, verb : {"get", "up", "down"}, ids : Batches,
   answered : Nat, failed : BOOLEAN, made : [Ids -> Nat]]

PackTask ==
  [kind : {"pack"}, state : {"searching", "reading", "done"}, args : Packs,
   candidates : Seq(Row), sure : SUBSET Ids, present : SUBSET Ids, entries : Seq(Ids)]

(* The agent that pages knows how many there are, and everything that must *)
(* be shown is shown already or lies behind the offset: what it was shown  *)
(* is what now has the places up to the offset, unless a memory has come.  *)
Paged(p, W) ==
  /\ p.state = "done" => p.sure \subseteq ToSet(p.shown)
  /\ p.state = "running" =>
       /\ p.offset = 0 \/ p.offset < Cardinality(W)
       /\ \A id \in p.sure : \E w \in W : w.id = id
       /\ \A w \in W : w.id \in p.sure /\ Place(W, w) <= p.offset => w.id \in ToSet(p.shown)
  /\ ~p.grown =>
       /\ Len(p.shown) = p.offset /\ p.offset <= Cardinality(W)
       /\ \A i \in 1..p.offset : p.shown[i] = At(W, i).id
       /\ \A w \in W : w.id \in p.possible

PagingInv ==
  task \in PagingTask /\ ~task.moved => Paged(task, View(rows, task.filters, now))

(* A batch that goes on has not failed, and has ids left.                  *)
Counted(b) ==
  /\ b.answered <= Len(b.ids)
  /\ b.state = "running" => ~b.failed /\ b.answered < Len(b.ids)

BatchInv == task \in BatchTask => Counted(task) /\ BatchIsPrefix

PackInv ==
  task \in PackTask =>
    /\ task.state # "searching" /\ Len(task.candidates) < RecallLimit =>
         task.sure \subseteq {r.id : r \in ToSet(task.candidates)}
    /\ PackTruthful

TasksOK == task \in {NoTask} \cup PagingTask \cup BatchTask \cup PackTask

IInv ==
  /\ Memories(rows, now) /\ now \in StartTime..MaxTime /\ remote \in BOOLEAN
  /\ TasksOK /\ PagingInv /\ BatchInv /\ PackInv

LEMMA Kinds ==
  ASSUME NEW p \in {NoTask} \cup PagingTask \cup BatchTask \cup PackTask
  PROVE  /\ p.kind = "paging" <=> p \in PagingTask
         /\ p.kind = "batch" <=> p \in BatchTask
         /\ p.kind = "pack" <=> p \in PackTask
         /\ p.kind = "none" <=> p = NoTask
<1>1. \A q \in PagingTask : q.kind = "paging"
  BY DEF PagingTask
<1>2. \A q \in BatchTask : q.kind = "batch"
  BY DEF BatchTask
<1>3. \A q \in PackTask : q.kind = "pack"
  BY DEF PackTask
<1>4. NoTask.kind = "none"
  BY DEF NoTask
<1> QED
  BY <1>1, <1>2, <1>3, <1>4

-----------------------------------------------------------------------------
(* What others do to the memories.                                         *)

LEMMA GetIs ==
  ASSUME Memories(rows, now), NEW id, Known(id)
  PROVE  Get(id) \in rows /\ Get(id).id = id
BY DEF Get, Known

LEMMA MemoriesReplaced ==
  ASSUME NEW R, NEW t \in Nat, Memories(R, t), NEW r \in R, NEW s \in Row,
         s.pk = r.pk, s.id = r.id, s.created = r.created
  PROVE  Memories((R \ {r}) \cup {s}, t)
<1> DEFINE Q == (R \ {r}) \cup {s}
<1>1. /\ R \subseteq Row /\ IsFiniteSet(R)
      /\ \A p, q \in R : p.pk = q.pk \/ p.id = q.id => p = q
      /\ \A p \in R : p.created <= t
  BY DEF Memories
<1>2. IsFiniteSet(Q)
  <2>1. IsFiniteSet(R \ {r})
    BY <1>1, FS_Subset
  <2> QED
    BY <2>1, FS_AddElement
<1>3. Q \subseteq Row
  BY <1>1
<1>4. \A p, q \in Q : p.pk = q.pk \/ p.id = q.id => p = q
  <2>1. \A p \in Q : p = s \/ (p \in R /\ p # r)
    OBVIOUS
  <2>2. \A p \in R : p # r => p.pk # s.pk /\ p.id # s.id
    BY <1>1
  <2> HIDE DEF Q
  <2> QED
    BY <1>1, <2>1, <2>2
<1>5. \A p \in Q : p.created <= t
  BY <1>1
<1> HIDE DEF Q
<1>6. Memories(Q, t)
  BY <1>2, <1>3, <1>4, <1>5 DEF Memories
<1> QED
  BY <1>6 DEF Q

LEMMA ViewReplaced ==
  ASSUME NEW R, NEW t, NEW f, NEW r \in R, NEW s,
         Matches(s, f, t) <=> Matches(r, f, t), s.id = r.id,
         Look(s, Corpus(R), f, t) = Look(r, Corpus(R), f, t)
  PROVE  View((R \ {r}) \cup {s}, f, t) = View(R, f, t)
<1> DEFINE Q == (R \ {r}) \cup {s}
           C == Corpus(R)
<1>0. Corpus(Q) = C
  <2>1. \A q \in Q : \E p \in R : q.id = p.id
    OBVIOUS
  <2>2. \A p \in R : \E q \in Q : p.id = q.id
    <3> SUFFICES ASSUME NEW p \in R
                 PROVE  \E q \in Q : p.id = q.id
      OBVIOUS
    <3>1. CASE p = r
      BY <3>1
    <3>2. CASE p # r
      BY <3>2
    <3> QED
      BY <3>1, <3>2
  <2> HIDE DEF Q
  <2> QED
    BY <2>1, <2>2 DEF Corpus
<1>1. ASSUME NEW w \in View(R, f, t)
      PROVE  w \in View(Q, f, t)
  <2>1. PICK q \in R : Matches(q, f, t) /\ w = Look(q, C, f, t)
    BY <1>0 DEF View, Found
  <2>2. \E p \in Q : Matches(p, f, t) /\ w = Look(p, C, f, t)
    <3>1. CASE q = r
      BY <2>1, <3>1
    <3>2. CASE q # r
      BY <2>1, <3>2
    <3> QED
      BY <3>1, <3>2
  <2> HIDE DEF Q
  <2> QED
    BY <1>0, <2>2 DEF View, Found
<1>2. ASSUME NEW w \in View(Q, f, t)
      PROVE  w \in View(R, f, t)
  <2>1. PICK q \in Q : Matches(q, f, t) /\ w = Look(q, C, f, t)
    BY <1>0 DEF View, Found
  <2>2. \E p \in R : Matches(p, f, t) /\ w = Look(p, C, f, t)
    <3>1. CASE q = s
      BY <2>1, <3>1
    <3>2. CASE q # s
      BY <2>1, <3>2
    <3> QED
      BY <3>1, <3>2
  <2> HIDE DEF Q
  <2> QED
    BY <1>0, <2>2 DEF View, Found
<1> HIDE DEF Q
<1>3. View(Q, f, t) = View(R, f, t)
  BY <1>1, <1>2
<1> QED
  BY <1>3 DEF Q

(* Reads and votes leave what a search finds, and their order if it does   *)
(* not depend on them.                                                     *)
LEMMA ReadIs ==
  ASSUME Memories(rows, now), now \in Nat, NEW id, Known(id)
  PROVE  /\ Memories(WithRead(id), now)
         /\ \A f : FilterOK(f) /\ f.order \notin {"relevance", "reads_asc", "reads_desc"} =>
                     View(WithRead(id), f, now) = View(rows, f, now)
<1> DEFINE r == Get(id)
           s == [r EXCEPT !.reads = @ + 1]
<1>1. r \in rows /\ r \in Row
  BY GetIs DEF Memories
<1>2. /\ s \in Row /\ s.pk = r.pk /\ s.id = r.id /\ s.created = r.created
      /\ s.keywords = r.keywords /\ s.words = r.words /\ s.expires = r.expires
      /\ s.superseded = r.superseded /\ s.up = r.up /\ s.down = r.down
  BY <1>1 DEF Row
<1>3. WithRead(id) = (rows \ {r}) \cup {s}
  BY DEF WithRead, Replaced
<1> HIDE DEF r, s
<1>4. Memories(WithRead(id), now)
  BY <1>1, <1>2, <1>3, MemoriesReplaced
<1>5. ASSUME NEW f, FilterOK(f), f.order \notin {"relevance", "reads_asc", "reads_desc"}
      PROVE  View(WithRead(id), f, now) = View(rows, f, now)
  <2>1. Matches(s, f, now) <=> Matches(r, f, now)
    BY <1>2 DEF Matches, Live
  <2>2. \A C : Key(s, C, f, now) = Key(r, C, f, now)
    <3>1. f.order \in Orders
      BY <1>5 DEF FilterOK, Filters
    <3> QED
      BY <1>2, <1>5, <3>1 DEF Key, Orders
  <2>3. \A C : Look(s, C, f, now) = Look(r, C, f, now)
    BY <1>2, <2>2 DEF Look
  <2>4. s.id = r.id /\ Look(s, Corpus(rows), f, now) = Look(r, Corpus(rows), f, now)
    BY <1>2, <2>3
  <2>5. View((rows \ {r}) \cup {s}, f, now) = View(rows, f, now)
    BY <1>1, <2>1, <2>4, ViewReplaced
  <2> QED
    BY <1>3, <2>5
<1> QED
  BY <1>4, <1>5

LEMMA VoteIs ==
  ASSUME Memories(rows, now), now \in Nat, NEW id, Known(id), NEW up \in BOOLEAN
  PROVE  /\ Memories(WithVote(id, up), now)
         /\ \A f : FilterOK(f) /\ f.order \notin {"relevance", "rating_asc", "rating_desc"} =>
                     View(WithVote(id, up), f, now) = View(rows, f, now)
<1> DEFINE r == Get(id)
           s == IF up THEN [r EXCEPT !.up = @ + 1] ELSE [r EXCEPT !.down = @ + 1]
<1>1. r \in rows /\ r \in Row
  BY GetIs DEF Memories
<1>2. /\ s \in Row /\ s.pk = r.pk /\ s.id = r.id /\ s.created = r.created
      /\ s.keywords = r.keywords /\ s.words = r.words /\ s.expires = r.expires
      /\ s.superseded = r.superseded /\ s.reads = r.reads
  BY <1>1 DEF Row
<1>3. WithVote(id, up) = (rows \ {r}) \cup {s}
  BY DEF WithVote, Replaced
<1> HIDE DEF r, s
<1>4. Memories(WithVote(id, up), now)
  BY <1>1, <1>2, <1>3, MemoriesReplaced
<1>5. ASSUME NEW f, FilterOK(f), f.order \notin {"relevance", "rating_asc", "rating_desc"}
      PROVE  View(WithVote(id, up), f, now) = View(rows, f, now)
  <2>1. Matches(s, f, now) <=> Matches(r, f, now)
    BY <1>2 DEF Matches, Live
  <2>2. \A C : Key(s, C, f, now) = Key(r, C, f, now)
    <3>1. f.order \in Orders
      BY <1>5 DEF FilterOK, Filters
    <3> QED
      BY <1>2, <1>5, <3>1 DEF Key, Orders
  <2>3. \A C : Look(s, C, f, now) = Look(r, C, f, now)
    BY <1>2, <2>2 DEF Look
  <2>4. s.id = r.id /\ Look(s, Corpus(rows), f, now) = Look(r, Corpus(rows), f, now)
    BY <1>2, <2>3
  <2>5. View((rows \ {r}) \cup {s}, f, now) = View(rows, f, now)
    BY <1>1, <2>1, <2>4, ViewReplaced
  <2> QED
    BY <1>3, <2>5
<1> QED
  BY <1>4, <1>5

LEMMA TickIs ==
  ASSUME Memories(rows, now), now \in Nat
  PROVE  /\ Memories(rows, now + 1)
         /\ \A f : FilterOK(f) /\ f.dead /\ f.order # "relevance" =>
                     View(rows, f, now + 1) = View(rows, f, now)
<1>1. Memories(rows, now + 1)
  <2>1. \A r \in rows : r.created \in Nat /\ r.created <= now
    BY DEF Memories, Row
  <2>2. \A r \in rows : r.created <= now + 1
    BY <2>1
  <2> QED
    BY <2>2 DEF Memories
<1>2. ASSUME NEW f, FilterOK(f), f.dead, f.order # "relevance"
      PROVE  View(rows, f, now + 1) = View(rows, f, now)
  <2>1. \A r : Matches(r, f, now + 1) <=> Matches(r, f, now)
    BY <1>2 DEF Matches
  <2>2. f.order \in Orders
    BY <1>2 DEF FilterOK, Filters
  <2>3. \A r, C : Key(r, C, f, now + 1) = Key(r, C, f, now)
    BY <1>2, <2>2 DEF Key, Orders
  <2>4. \A r, C : Look(r, C, f, now + 1) = Look(r, C, f, now)
    BY <2>3 DEF Look
  <2> QED
    BY <2>1, <2>4 DEF View, Found
<1> QED
  BY <1>1, <1>2

(* A pk of its own: there is a greatest one.                               *)
LEMMA Greatest ==
  ASSUME Memories(rows, now), rows # {}
  PROVE  \E k \in {r.pk : r \in rows} : \A j \in {r.pk : r \in rows} : k >= j
<1> DEFINE h == [r \in rows |-> [id |-> r.id, pk |-> r.pk, key |-> 0]]
           W == {h[r] : r \in rows}
           n == Cardinality(W)
<1>1. /\ rows \subseteq Row /\ IsFiniteSet(rows)
      /\ \A r, s \in rows : r.pk = s.pk \/ r.id = s.id => r = s
      /\ \A r \in rows : r.id \in Ids /\ r.pk \in Nat
  BY DEF Memories, Row
<1>2. \A r \in rows : h[r] \in Sight /\ h[r].id = r.id /\ h[r].pk = r.pk /\ h[r].key = 0
  BY <1>1 DEF Sight
<1> HIDE DEF h
<1>3. IsFiniteSet(W)
  <2>1. h \in Surjection(rows, W)
    <3>1. DOMAIN h = rows /\ h = [r \in rows |-> h[r]]
      BY DEF h
    <3>2. h \in [rows -> W]
      BY <3>1
    <3> QED
      BY <3>2 DEF Surjection
  <2> QED
    BY <1>1, <2>1, FS_Surjection
<1>4. Ranked(W)
  <2>1. W \subseteq Sight
    BY <1>2
  <2>2. \A v, w \in W : v.pk = w.pk \/ v.id = w.id => v = w
    BY <1>1, <1>2
  <2> HIDE DEF W
  <2> QED
    BY <1>3, <2>1, <2>2 DEF Ranked
<1>5. W # {}
  OBVIOUS
<1>6. \A w \in W : w.key = 0 /\ w.pk \in Nat /\ \E r \in rows : w.pk = r.pk
  BY <1>1, <1>2
<1>7. \A r \in rows : \E w \in W : w.pk = r.pk
  BY <1>2
<1> HIDE DEF W
<1>8. n \in Nat /\ n # 0
  BY <1>3, <1>5, FS_CardinalityType, FS_EmptySet
<1>9. At(W, n) \in W /\ Place(W, At(W, n)) = n
  BY <1>4, <1>8, Taken
<1>10. \A w \in W : At(W, n).pk >= w.pk
  <2> SUFFICES ASSUME NEW w \in W, w # At(W, n)
               PROVE  At(W, n).pk >= w.pk
    BY <1>6, <1>9
  <2>1. Place(W, w) \in Nat /\ Place(W, w) <= n /\ Place(W, w) # n
    BY <1>4, <1>9, Aboves, PlaceApart
  <2>2. Ahead(w, At(W, n))
    BY <1>4, <1>8, <1>9, <2>1, PlaceApart
  <2> QED
    BY <1>6, <1>9, <2>2 DEF Ahead
<1> DEFINE S == {r.pk : r \in rows}
           k == At(W, n).pk
<1>11. k \in S
  BY <1>6, <1>9
<1>12. \A j \in S : k >= j
  BY <1>7, <1>10
<1> HIDE DEF S, k
<1>13. \E m \in S : \A j \in S : m >= j
  BY <1>11, <1>12
<1> QED
  BY <1>13 DEF S

LEMMA NextPkIs ==
  ASSUME Memories(rows, now)
  PROVE  NextPk \in Nat /\ \A r \in rows : r.pk # NextPk
<1> DEFINE S == {r.pk : r \in rows}
<1>1. CASE rows = {}
  BY <1>1 DEF NextPk
<1>2. CASE rows # {}
  <2>1. \E k \in S : \A j \in S : k >= j
    BY <1>2, Greatest
  <2>2. Max(S) \in S /\ \A j \in S : Max(S) >= j
    BY <2>1 DEF Max
  <2>3. \A r \in rows : r.pk \in S /\ r.pk \in Nat
    BY DEF Memories, Row
  <2>4. S \subseteq Nat
    BY <2>3
  <2> DEFINE k == Max(S)
  <2>5. NextPk = k + 1
    BY <1>2 DEF NextPk
  <2>6. k \in Nat /\ \A r \in rows : r.pk \in Nat /\ k >= r.pk
    BY <2>2, <2>3, <2>4
  <2> HIDE DEF k
  <2> QED
    BY <2>5, <2>6
<1> QED
  BY <1>1, <1>2

LEMMA MemoriesAdded ==
  ASSUME NEW R, NEW t \in Nat, Memories(R, t), NEW s \in Row, s.created <= t,
         \A r \in R : r.pk # s.pk /\ r.id # s.id
  PROVE  Memories(R \cup {s}, t)
<1> DEFINE Q == R \cup {s}
<1>1. /\ R \subseteq Row /\ IsFiniteSet(R)
      /\ \A p, q \in R : p.pk = q.pk \/ p.id = q.id => p = q
      /\ \A p \in R : p.created <= t
  BY DEF Memories
<1>2. IsFiniteSet(Q)
  BY <1>1, FS_AddElement
<1>3. Q \subseteq Row /\ \A p \in Q : p.created <= t
  BY <1>1
<1>4. \A p, q \in Q : p.pk = q.pk \/ p.id = q.id => p = q
  <2>1. \A p \in Q : p = s \/ p \in R
    OBVIOUS
  <2> HIDE DEF Q
  <2> QED
    BY <1>1, <2>1
<1> HIDE DEF Q
<1>5. Memories(Q, t)
  BY <1>2, <1>3, <1>4 DEF Memories
<1> QED
  BY <1>5 DEF Q

LEMMA ViewAdded ==
  ASSUME NEW R, NEW t, NEW f, FilterOK(f), f.order # "relevance" \/ f.query = {}, NEW s
  PROVE  \/ View(R \cup {s}, f, t) = View(R, f, t)
         \/ View(R \cup {s}, f, t) = View(R, f, t) \cup {Look(s, Corpus(R), f, t)}
<1> DEFINE C == Corpus(R)
           D == Corpus(R \cup {s})
<1>1. \A r : Look(r, D, f, t) = Look(r, C, f, t)
  BY Unweighed
<1>2. /\ View(R, f, t) = {Look(r, C, f, t) : r \in Found(R, f, t)}
      /\ View(R \cup {s}, f, t) = {Look(r, D, f, t) : r \in Found(R \cup {s}, f, t)}
  BY DEF View
<1> HIDE DEF C, D
<1>3. View(R \cup {s}, f, t) = {Look(r, C, f, t) : r \in Found(R \cup {s}, f, t)}
  BY <1>1, <1>2
<1>4. CASE Matches(s, f, t)
  <2>1. Found(R \cup {s}, f, t) = Found(R, f, t) \cup {s}
    BY <1>4 DEF Found
  <2>2. View(R \cup {s}, f, t) = View(R, f, t) \cup {Look(s, C, f, t)}
    BY <1>2, <1>3, <2>1
  <2> QED
    BY <2>2 DEF C
<1>5. CASE ~Matches(s, f, t)
  <2>1. Found(R \cup {s}, f, t) = Found(R, f, t)
    BY <1>5 DEF Found
  <2> QED
    BY <1>2, <1>3, <2>1
<1> QED
  BY <1>4, <1>5

(* A memory that is superseded stays where it is among all memories.       *)
Kept(supersedes) ==
  {IF r.id = supersedes THEN [r EXCEPT !.superseded = TRUE] ELSE r : r \in rows}

LEMMA KeptIs ==
  ASSUME Memories(rows, now), now \in Nat, NEW id \in Ids \cup {NoId}, id = NoId \/ Rateable(id)
  PROVE  /\ Memories(Kept(id), now)
         /\ \A r \in Kept(id) : \E s \in rows : r.id = s.id /\ r.pk = s.pk
         /\ \A f : FilterOK(f) /\ (id = NoId \/ f.dead) => View(Kept(id), f, now) = View(rows, f, now)
<1>1. \A r \in rows : r \in Row /\ r.id \in Ids
  BY DEF Memories, Row
<1>2. CASE id = NoId
  <2>1. \A r \in rows : r.id # id
    BY <1>1, <1>2, FacesAssumption
  <2>2. Kept(id) = rows
    BY <2>1 DEF Kept
  <2> QED
    BY <2>2
<1>3. CASE id # NoId
  <2> DEFINE r == Get(id)
             s == [r EXCEPT !.superseded = TRUE]
  <2>1. r \in rows /\ r \in Row /\ r.id = id
    BY <1>1, <1>3, GetIs DEF Rateable
  <2>2. /\ s \in Row /\ s.pk = r.pk /\ s.id = r.id /\ s.created = r.created
        /\ s.keywords = r.keywords /\ s.words = r.words /\ s.expires = r.expires
        /\ s.up = r.up /\ s.down = r.down /\ s.reads = r.reads
    BY <2>1 DEF Row
  <2>3. \A q \in rows : q.id = id => q = r
    BY <2>1 DEF Memories
  <2>4. Kept(id) = (rows \ {r}) \cup {s}
    <3>1. \A q \in rows : (IF q.id = id THEN [q EXCEPT !.superseded = TRUE] ELSE q)
                            = IF q = r THEN s ELSE q
      BY <2>1, <2>3
    <3>2. Kept(id) = {IF q = r THEN s ELSE q : q \in rows}
      BY <3>1 DEF Kept
    <3> HIDE DEF r, s
    <3> QED
      BY <2>1, <3>2
  <2> HIDE DEF r, s
  <2>5. Memories(Kept(id), now)
    BY <2>1, <2>2, <2>4, MemoriesReplaced
  <2>6. \A q \in Kept(id) : \E p \in rows : q.id = p.id /\ q.pk = p.pk
    BY <2>1, <2>2, <2>4
  <2>7. ASSUME NEW f, FilterOK(f), f.dead
        PROVE  View(Kept(id), f, now) = View(rows, f, now)
    <3>1. Matches(s, f, now) <=> Matches(r, f, now)
      BY <2>2, <2>7 DEF Matches
    <3>2. f.order \in Orders
      BY <2>7 DEF FilterOK, Filters
    <3>3. \A C : Key(s, C, f, now) = Key(r, C, f, now)
      BY <2>2, <3>2 DEF Key, Orders, Score, TextScore
    <3>4. \A C : Look(s, C, f, now) = Look(r, C, f, now)
      BY <2>2, <3>3 DEF Look
    <3>5. s.id = r.id
      BY <2>2
    <3> QED
      BY <2>1, <2>4, <3>1, <3>4, <3>5, ViewReplaced
  <2> QED
    BY <1>3, <2>5, <2>6, <2>7
<1> QED
  BY <1>2, <1>3

(* The rows that have an id are no more than the ids.                      *)
LEMMA ViewBounded ==
  ASSUME NEW W, Ranked(W)
  PROVE  Cardinality(W) \in Nat /\ Cardinality(W) <= Half
<1> DEFINE h == [w \in W |-> w.id]
<1>1. IsFiniteSet(Ids) /\ Cardinality(Ids) <= Half /\ Half \in Nat
  BY FacesAssumption, SearchAssumption
<1>2. IsFiniteSet(W) /\ \A w \in W : w.id \in Ids
  BY DEF Ranked, Sight
<1>3. h \in Injection(W, Ids)
  <2>1. h \in [W -> Ids]
    BY <1>2
  <2>2. \A v, w \in W : h[v] = h[w] => v = w
    BY DEF Ranked
  <2> QED
    BY <2>1, <2>2 DEF Injection, IsInjective
<1>4. Cardinality(W) <= Cardinality(Ids)
  BY <1>1, <1>3, FS_Injection
<1>5. Cardinality(W) \in Nat /\ Cardinality(Ids) \in Nat
  BY <1>1, <1>2, FS_CardinalityType
<1> QED
  BY <1>1, <1>4, <1>5

-----------------------------------------------------------------------------
(* What others do to a paging that is under way.                           *)
LEMMA PagingFields ==
  ASSUME NEW p \in PagingTask
  PROVE  /\ p.kind = "paging" /\ p.state \in {"running", "done"} /\ p.filters \in Searches
         /\ p.offset \in Nat /\ p.shown \in Seq(Ids) /\ Len(p.shown) \in Nat
         /\ p.sure \subseteq Ids /\ p.possible \subseteq Ids
         /\ p.moved \in BOOLEAN /\ p.grown \in BOOLEAN
         /\ FilterOK(p.filters) /\ ~p.filters.skipTotal
<1>1. /\ p.kind = "paging" /\ p.state \in {"running", "done"} /\ p.filters \in Searches
      /\ p.offset \in Nat /\ p.shown \in Seq(Ids)
      /\ p.sure \subseteq Ids /\ p.possible \subseteq Ids
      /\ p.moved \in BOOLEAN /\ p.grown \in BOOLEAN
  BY DEF PagingTask
<1>2. FilterOK(p.filters) /\ ~p.filters.skipTotal
  BY <1>1, FacesAssumption DEF FilterOK
<1> QED
  BY <1>1, <1>2

LEMMA DisturbedIs ==
  ASSUME task \in PagingTask, NEW moves \in BOOLEAN, NEW grows \in BOOLEAN, NEW q,
         q = Disturbed(moves, grows)
  PROVE  /\ q \in PagingTask
         /\ q.moved <=> (task.moved \/ moves)
         /\ q.grown <=> (task.grown \/ grows)
         /\ q.state = task.state /\ q.filters = task.filters /\ q.offset = task.offset
         /\ q.shown = task.shown /\ q.sure = task.sure /\ q.possible = task.possible
<1>1. q = [task EXCEPT !.moved = @ \/ moves, !.grown = @ \/ grows]
  BY DEF Disturbed, PagingTask
<1> QED
  BY <1>1 DEF PagingTask

LEMMA PagedSame ==
  ASSUME NEW p, NEW q, NEW W, Paged(p, W), p.grown => q.grown,
         q.state = p.state, q.offset = p.offset, q.shown = p.shown, q.sure = p.sure,
         q.possible = p.possible
  PROVE  Paged(q, W)
BY DEF Paged

LEMMA PagedGrows ==
  ASSUME NEW p \in PagingTask, NEW q, NEW W, NEW x, Paged(p, W), q.grown,
         Ranked(W), Ranked(W \cup {x}),
         q.state = p.state, q.offset = p.offset, q.shown = p.shown, q.sure = p.sure
  PROVE  Paged(q, W \cup {x})
<1> DEFINE V == W \cup {x}
<1>1. CASE x \in W
  <2>1. V = W
    BY <1>1
  <2>2. Paged(q, W)
    BY DEF Paged
  <2> QED
    BY <2>1, <2>2
<1>2. CASE x \notin W
  <2>1. p.state = "done" => p.sure \subseteq ToSet(p.shown)
    BY DEF Paged
  <2>2. ASSUME p.state = "running"
        PROVE  /\ p.offset = 0 \/ p.offset < Cardinality(V)
               /\ \A id \in p.sure : \E w \in V : w.id = id
               /\ \A w \in V : w.id \in p.sure /\ Place(V, w) <= p.offset
                                 => w.id \in ToSet(p.shown)
    <3>1. /\ p.offset = 0 \/ p.offset < Cardinality(W)
          /\ \A id \in p.sure : \E w \in W : w.id = id
          /\ \A w \in W : w.id \in p.sure /\ Place(W, w) <= p.offset => w.id \in ToSet(p.shown)
      BY <2>2 DEF Paged
    <3>2. /\ \A w \in W : Place(V, w) >= Place(W, w)
          /\ Cardinality(V) >= Cardinality(W)
      BY PlaceGrows
    <3>3. Cardinality(W) \in Nat /\ Cardinality(V) \in Nat /\ p.offset \in Nat
      BY ViewBounded, PagingFields
    <3>4. \A w \in W : Place(V, w) \in Nat /\ Place(W, w) \in Nat
      BY Aboves
    <3>5. x.id \notin p.sure
      <4>1. \A w \in W : w.id # x.id
        BY <1>2 DEF Ranked
      <4> QED
        BY <3>1, <4>1
    <3>6. p.offset = 0 \/ p.offset < Cardinality(V)
      BY <3>1, <3>2, <3>3
    <3>7. \A id \in p.sure : \E w \in V : w.id = id
      BY <3>1
    <3>8. ASSUME NEW w \in V, w.id \in p.sure, Place(V, w) <= p.offset
          PROVE  w.id \in ToSet(p.shown)
      <4>1. w \in W
        BY <3>5, <3>8
      <4>2. Place(W, w) <= p.offset
        BY <3>2, <3>3, <3>4, <3>8, <4>1
      <4> QED
        BY <3>1, <3>8, <4>1, <4>2
    <3> QED
      BY <3>6, <3>7, <3>8
  <2> HIDE DEF V
  <2>3. Paged(q, V)
    BY <2>1, <2>2 DEF Paged
  <2> QED
    BY <2>3 DEF V
<1> QED
  BY <1>1, <1>2

LEMMA Undisturbed ==
  ASSUME IInv, Memories(rows', now'), now' \in StartTime..MaxTime, remote' = remote,
         NEW moves \in BOOLEAN, NEW grows \in BOOLEAN, task' = Disturbed(moves, grows),
         task \in PagingTask /\ ~task.moved /\ ~moves =>
           Paged(task', View(rows', task.filters, now'))
  PROVE  IInv'
<1>1. task \in {NoTask} \cup PagingTask \cup BatchTask \cup PackTask
  BY DEF IInv, TasksOK
<1>2. CASE task.kind = "paging"
  <2>1. task \in PagingTask
    BY <1>1, <1>2, Kinds
  <2>3. /\ task' \in PagingTask /\ (task'.moved <=> (task.moved \/ moves))
        /\ task'.filters = task.filters
    BY <2>1, DisturbedIs
  <2>4. TasksOK'
    BY <2>3 DEF TasksOK
  <2>5. PagingInv'
    BY <2>1, <2>3 DEF PagingInv
  <2>6. task' \notin BatchTask /\ task' \notin PackTask
    BY <2>3 DEF PagingTask, BatchTask, PackTask
  <2>7. BatchInv' /\ PackInv'
    BY <2>6 DEF BatchInv, PackInv
  <2> QED
    BY <2>4, <2>5, <2>7 DEF IInv
<1>3. CASE task.kind # "paging"
  <2>1. task' = task
    BY <1>3 DEF Disturbed
  <2>2. TasksOK'
    BY <2>1 DEF IInv, TasksOK
  <2>3. task' \notin PagingTask
    BY <1>3, <2>1 DEF PagingTask
  <2>4. PagingInv'
    BY <2>3 DEF PagingInv
  <2>5. BatchIsPrefix <=> BatchIsPrefix'
    BY <2>1 DEF BatchIsPrefix, Current
  <2>6. PackTruthful <=> PackTruthful'
    BY <2>1 DEF PackTruthful
  <2>7. BatchInv'
    BY <2>1, <2>5 DEF IInv, BatchInv
  <2>8. PackInv'
    BY <2>1, <2>6 DEF IInv, PackInv
  <2> QED
    BY <2>2, <2>4, <2>7, <2>8 DEF IInv
<1> QED
  BY <1>2, <1>3

LEMMA Begun ==
  IInv => /\ Memories(rows, now) /\ now \in Nat /\ now \in StartTime..MaxTime
          /\ StartTime \in Nat /\ MaxTime \in Nat /\ remote \in BOOLEAN
          /\ task \in {NoTask} \cup PagingTask \cup BatchTask \cup PackTask
          /\ task \in PagingTask /\ ~task.moved => Paged(task, View(rows, task.filters, now))
BY FacesAssumption DEF IInv, TasksOK, PagingInv

(* A paging that is not moved asks for an order that does not depend on it.*)
LEMMA OrderedIs ==
  ASSUME task \in PagingTask
  PROVE  /\ Filtered \in BOOLEAN /\ (Filtered <=> ~task.filters.dead)
         /\ Weighed \in BOOLEAN
         /\ \A by : Ordered(by) \in BOOLEAN /\ (Ordered(by) <=> task.filters.order \in by)
BY DEF Filtered, Weighed, Ordered, PagingTask

LEMMA Truths ==
  /\ Filtered \in BOOLEAN /\ Weighed \in BOOLEAN /\ \A by : Ordered(by) \in BOOLEAN
BY DEF Filtered, Weighed, Ordered

LEMMA TickInv == IInv /\ Tick => IInv'
<1> SUFFICES ASSUME IInv, Tick
             PROVE  IInv'
  OBVIOUS
<1> DEFINE moves == Filtered \/ Ordered({"relevance"})
<1>1. /\ now' = now + 1 /\ now < MaxTime /\ rows' = rows /\ remote' = remote
      /\ task' = Disturbed(moves, FALSE)
  BY DEF Tick, Changes
<1>2. Memories(rows, now) /\ now \in Nat
  BY Begun
<1>3. Memories(rows', now') /\ now' \in StartTime..MaxTime
  BY <1>1, <1>2, Begun, TickIs
<1>4. moves \in BOOLEAN
  BY Truths
<1>5. ASSUME task \in PagingTask, ~task.moved, ~moves
      PROVE  Paged(task', View(rows', task.filters, now'))
  <2>1. FilterOK(task.filters) /\ task.filters.dead /\ task.filters.order # "relevance"
    BY <1>5, PagingFields, OrderedIs
  <2>2. View(rows', task.filters, now') = View(rows, task.filters, now)
    BY <1>1, <1>2, <2>1, TickIs
  <2> DEFINE W == View(rows, task.filters, now)
  <2>3. Paged(task, W)
    BY <1>5, Begun
  <2> HIDE DEF moves, W
  <2>4. /\ task.grown => task'.grown
        /\ task'.state = task.state /\ task'.offset = task.offset /\ task'.shown = task.shown
        /\ task'.sure = task.sure /\ task'.possible = task.possible
    BY <1>1, <1>4, <1>5, DisturbedIs
  <2>5. Paged(task', W)
    BY <2>3, <2>4, PagedSame
  <2> QED
    BY <2>2, <2>5 DEF W
<1> HIDE DEF moves
<1> QED
  BY <1>1, <1>3, <1>4, <1>5, Undisturbed

LEMMA ReadInv == ASSUME IInv, NEW id \in Ids, Read(id) PROVE IInv'
<1> DEFINE moves == Ordered({"relevance", "reads_asc", "reads_desc"})
<1>1. /\ Known(id) /\ rows' = WithRead(id) /\ now' = now /\ remote' = remote
      /\ task' = Disturbed(moves, FALSE)
  BY DEF Read, Changes
<1>2. Memories(rows, now) /\ now \in Nat
  BY Begun
<1>3. Memories(rows', now') /\ now' \in StartTime..MaxTime
  BY <1>1, <1>2, Begun, ReadIs
<1>4. moves \in BOOLEAN
  BY Truths
<1>5. ASSUME task \in PagingTask, ~task.moved, ~moves
      PROVE  Paged(task', View(rows', task.filters, now'))
  <2>1. FilterOK(task.filters) /\ task.filters.order \notin {"relevance", "reads_asc", "reads_desc"}
    BY <1>5, PagingFields, OrderedIs
  <2>2. View(rows', task.filters, now') = View(rows, task.filters, now)
    BY <1>1, <1>2, <2>1, ReadIs
  <2> DEFINE W == View(rows, task.filters, now)
  <2>3. Paged(task, W)
    BY <1>5, Begun
  <2> HIDE DEF moves, W
  <2>4. /\ task.grown => task'.grown
        /\ task'.state = task.state /\ task'.offset = task.offset /\ task'.shown = task.shown
        /\ task'.sure = task.sure /\ task'.possible = task.possible
    BY <1>1, <1>4, <1>5, DisturbedIs
  <2>5. Paged(task', W)
    BY <2>3, <2>4, PagedSame
  <2> QED
    BY <2>2, <2>5 DEF W
<1> HIDE DEF moves
<1> QED
  BY <1>1, <1>3, <1>4, <1>5, Begun, Undisturbed

LEMMA VoteInv == ASSUME IInv, NEW id \in Ids, NEW up \in BOOLEAN, Vote(id, up) PROVE IInv'
<1> DEFINE moves == Ordered({"relevance", "rating_asc", "rating_desc"})
<1>1. /\ Known(id) /\ rows' = WithVote(id, up) /\ now' = now /\ remote' = remote
      /\ task' = Disturbed(moves, FALSE)
  BY DEF Vote, Changes, Rateable
<1>2. Memories(rows, now) /\ now \in Nat
  BY Begun
<1>3. Memories(rows', now') /\ now' \in StartTime..MaxTime
  BY <1>1, <1>2, Begun, VoteIs
<1>4. moves \in BOOLEAN
  BY Truths
<1>5. ASSUME task \in PagingTask, ~task.moved, ~moves
      PROVE  Paged(task', View(rows', task.filters, now'))
  <2>1. FilterOK(task.filters) /\ task.filters.order \notin {"relevance", "rating_asc", "rating_desc"}
    BY <1>5, PagingFields, OrderedIs
  <2>2. View(rows', task.filters, now') = View(rows, task.filters, now)
    BY <1>1, <1>2, <2>1, VoteIs
  <2> DEFINE W == View(rows, task.filters, now)
  <2>3. Paged(task, W)
    BY <1>5, Begun
  <2> HIDE DEF moves, W
  <2>4. /\ task.grown => task'.grown
        /\ task'.state = task.state /\ task'.offset = task.offset /\ task'.shown = task.shown
        /\ task'.sure = task.sure /\ task'.possible = task.possible
    BY <1>1, <1>4, <1>5, DisturbedIs
  <2>5. Paged(task', W)
    BY <2>3, <2>4, PagedSame
  <2> QED
    BY <2>2, <2>5 DEF W
<1> HIDE DEF moves
<1> QED
  BY <1>1, <1>3, <1>4, <1>5, Begun, Undisturbed

LEMMA DeleteInv == ASSUME IInv, NEW id \in Ids, Delete(id) PROVE IInv'
<1>1. /\ rows' = rows \ {Get(id)} /\ now' = now /\ remote' = remote
      /\ task' = Disturbed(TRUE, FALSE)
  BY DEF Delete, Changes
<1>2. Memories(rows, now) /\ now \in StartTime..MaxTime
  BY Begun
<1>3. Memories(rows', now') /\ now' \in StartTime..MaxTime
  <2>1. IsFiniteSet(rows')
    BY <1>1, <1>2, FS_RemoveElement DEF Memories
  <2> QED
    BY <1>1, <1>2, <2>1 DEF Memories
<1> QED
  BY <1>1, <1>3, Undisturbed

LEMMA StoreInv ==
  ASSUME IInv, NEW id \in Ids, NEW form \in Forms, NEW supersedes \in Ids \cup {NoId},
         Store(id, form, supersedes)
  PROVE  IInv'
<1> DEFINE new == [pk |-> NextPk, id |-> id, keywords |-> form.keywords, words |-> form.words,
                   up |-> 0, down |-> 0, reads |-> 0, created |-> now,
                   expires |-> now + form.lifetime, superseded |-> FALSE]
           moves == Weighed \/ (supersedes # NoId /\ Filtered)
<1>1. /\ ~Known(id) /\ (supersedes = NoId \/ Rateable(supersedes))
      /\ rows' = Kept(supersedes) \cup {new} /\ now' = now /\ remote' = remote
      /\ task' = Disturbed(moves, TRUE)
  BY DEF Store, Changes, Kept
<1>2. Memories(rows, now) /\ now \in Nat /\ now \in StartTime..MaxTime
  BY Begun
<1>3. NextPk \in Nat /\ \A r \in rows : r.pk # NextPk
  BY <1>2, NextPkIs
<1>4. new \in Row /\ new.created = now /\ new.pk = NextPk /\ new.id = id
  <2>1. /\ form.keywords \in SUBSET Terms /\ form.words \in SUBSET Terms /\ form.lifetime \in Nat
    BY FacesAssumption
  <2>2. now + form.lifetime \in Nat
    BY <1>2, <2>1
  <2> QED
    BY <1>2, <1>3, <2>1, <2>2 DEF Row
<1> HIDE DEF new
<1>5. /\ Memories(Kept(supersedes), now)
      /\ \A r \in Kept(supersedes) : \E s \in rows : r.id = s.id /\ r.pk = s.pk
  BY <1>1, <1>2, KeptIs
<1>6. \A r \in Kept(supersedes) : r.pk # new.pk /\ r.id # new.id
  BY <1>1, <1>3, <1>4, <1>5 DEF Known
<1>7. Memories(rows', now') /\ now' \in StartTime..MaxTime
  <2>1. now <= now
    BY <1>2
  <2>2. Memories(Kept(supersedes) \cup {new}, now)
    BY <1>2, <1>4, <1>5, <1>6, <2>1, MemoriesAdded
  <2> QED
    BY <1>1, <1>2, <2>2
<1>8. moves \in BOOLEAN
  BY Truths
<1>9. ASSUME task \in PagingTask, ~task.moved, ~moves
      PROVE  Paged(task', View(rows', task.filters, now'))
  <2> DEFINE f == task.filters
             W == View(rows, f, now)
             x == Look(new, Corpus(Kept(supersedes)), f, now)
  <2>1. /\ FilterOK(f) /\ (supersedes = NoId \/ f.dead)
        /\ f.order # "relevance" \/ f.query = {}
    BY <1>9, PagingFields, OrderedIs DEF Weighed
  <2>2. View(Kept(supersedes), f, now) = W
    BY <1>1, <1>2, <2>1, KeptIs
  <2>3. Paged(task, W)
    BY <1>9, Begun
  <2>4. /\ task' \in PagingTask /\ task'.grown
        /\ task'.state = task.state /\ task'.offset = task.offset /\ task'.shown = task.shown
        /\ task'.sure = task.sure /\ task'.possible = task.possible
    <3> HIDE DEF moves
    <3> QED
      BY <1>1, <1>8, <1>9, DisturbedIs
  <2>5. View(rows', f, now') = W \/ View(rows', f, now') = W \cup {x}
    BY <1>1, <2>1, <2>2, ViewAdded
  <2>6. Ranked(View(rows', f, now')) /\ Ranked(W)
    BY <1>1, <1>2, <1>7, <2>1, ViewRanked
  <2> HIDE DEF f, W, x, moves
  <2>7. CASE View(rows', f, now') = W
    <3>1. Paged(task', W)
      BY <2>3, <2>4, PagedSame
    <3> QED
      BY <2>7, <3>1 DEF f
  <2>8. CASE View(rows', f, now') = W \cup {x}
    <3>1. Paged(task', W \cup {x})
      BY <1>9, <2>3, <2>4, <2>6, <2>8, PagedGrows
    <3> QED
      BY <2>8, <3>1 DEF f
  <2> QED
    BY <2>5, <2>7, <2>8
<1> HIDE DEF moves
<1> QED
  BY <1>1, <1>7, <1>8, <1>9, Undisturbed

-----------------------------------------------------------------------------
(* The commands: they go on as they are.                                   *)
LEMMA PagingGoesOn ==
  ASSUME Memories(rows', now'), now' \in StartTime..MaxTime, remote' \in BOOLEAN,
         task' \in PagingTask, ~task'.moved => Paged(task', View(rows', task'.filters, now'))
  PROVE  IInv'
<1>1. task' \notin BatchTask /\ task' \notin PackTask
  BY DEF PagingTask, BatchTask, PackTask
<1> QED
  BY <1>1 DEF IInv, TasksOK, PagingInv, BatchInv, PackInv

LEMMA BatchGoesOn ==
  ASSUME Memories(rows', now'), now' \in StartTime..MaxTime, remote' \in BOOLEAN,
         task' \in BatchTask, Counted(task'), BatchIsPrefix'
  PROVE  IInv'
<1>1. task' \notin PagingTask /\ task' \notin PackTask
  BY DEF PagingTask, BatchTask, PackTask
<1> QED
  BY <1>1 DEF IInv, TasksOK, PagingInv, BatchInv, PackInv

LEMMA PackGoesOn ==
  ASSUME Memories(rows', now'), now' \in StartTime..MaxTime, remote' \in BOOLEAN,
         task' \in PackTask, PackTruthful',
         task'.state # "searching" /\ Len(task'.candidates) < RecallLimit =>
           task'.sure \subseteq {r.id : r \in ToSet(task'.candidates)}
  PROVE  IInv'
<1>1. task' \notin PagingTask /\ task' \notin BatchTask
  BY DEF PagingTask, BatchTask, PackTask
<1> QED
  BY <1>1 DEF IInv, TasksOK, PagingInv, BatchInv, PackInv

LEMMA StartPagingInv == ASSUME IInv, NEW f \in Searches, StartPaging(f) PROVE IInv'
<1> DEFINE W == View(rows, f, now)
           p == [kind |-> "paging", state |-> "running", filters |-> f, offset |-> 0,
                 shown |-> <<>>, sure |-> Sure(f), possible |-> Possible(f),
                 moved |-> FALSE, grown |-> FALSE]
<1>1. task' = p /\ rows' = rows /\ now' = now /\ remote' = remote
  BY DEF StartPaging, Starts
<1>2. Memories(rows, now) /\ now \in Nat /\ now \in StartTime..MaxTime /\ remote \in BOOLEAN
  BY Begun
<1>3. FilterOK(f)
  BY FacesAssumption DEF FilterOK
<1>4. \A r \in rows : r.id \in Ids
  BY <1>2 DEF Memories, Row
<1>5. Sure(f) \subseteq Ids /\ Possible(f) \subseteq Ids
  BY <1>4 DEF Sure, Possible
<1>6. p \in PagingTask
  BY <1>5 DEF PagingTask
<1>7. /\ p.state = "running" /\ p.offset = 0 /\ p.shown = <<>> /\ p.sure = Sure(f)
      /\ p.possible = Possible(f) /\ p.filters = f /\ Len(p.shown) = 0
  OBVIOUS
<1>8. Ranked(W)
  BY <1>2, <1>3, ViewRanked
<1>9. /\ \A id \in Sure(f) : \E w \in W : w.id = id
      /\ \A w \in W : w.id \in Possible(f)
  BY <1>2, <1>3, SureFound
<1> HIDE DEF W, p
<1>10. Cardinality(W) \in Nat
  BY <1>8, ViewBounded
<1>11. \A w \in W : ~(Place(W, w) <= 0)
  BY <1>8, Aboves
<1>12. Paged(p, W)
  BY <1>7, <1>9, <1>10, <1>11 DEF Paged
<1>13. Paged(task', View(rows', task'.filters, now'))
  BY <1>1, <1>7, <1>12 DEF W
<1> QED
  BY <1>1, <1>2, <1>6, <1>13, PagingGoesOn

LEMMA StartBatchInv ==
  ASSUME IInv, NEW verb \in {"get", "up", "down"}, NEW ids \in Batches, StartBatch(verb, ids)
  PROVE  IInv'
<1> DEFINE b == [kind |-> "batch", state |-> "running", verb |-> verb, ids |-> ids,
                 answered |-> 0, failed |-> FALSE, made |-> [id \in Ids |-> 0]]
<1>1. task' = b /\ rows' = rows /\ now' = now /\ remote' = remote
  BY DEF StartBatch, Starts
<1>2. Memories(rows, now) /\ now \in StartTime..MaxTime /\ remote \in BOOLEAN
  BY Begun
<1>3. b \in BatchTask
  BY DEF BatchTask
<1>4. /\ b.state = "running" /\ b.answered = 0 /\ b.ids = ids /\ b.failed = FALSE
      /\ \A id \in Ids : b.made[id] = 0
  OBVIOUS
<1>5. Len(ids) \in Nat /\ Len(ids) > 0
  BY FacesAssumption
<1> HIDE DEF b
<1>6. Counted(b)
  BY <1>4, <1>5 DEF Counted
<1>7. \A id : Cardinality({i \in 1..b.answered : b.ids[i] = id}) = 0
  <2>1. \A id : {i \in 1..b.answered : b.ids[i] = id} = {}
    BY <1>4
  <2> QED
    BY <2>1, FS_EmptySet
<1>8. BatchIsPrefix'
  BY <1>1, <1>4, <1>7 DEF BatchIsPrefix
<1> QED
  BY <1>1, <1>2, <1>3, <1>6, <1>8, BatchGoesOn

LEMMA StartPackInv == ASSUME IInv, NEW args \in Packs, StartPack(args) PROVE IInv'
<1> DEFINE p == [kind |-> "pack", state |-> "searching", args |-> args, candidates |-> <<>>,
                 sure |-> {}, present |-> {}, entries |-> <<>>]
<1>1. task' = p /\ rows' = rows /\ now' = now /\ remote' = remote
  BY DEF StartPack, Starts
<1>2. Memories(rows, now) /\ now \in StartTime..MaxTime /\ remote \in BOOLEAN
  BY Begun
<1>3. p \in PackTask /\ p.state = "searching"
  BY DEF PackTask
<1> HIDE DEF p
<1>4. PackTruthful'
  BY <1>1, <1>3 DEF PackTruthful
<1> QED
  BY <1>1, <1>2, <1>3, <1>4, PackGoesOn

-----------------------------------------------------------------------------
(* get and rate, one id after another.                                     *)
Calls(b, id) == Cardinality({i \in 1..b.answered : b.ids[i] = id})

LEMMA BatchFields ==
  ASSUME NEW b \in BatchTask
  PROVE  /\ b.kind = "batch" /\ b.state \in {"running", "done"} /\ b.verb \in {"get", "up", "down"}
         /\ b.ids \in Seq(Ids) /\ Len(b.ids) \in Nat /\ b.answered \in Nat /\ b.failed \in BOOLEAN
         /\ b.made \in [Ids -> Nat] /\ \A id \in Ids : b.made[id] \in Nat /\ Calls(b, id) \in Nat
<1>1. /\ b.kind = "batch" /\ b.state \in {"running", "done"} /\ b.verb \in {"get", "up", "down"}
      /\ b.ids \in Batches /\ b.answered \in Nat /\ b.failed \in BOOLEAN
      /\ b.made \in [Ids -> Nat]
  BY DEF BatchTask
<1>2. b.ids \in Seq(Ids) /\ Len(b.ids) \in Nat
  BY <1>1, FacesAssumption
<1>3. \A id : Calls(b, id) \in Nat
  <2> SUFFICES ASSUME NEW id
               PROVE  Calls(b, id) \in Nat
    OBVIOUS
  <2>1. IsFiniteSet(1..b.answered)
    BY <1>1, FS_Interval
  <2>2. IsFiniteSet({i \in 1..b.answered : b.ids[i] = id})
    BY <2>1, FS_Subset
  <2> QED
    BY <2>2, FS_CardinalityType DEF Calls
<1> QED
  BY <1>1, <1>2, <1>3

LEMMA MadeIs ==
  ASSUME task \in BatchTask, Current \in Ids, NEW q, q = [task EXCEPT !.made = Made]
  PROVE  /\ q \in BatchTask
         /\ q.state = task.state /\ q.verb = task.verb /\ q.ids = task.ids
         /\ q.answered = task.answered /\ q.failed = task.failed
         /\ \A id \in Ids : q.made[id] = IF id = Current THEN task.made[id] + 1 ELSE task.made[id]
<1> DEFINE m == Made
<1>1. /\ m \in [Ids -> Nat]
      /\ \A id \in Ids : m[id] = IF id = Current THEN task.made[id] + 1 ELSE task.made[id]
  BY DEF Made, BatchTask
<1>2. q = [task EXCEPT !.made = m]
  OBVIOUS
<1> HIDE DEF m
<1>3. /\ q \in BatchTask /\ q.made = m
      /\ q.state = task.state /\ q.verb = task.verb /\ q.ids = task.ids
      /\ q.answered = task.answered /\ q.failed = task.failed
  BY <1>1, <1>2 DEF BatchTask
<1> QED
  BY <1>1, <1>3

LEMMA AnsweredIs ==
  ASSUME task \in BatchTask, NEW p \in BatchTask, NEW q, q = Answered(p)
  PROVE  /\ q \in BatchTask
         /\ q.answered = p.answered + 1
         /\ q.state = "running" => task.answered + 1 # Len(task.ids)
         /\ q.state = "done" => task.answered + 1 = Len(task.ids)
         /\ q.verb = p.verb /\ q.ids = p.ids /\ q.failed = p.failed /\ q.made = p.made
<1> DEFINE n == p.answered + 1
           s == IF task.answered + 1 = Len(task.ids) THEN "done" ELSE "running"
<1>1. /\ n \in Nat /\ s \in {"running", "done"}
      /\ s = "running" => task.answered + 1 # Len(task.ids)
      /\ s = "done" => task.answered + 1 = Len(task.ids)
  BY DEF BatchTask
<1>2. q = [p EXCEPT !.answered = n, !.state = s]
  BY DEF Answered
<1> HIDE DEF n, s
<1>3. /\ q \in BatchTask /\ q.answered = n /\ q.state = s
      /\ q.verb = p.verb /\ q.ids = p.ids /\ q.failed = p.failed /\ q.made = p.made
  BY <1>1, <1>2 DEF BatchTask
<1> QED
  BY <1>1, <1>3 DEF n

LEMMA StoppedIs ==
  ASSUME NEW p \in BatchTask, NEW q, q = Stopped(p)
  PROVE  /\ q \in BatchTask /\ q.failed = TRUE /\ q.state = "done"
         /\ q.answered = p.answered /\ q.verb = p.verb /\ q.ids = p.ids /\ q.made = p.made
<1>1. \A b \in BOOLEAN : LET r == [p EXCEPT !.failed = b, !.state = "done"]
                         IN  /\ r \in BatchTask /\ r.failed = b /\ r.state = "done"
                             /\ r.answered = p.answered /\ r.verb = p.verb /\ r.ids = p.ids
                             /\ r.made = p.made
  BY DEF BatchTask
<1>2. TRUE \in BOOLEAN
  OBVIOUS
<1> QED
  BY <1>1, <1>2 DEF Stopped

(* What has been called so far.                                            *)
LEMMA CallsGrow ==
  ASSUME NEW p \in BatchTask, NEW q \in BatchTask, q.ids = p.ids, q.answered = p.answered + 1,
         NEW id \in Ids
  PROVE  Calls(q, id) = IF p.ids[p.answered + 1] = id THEN Calls(p, id) + 1 ELSE Calls(p, id)
<1> DEFINE n == p.answered
           S == {i \in 1..n : p.ids[i] = id}
           T == {i \in 1..n + 1 : p.ids[i] = id}
<1>1. n \in Nat
  BY BatchFields
<1>2. IsFiniteSet(S)
  <2>1. IsFiniteSet(1..n)
    BY <1>1, FS_Interval
  <2> QED
    BY <2>1, FS_Subset
<1>3. Calls(q, id) = Cardinality(T) /\ Calls(p, id) = Cardinality(S)
  BY DEF Calls
<1>4. n + 1 \notin S
  BY <1>1
<1>5. 1..n + 1 = (1..n) \cup {n + 1}
  BY <1>1
<1>6. T = IF p.ids[n + 1] = id THEN S \cup {n + 1} ELSE S
  <2> HIDE DEF n
  <2> QED
    BY <1>5
<1> HIDE DEF S, T
<1>7. CASE p.ids[n + 1] = id
  <2>1. Cardinality(S \cup {n + 1}) = Cardinality(S) + 1
    BY <1>2, <1>4, FS_AddElement
  <2> QED
    BY <1>3, <1>6, <1>7, <2>1
<1>8. CASE p.ids[n + 1] # id
  BY <1>3, <1>6, <1>8
<1> QED
  BY <1>7, <1>8

LEMMA CallingIs ==
  ASSUME IInv, Calling
  PROVE  /\ task \in BatchTask /\ task.answered \in Nat /\ Len(task.ids) \in Nat
         /\ ~task.failed /\ task.answered < Len(task.ids) /\ Current \in Ids
         /\ \A id \in Ids : /\ task.made[id] \in Nat /\ Calls(task, id) \in Nat
                            /\ task.made[id] <= Calls(task, id)
                            /\ task.verb # "get" => task.made[id] >= Calls(task, id)
<1>1. task \in BatchTask
  BY Begun, Kinds DEF Calling
<1>2. Counted(task) /\ BatchIsPrefix
  BY <1>1 DEF IInv, BatchInv
<1>3. /\ task.answered \in Nat /\ task.ids \in Seq(Ids) /\ Len(task.ids) \in Nat
      /\ \A id \in Ids : task.made[id] \in Nat /\ Calls(task, id) \in Nat
  BY <1>1, BatchFields
<1>4. ~task.failed /\ task.answered < Len(task.ids)
  BY <1>2 DEF Counted, Calling
<1>5. Current \in Ids
  <2>1. task.answered + 1 \in 1..Len(task.ids)
    BY <1>3, <1>4
  <2> QED
    BY <1>3, <2>1 DEF Current
<1>6. ASSUME NEW id \in Ids
      PROVE  /\ task.made[id] <= Calls(task, id)
             /\ task.verb # "get" => task.made[id] >= Calls(task, id)
  <2>1. /\ task.verb # "get" => task.made[id] >= Calls(task, id)
        /\ task.made[id] <= Calls(task, id) + 0
    BY <1>1, <1>2, <1>4 DEF BatchIsPrefix, Calls, BatchTask
  <2> QED
    BY <1>3, <2>1
<1> QED
  BY <1>1, <1>3, <1>4, <1>5, <1>6

LEMMA EffectIs == IInv /\ Allowed => Memories(Effect, now)
<1> SUFFICES ASSUME IInv, Allowed
             PROVE  Memories(Effect, now)
  OBVIOUS
<1>1. Known(Current)
  BY DEF Allowed, Rateable
<1>2. (task.verb = "up") \in BOOLEAN
  OBVIOUS
<1>3. Memories(WithRead(Current), now) /\ Memories(WithVote(Current, task.verb = "up"), now)
  BY <1>1, <1>2, Begun, ReadIs, VoteIs
<1> QED
  BY <1>3 DEF Effect

LEMMA PrefixIs ==
  ASSUME task' \in BatchTask,
         task'.state = "done" /\ ~task'.failed => task'.answered = Len(task'.ids),
         \A id \in Ids :
           /\ task'.verb # "get" => task'.made[id] >= Calls(task', id)
           /\ \/ task'.made[id] <= Calls(task', id)
              \/ /\ task'.failed /\ remote' /\ task'.answered < Len(task'.ids) /\ Current' = id
                 /\ task'.made[id] <= Calls(task', id) + 1
  PROVE  BatchIsPrefix'
<1> SUFFICES ASSUME NEW id \in Ids
             PROVE  LET lost == IF task'.failed /\ remote' /\ task'.answered < Len(task'.ids)
                                   /\ Current' = id THEN 1 ELSE 0
                    IN  /\ task'.verb # "get" => task'.made[id] >= Calls(task', id)
                        /\ task'.made[id] <= Calls(task', id) + lost
  BY DEF BatchIsPrefix, Calls
<1>1. task'.made[id] \in Nat /\ Calls(task', id) \in Nat
  BY BatchFields
<1> QED
  BY <1>1

LEMMA CallSucceedsInv == IInv /\ CallSucceeds => IInv'
<1> SUFFICES ASSUME IInv, CallSucceeds
             PROVE  IInv'
  OBVIOUS
<1> DEFINE p == [task EXCEPT !.made = Made]
<1>1. /\ Calling /\ Allowed /\ rows' = Effect /\ task' = Answered(p)
      /\ now' = now /\ remote' = remote
  BY DEF CallSucceeds, Continues
<1>2. /\ p \in BatchTask
      /\ p.state = task.state /\ p.verb = task.verb /\ p.ids = task.ids
      /\ p.answered = task.answered /\ p.failed = task.failed
      /\ \A id \in Ids : p.made[id] = IF id = Current THEN task.made[id] + 1 ELSE task.made[id]
  BY <1>1, CallingIs, MadeIs
<1> HIDE DEF p
<1>3. /\ task' \in BatchTask
      /\ task'.answered = p.answered + 1
      /\ task'.state = "running" => task.answered + 1 # Len(task.ids)
      /\ task'.state = "done" => task.answered + 1 = Len(task.ids)
      /\ task'.verb = p.verb /\ task'.ids = p.ids /\ task'.failed = p.failed /\ task'.made = p.made
  BY <1>1, <1>2, CallingIs, AnsweredIs
<1>4. /\ task \in BatchTask /\ task.answered \in Nat /\ Len(task.ids) \in Nat
      /\ ~task.failed /\ task.answered < Len(task.ids)
  BY <1>1, CallingIs
<1>5. Counted(task')
  BY <1>2, <1>3, <1>4 DEF Counted
<1>6. ASSUME NEW id \in Ids
      PROVE  /\ task'.verb # "get" => task'.made[id] >= Calls(task', id)
             /\ task'.made[id] <= Calls(task', id)
  <2>1. Calls(task', id) = IF Current = id THEN Calls(task, id) + 1 ELSE Calls(task, id)
    BY <1>2, <1>3, <1>4, CallsGrow DEF Current
  <2>2. task'.made[id] = IF id = Current THEN task.made[id] + 1 ELSE task.made[id]
    BY <1>2, <1>3
  <2>3. /\ task.made[id] \in Nat /\ Calls(task, id) \in Nat
        /\ task.made[id] <= Calls(task, id)
        /\ task.verb # "get" => task.made[id] >= Calls(task, id)
    BY <1>1, CallingIs
  <2> QED
    BY <1>2, <1>3, <2>1, <2>2, <2>3
<1>7. BatchIsPrefix'
  <2>1. task'.state = "done" => task'.answered = Len(task'.ids)
    BY <1>2, <1>3
  <2> QED
    BY <1>3, <1>6, <2>1, PrefixIs
<1>8. Memories(rows', now') /\ now' \in StartTime..MaxTime /\ remote' \in BOOLEAN
  BY <1>1, Begun, EffectIs
<1> QED
  BY <1>3, <1>5, <1>7, <1>8, BatchGoesOn

LEMMA BumpFailsInv == IInv /\ BumpFails => IInv'
<1> SUFFICES ASSUME IInv, BumpFails
             PROVE  IInv'
  OBVIOUS
<1>1. /\ Calling /\ rows' = rows /\ task' = Answered(task) /\ task.verb = "get"
      /\ now' = now /\ remote' = remote
  BY DEF BumpFails, Continues
<1>2. /\ task \in BatchTask /\ task.answered \in Nat /\ Len(task.ids) \in Nat
      /\ ~task.failed /\ task.answered < Len(task.ids)
  BY <1>1, CallingIs
<1>3. /\ task' \in BatchTask
      /\ task'.answered = task.answered + 1
      /\ task'.state = "running" => task.answered + 1 # Len(task.ids)
      /\ task'.state = "done" => task.answered + 1 = Len(task.ids)
      /\ task'.verb = task.verb /\ task'.ids = task.ids /\ task'.failed = task.failed
      /\ task'.made = task.made
  BY <1>1, <1>2, AnsweredIs
<1>4. Counted(task')
  BY <1>2, <1>3 DEF Counted
<1>5. ASSUME NEW id \in Ids
      PROVE  task'.made[id] <= Calls(task', id)
  <2>1. Calls(task', id) = IF Current = id THEN Calls(task, id) + 1 ELSE Calls(task, id)
    BY <1>2, <1>3, CallsGrow DEF Current
  <2>2. task.made[id] \in Nat /\ Calls(task, id) \in Nat /\ task.made[id] <= Calls(task, id)
    BY <1>1, CallingIs
  <2> QED
    BY <1>3, <2>1, <2>2
<1>6. BatchIsPrefix'
  <2>1. task'.state = "done" => task'.answered = Len(task'.ids)
    BY <1>3
  <2> QED
    BY <1>1, <1>3, <1>5, <2>1, PrefixIs
<1>7. Memories(rows', now') /\ now' \in StartTime..MaxTime /\ remote' \in BOOLEAN
  BY <1>1, Begun
<1> QED
  BY <1>3, <1>4, <1>6, <1>7, BatchGoesOn

LEMMA CallFailsInv == IInv /\ CallFails => IInv'
<1> SUFFICES ASSUME IInv, CallFails
             PROVE  IInv'
  OBVIOUS
<1>1. Calling /\ rows' = rows /\ task' = Stopped(task) /\ now' = now /\ remote' = remote
  BY DEF CallFails, Continues
<1>2. /\ task \in BatchTask /\ task.answered \in Nat /\ Len(task.ids) \in Nat
      /\ task.answered < Len(task.ids)
  BY <1>1, CallingIs
<1>3. /\ task' \in BatchTask /\ task'.failed = TRUE /\ task'.state = "done"
      /\ task'.answered = task.answered /\ task'.verb = task.verb /\ task'.ids = task.ids
      /\ task'.made = task.made
  BY <1>1, <1>2, StoppedIs
<1>4. Counted(task')
  BY <1>2, <1>3 DEF Counted
<1>5. \A id \in Ids : Calls(task', id) = Calls(task, id)
  BY <1>3 DEF Calls
<1>6. \A id \in Ids : /\ task'.verb # "get" => task'.made[id] >= Calls(task', id)
                      /\ task'.made[id] <= Calls(task', id)
  BY <1>1, <1>3, <1>5, CallingIs
<1>7. BatchIsPrefix'
  BY <1>3, <1>6, PrefixIs
<1>8. Memories(rows', now') /\ now' \in StartTime..MaxTime /\ remote' \in BOOLEAN
  BY <1>1, Begun
<1> QED
  BY <1>3, <1>4, <1>7, <1>8, BatchGoesOn

LEMMA AnswerLostInv == IInv /\ AnswerLost => IInv'
<1> SUFFICES ASSUME IInv, AnswerLost
             PROVE  IInv'
  OBVIOUS
<1> DEFINE p == [task EXCEPT !.made = Made]
<1>1. /\ Calling /\ Allowed /\ remote /\ rows' = Effect /\ task' = Stopped(p)
      /\ now' = now /\ remote' = remote
  BY DEF AnswerLost, Continues
<1>2. /\ p \in BatchTask
      /\ p.state = task.state /\ p.verb = task.verb /\ p.ids = task.ids
      /\ p.answered = task.answered /\ p.failed = task.failed
      /\ \A id \in Ids : p.made[id] = IF id = Current THEN task.made[id] + 1 ELSE task.made[id]
  BY <1>1, CallingIs, MadeIs
<1> HIDE DEF p
<1>3. /\ task' \in BatchTask /\ task'.failed = TRUE /\ task'.state = "done"
      /\ task'.answered = p.answered /\ task'.verb = p.verb /\ task'.ids = p.ids
      /\ task'.made = p.made
  BY <1>1, <1>2, StoppedIs
<1>4. task.answered \in Nat /\ Len(task.ids) \in Nat /\ task.answered < Len(task.ids)
  BY <1>1, CallingIs
<1>5. Counted(task')
  BY <1>2, <1>3, <1>4 DEF Counted
<1>6. /\ Current' = Current /\ task'.answered < Len(task'.ids)
      /\ \A id \in Ids : Calls(task', id) = Calls(task, id)
  BY <1>2, <1>3, <1>4 DEF Current, Calls
<1>7. ASSUME NEW id \in Ids
      PROVE  /\ task'.verb # "get" => task'.made[id] >= Calls(task', id)
             /\ \/ task'.made[id] <= Calls(task', id)
                \/ Current' = id /\ task'.made[id] <= Calls(task', id) + 1
  <2>1. task'.made[id] = IF id = Current THEN task.made[id] + 1 ELSE task.made[id]
    BY <1>2, <1>3
  <2>2. /\ task.made[id] \in Nat /\ Calls(task, id) \in Nat
        /\ task.made[id] <= Calls(task, id)
        /\ task.verb # "get" => task.made[id] >= Calls(task, id)
    BY <1>1, CallingIs
  <2> QED
    BY <1>2, <1>3, <1>6, <2>1, <2>2
<1>8. BatchIsPrefix'
  <2>1. remote' /\ task'.failed
    BY <1>1, <1>3
  <2>2. \A id \in Ids :
          /\ task'.verb # "get" => task'.made[id] >= Calls(task', id)
          /\ \/ task'.made[id] <= Calls(task', id)
             \/ /\ task'.failed /\ remote' /\ task'.answered < Len(task'.ids) /\ Current' = id
                /\ task'.made[id] <= Calls(task', id) + 1
    BY <1>6, <1>7, <2>1
  <2> QED
    BY <1>3, <2>2, PrefixIs
<1>9. Memories(rows', now') /\ now' \in StartTime..MaxTime /\ remote' \in BOOLEAN
  BY <1>1, Begun, EffectIs
<1> QED
  BY <1>3, <1>5, <1>8, <1>9, BatchGoesOn

-----------------------------------------------------------------------------
(* The candidates of a recall, and what it makes of them.                  *)
LEMMA RecalledOK ==
  ASSUME NEW args \in Packs
  PROVE  /\ FilterOK(Recalled(args)) /\ Limited(Recalled(args).limit) = RecallLimit
         /\ AtLeast(Recalled(args).offset, 0) = 0
<1>1. args.any \subseteq Terms /\ args.query \subseteq Terms /\ IsFiniteSet(args.any)
  BY FacesAssumption
<1>2. RecallLimit \in 1..MaxLimit /\ MaxLimit \in Nat
  BY SearchAssumption
<1>3. Recalled(args) \in Filters /\ Recalled(args).any = args.any
  BY <1>1, <1>2 DEF Recalled, Filters, Orders
<1>4. Recalled(args).limit = RecallLimit /\ Recalled(args).offset = 0
  BY DEF Recalled
<1> QED
  BY <1>1, <1>2, <1>3, <1>4 DEF FilterOK, Limited, AtMost, AtLeast

LEMMA PackFields ==
  ASSUME NEW p \in PackTask
  PROVE  /\ p.kind = "pack" /\ p.args \in Packs /\ p.args.budget \in Int
         /\ p.candidates \in Seq(Row) /\ p.sure \subseteq Ids /\ p.present \subseteq Ids
         /\ p.entries \in Seq(Ids)
BY FacesAssumption DEF PackTask

LEMMA PackSearchesInv == IInv /\ PackSearches => IInv'
<1> SUFFICES ASSUME IInv, PackSearches
             PROVE  IInv'
  OBVIOUS
<1> DEFINE f == Recalled(task.args)
           W == View(rows, f, now)
           page == Page(rows, f, now)
           candidates == Candidates(rows, task.args.any, task.args.query, now)
           sure == Sure(Recalled(task.args))
<1>1. /\ task.kind = "pack" /\ rows' = rows /\ now' = now /\ remote' = remote
      /\ task' = [task EXCEPT !.state = "reading", !.candidates = candidates, !.sure = sure]
  BY DEF PackSearches, Continues
<1>2. task \in PackTask /\ task.args \in Packs
  BY <1>1, Begun, Kinds, PackFields
<1>3. Memories(rows, now) /\ now \in Nat /\ now \in StartTime..MaxTime /\ remote \in BOOLEAN
  BY Begun
<1>4. FilterOK(f) /\ Limited(f.limit) = RecallLimit /\ AtLeast(f.offset, 0) = 0
  BY <1>2, RecalledOK
<1>5. candidates = page.results
  BY DEF Candidates, Recalled
<1>6. /\ \A id \in sure : \E w \in W : w.id = id
  BY <1>3, <1>4, SureFound
<1>7. sure \subseteq Ids
  BY <1>3 DEF Sure, Memories, Row
<1> HIDE DEF f, candidates, sure
<1>8. /\ candidates \in Seq(Row) /\ Len(candidates) \in Nat /\ Cardinality(W) \in Nat
      /\ 0 < Cardinality(W) => Len(candidates) > 0 /\ 0 + Len(candidates) <= Cardinality(W)
                               /\ (Len(candidates) < RecallLimit =>
                                     0 + Len(candidates) = Cardinality(W))
      /\ \A i \in 1..Len(candidates) : candidates[i].id = At(W, 0 + i).id
  BY <1>3, <1>4, <1>5, PageIs
<1>9. /\ task' \in PackTask /\ task'.state = "reading" /\ task'.candidates = candidates
      /\ task'.sure = sure
  BY <1>1, <1>2, <1>7, <1>8 DEF PackTask
<1>10. ASSUME Len(candidates) < RecallLimit
       PROVE  sure \subseteq {r.id : r \in ToSet(candidates)}
  <2> SUFFICES ASSUME NEW id \in sure
               PROVE  \E i \in 1..Len(candidates) : candidates[i].id = id
    BY <1>8 DEF ToSet
  <2>1. PICK w \in W : w.id = id
    BY <1>6
  <2>2. Ranked(W)
    BY <1>3, <1>4, ViewRanked
  <2> HIDE DEF W
  <2>3. Place(W, w) \in 1..Cardinality(W) /\ At(W, Place(W, w)) = w
    BY <1>8, <2>1, <2>2, Aboves, PlaceAt
  <2>4. Cardinality(W) = Len(candidates)
    BY <1>8, <1>10, <2>3
  <2> DEFINE i == Place(W, w)
  <2>5. i \in 1..Len(candidates) /\ 0 + i = i
    BY <2>3, <2>4
  <2>6. candidates[i].id = id
    BY <1>8, <2>1, <2>3, <2>5
  <2> QED
    BY <2>5, <2>6
<1>11. PackTruthful'
  BY <1>9 DEF PackTruthful
<1> QED
  BY <1>1, <1>3, <1>9, <1>10, <1>11, PackGoesOn

LEMMA PackReadsInv == IInv /\ PackReads => IInv'
<1> SUFFICES ASSUME IInv, PackReads
             PROVE  IInv'
  OBVIOUS
<1> DEFINE present == {r.id : r \in rows}
           asked == task.args.budget
           budget == Budget(IF remote THEN Int32(asked) ELSE asked)
           survivors == Surviving(task.candidates, present)
           entries == Assembled(survivors, budget)
           n == Len(entries)
<1>1. /\ task.kind = "pack" /\ task.state = "reading"
      /\ rows' = rows /\ now' = now /\ remote' = remote
      /\ task' = [task EXCEPT !.state = "done", !.present = present, !.entries = entries]
  BY DEF PackReads, Continues
<1>2. /\ task \in PackTask /\ asked \in Int /\ task.candidates \in Seq(Row)
  BY <1>1, Begun, Kinds, PackFields
<1>3. Memories(rows, now) /\ now \in StartTime..MaxTime /\ remote \in BOOLEAN
  BY Begun
<1>4. present \subseteq Ids
  BY <1>3 DEF Memories, Row
<1>5. survivors \in Seq(Row)
  BY <1>2, SurvivingType
<1>6. /\ budget \in Int
      /\ asked > 0 => budget <= asked
      /\ Int32(asked) = asked => budget = Budget(asked)
  BY <1>2, BudgetIs
<1> HIDE DEF present, budget, survivors
<1>7. /\ entries \in Seq(Ids) /\ n <= Len(survivors)
      /\ \A i \in 1..n : entries[i] = survivors[i].id
      /\ survivors # <<>> => n > 0
      /\ n > 1 => Length(entries) <= budget
      /\ n < Len(survivors) => Length(Append(entries, survivors[n + 1].id)) > budget
  BY <1>5, <1>6, AssembledFits
<1>8. Length(entries) \in Int
  BY <1>7, LengthType
<1> HIDE DEF entries
<1>9. /\ task' \in PackTask /\ task'.state = "done" /\ task'.candidates = task.candidates
      /\ task'.sure = task.sure /\ task'.present = present /\ task'.entries = entries
      /\ task'.args = task.args
  BY <1>1, <1>2, <1>4, <1>7 DEF PackTask
<1>10. Len(task.candidates) < RecallLimit =>
         task.sure \subseteq {r.id : r \in ToSet(task.candidates)}
  BY <1>1, <1>2 DEF IInv, PackInv
<1>11. asked > 0 /\ n > 1 => Length(entries) <= asked
  BY <1>2, <1>6, <1>7, <1>8
<1>12. n < Len(survivors) /\ Int32(asked) = asked =>
         Length(Append(entries, survivors[n + 1].id)) > Budget(asked)
  BY <1>6, <1>7
<1>13. PackTruthful'
  <2> HIDE DEF asked
  <2>1. survivors = Surviving(task'.candidates, task'.present) /\ asked = task'.args.budget
    BY <1>9 DEF survivors, asked
  <2> QED
    BY <1>7, <1>9, <1>10, <1>11, <1>12, <2>1 DEF PackTruthful
<1> QED
  BY <1>1, <1>3, <1>9, <1>10, <1>13, PackGoesOn

-----------------------------------------------------------------------------
(* One page more.                                                          *)
LEMMA PagedOn ==
  ASSUME NEW p \in PagingTask, NEW q \in PagingTask, NEW more \in Seq(Ids), NEW W, Ranked(W),
         Paged(p, W), p.state = "running",
         p.offset < Cardinality(W) => Len(more) > 0 /\ p.offset + Len(more) <= Cardinality(W),
         p.offset >= Cardinality(W) => Len(more) = 0,
         \A i \in 1..Len(more) : /\ p.offset + i \in 1..Cardinality(W)
                                 /\ more[i] = At(W, p.offset + i).id,
         q.offset = p.offset + Len(more), q.shown = p.shown \o more,
         q.sure = p.sure, q.possible = p.possible, q.grown = p.grown,
         Len(more) = 0 => q.state = "done",
         Len(more) > 0 => (q.state = "running" <=> Cardinality(W) > q.offset)
  PROVE  Paged(q, W)
<1> DEFINE n == Cardinality(W)
           o == p.offset
           m == Len(more)
<1>1. /\ n \in Nat /\ o \in Nat /\ m \in Nat /\ p.shown \in Seq(Ids) /\ Len(p.shown) \in Nat
      /\ q.state \in {"running", "done"}
  BY ViewBounded, PagingFields
<1>2. /\ o = 0 \/ o < n
      /\ \A id \in p.sure : \E w \in W : w.id = id
      /\ \A w \in W : w.id \in p.sure /\ Place(W, w) <= o => w.id \in ToSet(p.shown)
  BY DEF Paged
<1>3. /\ Len(q.shown) = Len(p.shown) + m
      /\ \A i \in 1..Len(p.shown) : i \in 1..Len(q.shown) /\ q.shown[i] = p.shown[i]
      /\ \A i \in 1..m : /\ Len(p.shown) + i \in 1..Len(q.shown)
                         /\ q.shown[Len(p.shown) + i] = more[i]
  BY <1>1
<1>4. ToSet(p.shown) \subseteq ToSet(q.shown)
  <2>1. DOMAIN p.shown = 1..Len(p.shown) /\ DOMAIN q.shown = 1..Len(q.shown)
    BY <1>1, PagingFields
  <2> QED
    BY <1>3, <2>1 DEF ToSet
<1>5. ASSUME NEW w \in W, w.id \in p.sure, Place(W, w) <= o + m
      PROVE  w.id \in ToSet(q.shown)
  <2>1. Place(W, w) \in Nat /\ At(W, Place(W, w)) = w
    BY Aboves, PlaceAt
  <2>2. CASE Place(W, w) <= o
    BY <1>2, <1>4, <1>5, <2>2
  <2>3. CASE ~(Place(W, w) <= o)
    <3> DEFINE i == Place(W, w) - o
    <3>1. i \in 1..m /\ o + i = Place(W, w)
      BY <1>1, <1>5, <2>1, <2>3
    <3>2. more[i] = w.id
      BY <2>1, <3>1
    <3>3. /\ Len(p.shown) + i \in 1..Len(q.shown)
          /\ q.shown[Len(p.shown) + i] = w.id
      BY <1>3, <3>1, <3>2
    <3>4. DOMAIN q.shown = 1..Len(q.shown)
      BY PagingFields
    <3> QED
      BY <3>3, <3>4 DEF ToSet
  <2> QED
    BY <2>2, <2>3
<1>6. ASSUME q.state = "done"
      PROVE  q.sure \subseteq ToSet(q.shown)
  <2> SUFFICES ASSUME NEW id \in p.sure
               PROVE  id \in ToSet(q.shown)
    OBVIOUS
  <2>1. PICK w \in W : w.id = id
    BY <1>2
  <2>2. Place(W, w) \in Nat /\ Place(W, w) >= 1 /\ Place(W, w) <= n
    BY Aboves
  <2>3. n <= o + m
    BY <1>1, <1>2, <1>6, <2>2
  <2> QED
    BY <1>1, <1>5, <2>1, <2>2, <2>3
<1>7. ASSUME q.state = "running"
      PROVE  q.offset < n
  BY <1>1, <1>7
<1>8. ASSUME ~q.grown
      PROVE  /\ Len(q.shown) = q.offset /\ q.offset <= n
             /\ \A i \in 1..q.offset : q.shown[i] = At(W, i).id
             /\ \A w \in W : w.id \in q.possible
  <2>1. /\ Len(p.shown) = o /\ o <= n /\ \A i \in 1..o : p.shown[i] = At(W, i).id
        /\ \A w \in W : w.id \in p.possible
    BY <1>8 DEF Paged
  <2>2. Len(q.shown) = q.offset /\ q.offset <= n
    BY <1>1, <1>3, <2>1
  <2>3. ASSUME NEW i \in 1..q.offset
        PROVE  q.shown[i] = At(W, i).id
    <3>1. CASE i <= o
      <4>1. i \in 1..o
        BY <1>1, <3>1
      <4> QED
        BY <1>3, <2>1, <4>1
    <3>2. CASE ~(i <= o)
      <4>1. i - o \in 1..m /\ o + (i - o) = i
        BY <1>1, <3>2
      <4>2. more[i - o] = At(W, i).id
        BY <4>1
      <4>3. q.shown[o + (i - o)] = more[i - o]
        BY <1>3, <2>1, <4>1
      <4> QED
        BY <4>1, <4>2, <4>3
    <3> QED
      BY <3>1, <3>2
  <2> QED
    BY <2>1, <2>2, <2>3
<1>9. \A w \in W : w.id \in q.sure /\ Place(W, w) <= q.offset => w.id \in ToSet(q.shown)
  BY <1>5
<1>10. \A id \in q.sure : \E w \in W : w.id = id
  BY <1>2
<1> QED
  BY <1>6, <1>7, <1>8, <1>9, <1>10 DEF Paged

LEMMA FetchPageInv == IInv /\ FetchPage => IInv'
<1> SUFFICES ASSUME IInv, FetchPage
             PROVE  IInv'
  OBVIOUS
<1> DEFINE f == task.filters
           g == Sent([f EXCEPT !.offset = task.offset])
           page == Page(rows, g, now)
           m == Len(page.results)
           more == [i \in DOMAIN page.results |-> page.results[i].id]
           s == IF page.total > task.offset + m THEN "running" ELSE "done"
           W == View(rows, f, now)
<1>1. /\ task.kind = "paging" /\ task.state = "running"
      /\ task' = [task EXCEPT !.offset = task.offset + m, !.shown = task.shown \o more,
                           !.state = s]
      /\ rows' = rows /\ now' = now /\ remote' = remote
  BY DEF FetchPage, Continues
<1>2. task \in PagingTask
  BY <1>1, Begun, Kinds
<1>3. task.offset \in Nat /\ FilterOK(f) /\ ~f.skipTotal
  BY <1>2, PagingFields
<1>4. Memories(rows, now) /\ now \in Nat /\ now \in StartTime..MaxTime /\ remote \in BOOLEAN
  BY Begun
<1>5. /\ FilterOK(g) /\ Alike(f, g) /\ g.skipTotal = f.skipTotal
      /\ g.offset = task.offset \/ g.offset = Int32(task.offset)
  <2>1. task.offset \in Int
    BY <1>3
  <2> QED
    BY <1>3, <2>1, SentIs
<1>6. View(rows, g, now) = W
  BY <1>5, AlikeFind
<1> DEFINE o == AtLeast(g.offset, 0)
           n == Cardinality(W)
<1> HIDE DEF g
<1>7. /\ page.results \in Seq(Row) /\ m \in Nat /\ n \in Nat /\ o \in Nat
      /\ o < n => m > 0 /\ o + m <= n
      /\ o >= n => m = 0
      /\ \A i \in 1..m : o + i \in 1..n /\ page.results[i].id = At(W, o + i).id
      /\ page.total = IF g.skipTotal \/ m = 0 THEN 0 ELSE n
  BY <1>4, <1>5, <1>6, PageIs
<1>8. /\ more \in Seq(Ids) /\ Len(more) = m /\ \A i \in 1..m : more[i] = page.results[i].id
  <2>1. DOMAIN page.results = 1..m /\ \A i \in 1..m : page.results[i].id \in Ids
    <3>1. \A r \in Row : r.id \in Ids
      BY DEF Row
    <3> HIDE DEF page
    <3> QED
      BY <1>7, <3>1
  <2>2. more = [i \in 1..m |-> page.results[i].id]
    BY <2>1
  <2>3. more \in [1..m -> Ids]
    BY <2>1, <2>2
  <2> HIDE DEF more, m
  <2>4. Len(more) = m /\ more \in Seq(Ids)
    BY <1>7, <2>3
  <2>5. \A i \in 1..m : more[i] = page.results[i].id
    BY <2>2
  <2> QED
    BY <2>4, <2>5
<1>9. s \in {"running", "done"}
  OBVIOUS
<1> HIDE DEF more
<1>10. task.offset + m \in Nat
  BY <1>3, <1>7
<1>11. /\ task' \in PagingTask
       /\ task'.offset = task.offset + m /\ task'.shown = task.shown \o more /\ task'.state = s
       /\ task'.filters = f /\ task'.sure = task.sure /\ task'.possible = task.possible
       /\ task'.moved = task.moved /\ task'.grown = task.grown
  <2> DEFINE k == task.offset + m
             e == task.shown \o more
  <2>1. task.shown \in Seq(Ids)
    BY <1>2, PagingFields
  <2>2. e \in Seq(Ids) /\ k \in Nat
    BY <1>8, <1>10, <2>1
  <2>3. task' = [task EXCEPT !.offset = k, !.shown = e, !.state = s]
    BY <1>1
  <2> HIDE DEF s, m, k, e, f
  <2>4. /\ task' \in PagingTask
        /\ task'.offset = k /\ task'.shown = e /\ task'.state = s
        /\ task'.filters = task.filters /\ task'.sure = task.sure
        /\ task'.possible = task.possible
        /\ task'.moved = task.moved /\ task'.grown = task.grown
    BY <1>2, <1>9, <2>2, <2>3 DEF PagingTask
  <2> QED
    BY <2>4 DEF k, e, f
<1>12. ASSUME ~task.moved
       PROVE  Paged(task', W)
  <2>1. Paged(task, W) /\ Ranked(W)
    BY <1>2, <1>3, <1>4, <1>12, Begun, ViewRanked
  <2>2. task.offset = 0 \/ task.offset < n
    BY <1>1, <2>1 DEF Paged
  <2>3. n <= Half /\ Half \in Nat /\ Half > 0
    BY <2>1, ViewBounded, SearchAssumption
  <2>4. Int32(task.offset) = task.offset
    <3>1. -Half <= task.offset /\ task.offset < Half
      BY <1>3, <1>7, <2>2, <2>3
    <3>2. task.offset \in Int
      BY <1>3
    <3> QED
      BY <3>1, <3>2, Int32Is
  <2>5. o = task.offset
    BY <1>3, <1>5, <2>4 DEF AtLeast
  <2> HIDE DEF W, page, o
  <2>6. /\ task.offset < n => Len(more) > 0 /\ task.offset + Len(more) <= n
        /\ task.offset >= n => Len(more) = 0
        /\ \A i \in 1..Len(more) : task.offset + i \in 1..n /\ more[i] = At(W, task.offset + i).id
    BY <1>7, <1>8, <2>5
  <2>7. /\ Len(more) = 0 => s = "done"
        /\ Len(more) > 0 => (s = "running" <=> n > task'.offset)
    BY <1>3, <1>5, <1>7, <1>8, <1>11
  <2>8. /\ task'.offset = task.offset + Len(more)
        /\ Len(more) = 0 => task'.state = "done"
        /\ Len(more) > 0 => (task'.state = "running" <=> n > task'.offset)
    BY <1>8, <1>11, <2>7
  <2>9. /\ task' \in PagingTask /\ task'.shown = task.shown \o more
        /\ task'.sure = task.sure /\ task'.possible = task.possible /\ task'.grown = task.grown
    BY <1>11
  <2>10. more \in Seq(Ids) /\ task.state = "running"
    BY <1>1, <1>8
  <2> HIDE DEF s, m
  <2> QED
    BY <1>2, <2>1, <2>6, <2>8, <2>9, <2>10, PagedOn
<1>13. ~task'.moved => Paged(task', View(rows', task'.filters, now'))
  BY <1>1, <1>11, <1>12
<1> QED
  BY <1>1, <1>4, <1>11, <1>13, PagingGoesOn

-----------------------------------------------------------------------------
LEMMA InitInv == Init => IInv
<1> SUFFICES ASSUME Init
             PROVE  IInv
  OBVIOUS
<1>1. Memories(rows, now) /\ now \in StartTime..MaxTime /\ remote \in BOOLEAN
  BY FacesAssumption DEF Init
<1>2. task = NoTask /\ task \in {NoTask} \cup PagingTask \cup BatchTask \cup PackTask
  BY DEF Init
<1>3. task \notin PagingTask /\ task \notin BatchTask /\ task \notin PackTask
  <2>1. task.kind = "none"
    BY <1>2, Kinds
  <2> QED
    BY <1>2, <2>1, Kinds
<1> QED
  BY <1>1, <1>2, <1>3 DEF IInv, TasksOK, PagingInv, BatchInv, PackInv

LEMMA StepInv == IInv /\ [Next]_vars => IInv'
<1> SUFFICES ASSUME IInv, [Next]_vars
             PROVE  IInv'
  OBVIOUS
<1>1. ASSUME Others
      PROVE  IInv'
  <2>1. CASE Tick
    BY <2>1, TickInv
  <2>2. CASE \E id \in Ids : Read(id) \/ Delete(id)
    BY <2>2, ReadInv, DeleteInv
  <2>3. CASE \E id \in Ids, up \in BOOLEAN : Vote(id, up)
    BY <2>3, VoteInv
  <2>4. CASE \E id \in Ids, form \in Forms, supersedes \in Ids \cup {NoId} :
               Store(id, form, supersedes)
    BY <2>4, StoreInv
  <2> QED
    BY <1>1, <2>1, <2>2, <2>3, <2>4 DEF Others
<1>2. ASSUME Agent
      PROVE  IInv'
  <2>1. CASE \E f \in Searches : StartPaging(f)
    BY <2>1, StartPagingInv
  <2>2. CASE \E verb \in {"get", "up", "down"}, ids \in Batches : StartBatch(verb, ids)
    BY <2>2, StartBatchInv
  <2>3. CASE \E args \in Packs : StartPack(args)
    BY <2>3, StartPackInv
  <2>4. CASE CallSucceeds \/ BumpFails \/ CallFails \/ AnswerLost
    BY <2>4, CallSucceedsInv, BumpFailsInv, CallFailsInv, AnswerLostInv
  <2>5. CASE FetchPage \/ PackSearches \/ PackReads
    BY <2>5, FetchPageInv, PackSearchesInv, PackReadsInv
  <2> QED
    BY <1>2, <2>1, <2>2, <2>3, <2>4, <2>5 DEF Agent
<1>3. CASE UNCHANGED vars
  <2>1. rows' = rows /\ now' = now /\ remote' = remote /\ task' = task
    BY <1>3 DEF vars
  <2>2. TasksOK' <=> TasksOK
    BY <2>1 DEF TasksOK
  <2>3. PagingInv' <=> PagingInv
    BY <2>1 DEF PagingInv
  <2>4. BatchInv' <=> BatchInv
    BY <2>1 DEF BatchInv, BatchIsPrefix, Current
  <2>5. PackInv' <=> PackInv
    BY <2>1 DEF PackInv, PackTruthful
  <2> QED
    BY <2>1, <2>2, <2>3, <2>4, <2>5 DEF IInv
<1> QED
  BY <1>1, <1>2, <1>3 DEF Next

(* The memories and the command under way are what they ought to be, and   *)
(* what a command has got so far is what was there, in every state: what   *)
(* the agent pages through has the places up to its offset, a batch counts *)
(* its calls, a pack has what fits.                                        *)
THEOREM Inductive == Spec => []IInv
<1>1. Init => IInv
  BY InitInv
<1>2. IInv /\ [Next]_vars => IInv'
  BY StepInv
<1> QED
  BY <1>1, <1>2, PTL DEF Spec

(* Memories keep pks and ids of their own, a command a state of its kind.  *)
THEOREM TypeCorrect == Spec => []TypeOK
<1>1. IInv => TypeOK
  <2> SUFFICES ASSUME IInv
               PROVE  TypeOK
    OBVIOUS
  <2>1. task \in {NoTask} \cup PagingTask \cup BatchTask \cup PackTask
    BY Begun
  <2>2. /\ task.kind \in {"none", "paging", "batch", "pack"}
        /\ task.state \in {"running", "searching", "reading", "done"}
    BY <2>1 DEF NoTask, PagingTask, BatchTask, PackTask
  <2> QED
    BY <2>2 DEF IInv, TypeOK
<1> QED
  BY <1>1, Inductive, PTL

(* Paging to the end misses nothing that surely matched, and shows it once *)
(* each and in order, for all memories, searches, limits and int32 ranges  *)
(* (server.go renderResults, memory_reader.go Search).                     *)
THEOREM PagesComplete == Spec => []PagesWhole
<1>1. IInv => PagesWhole
  <2> SUFFICES ASSUME IInv, task.kind = "paging", task.state = "done", ~task.moved
               PROVE  /\ task.sure \subseteq ToSet(task.shown)
                      /\ ~task.grown =>
                           /\ ToSet(task.shown) \subseteq task.possible
                           /\ \A i, j \in DOMAIN task.shown : i < j =>
                                /\ task.shown[i] # task.shown[j]
                                /\ ~Worse(Get(task.shown[i]), Get(task.shown[j]), task.filters)
    BY DEF PagesWhole
  <2> DEFINE f == task.filters
             W == View(rows, f, now)
             n == task.offset
             C == Corpus(rows)
  <2>1. task \in PagingTask
    BY Begun, Kinds
  <2>2. Paged(task, W) /\ Memories(rows, now) /\ now \in Nat
    BY <2>1, Begun
  <2>3. FilterOK(f) /\ DOMAIN task.shown = 1..Len(task.shown) /\ Len(task.shown) \in Nat
    BY <2>1, PagingFields
  <2>4. Ranked(W)
    BY <2>2, <2>3, ViewRanked
  <2>5. task.sure \subseteq ToSet(task.shown)
    BY <2>2 DEF Paged
  <2>6. ASSUME ~task.grown
        PROVE  /\ ToSet(task.shown) \subseteq task.possible
               /\ \A i, j \in DOMAIN task.shown : i < j =>
                    /\ task.shown[i] # task.shown[j]
                    /\ ~Worse(Get(task.shown[i]), Get(task.shown[j]), f)
    <3>1. /\ Len(task.shown) = n /\ n <= Cardinality(W)
          /\ \A i \in 1..n : task.shown[i] = At(W, i).id
          /\ \A w \in W : w.id \in task.possible
      BY <2>2, <2>6 DEF Paged
    <3>2. Cardinality(W) \in Nat /\ n \in Nat
      BY <2>1, <2>4, ViewBounded, PagingFields
    <3>3. \A i \in 1..n : At(W, i) \in W /\ Place(W, At(W, i)) = i
      BY <2>4, <3>1, <3>2, Taken
    <3>4. ToSet(task.shown) \subseteq task.possible
      BY <2>3, <3>1, <3>3 DEF ToSet
    <3>5. ASSUME NEW i \in 1..n, NEW j \in 1..n, i < j
          PROVE  /\ task.shown[i] # task.shown[j]
                 /\ ~Worse(Get(task.shown[i]), Get(task.shown[j]), f)
      <4>1. /\ At(W, i) \in W /\ Place(W, At(W, i)) = i
            /\ At(W, j) \in W /\ Place(W, At(W, j)) = j
        BY <3>3
      <4>2. Ahead(At(W, i), At(W, j)) /\ At(W, i) # At(W, j)
        BY <2>4, <3>5, <4>1, PlaceApart
      <4>3. At(W, i).id # At(W, j).id
        BY <2>4, <4>1, <4>2 DEF Ranked
      <4>4. PICK r \in rows : At(W, i) = Look(r, C, f, now)
        BY <4>1 DEF View, Found
      <4>5. PICK s \in rows : At(W, j) = Look(s, C, f, now)
        BY <4>1 DEF View, Found
      <4>6. At(W, i).id = r.id /\ At(W, j).id = s.id
        BY <4>4, <4>5 DEF Look
      <4>7. \A q \in rows : Get(q.id) = q
        <5> SUFFICES ASSUME NEW q \in rows
                     PROVE  Get(q.id) = q
          OBVIOUS
        <5>1. Known(q.id)
          BY DEF Known
        <5>2. Get(q.id) \in rows /\ Get(q.id).id = q.id
          BY <2>2, <5>1, GetIs
        <5> QED
          BY <2>2, <5>2 DEF Memories
      <4>8. Get(task.shown[i]) = r /\ Get(task.shown[j]) = s
        BY <3>1, <4>6, <4>7
      <4>9. Before(r, s, C, f, now) /\ C \in SUBSET Ids
        BY <2>2, <4>2, <4>4, <4>5, CorpusIs DEF Ahead, Before, Look
      <4>10. r \in Row /\ s \in Row /\ r.created <= now /\ s.created <= now
        BY <2>2 DEF Memories
      <4>11. ~Worse(r, s, f)
        BY <2>2, <2>3, <4>9, <4>10, NotWorse
      <4> QED
        BY <3>1, <4>3, <4>8, <4>11
    <3> QED
      BY <2>3, <3>1, <3>4, <3>5
  <2> QED
    BY <2>5, <2>6
<1> QED
  BY <1>1, Inductive, PTL

(* A pack holds what was still there, best first, and as much as fits, for *)
(* all memories, recalls and budgets (queries.go RecallQuery.Execute).     *)
THEOREM PacksTruthful == Spec => []PackTruthful
<1>1. IInv => PackTruthful
  <2>1. IInv /\ task.kind = "pack" => task \in PackTask
    BY Begun, Kinds
  <2>2. task.kind # "pack" => PackTruthful
    BY DEF PackTruthful
  <2> QED
    BY <2>1, <2>2 DEF IInv, PackInv
<1> QED
  BY <1>1, Inductive, PTL

(* get and rate over several ids take effect in order, once for each       *)
(* answer, for all batches (cli.go rateCmd, getCmd).                       *)
THEOREM BatchPrefix == Spec => []BatchIsPrefix
<1>1. IInv => BatchIsPrefix
  <2>1. IInv /\ task.kind = "batch" => task \in BatchTask
    BY Begun, Kinds
  <2>2. task.kind # "batch" => BatchIsPrefix
    BY DEF BatchIsPrefix
  <2> QED
    BY <2>1, <2>2 DEF IInv, BatchInv
<1> QED
  BY <1>1, Inductive, PTL
=============================================================================
