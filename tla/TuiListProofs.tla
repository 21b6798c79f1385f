---------------------------- MODULE TuiListProofs ---------------------------
(***************************************************************************)
(* Proofs about TuiList, for any rows, queries, store and bounds.          *)
(***************************************************************************)
EXTENDS TuiList, SequenceTheorems, WellFoundedInduction, TLAPS

-----------------------------------------------------------------------------
(* The inductive invariant.                                                *)

(* A fetch belongs to the query its seq was given to, s and q being the    *)
(* latest; a page is of a timeline, a deeper search is of terms, a delete  *)
(* carries its row.                                                        *)
FetchOK(c, s, q) ==
  /\ c.fetch # "delete" => c.seq <= s /\ (c.seq = s => c.query = q)
  /\ c.fetch = "append" => ~Asks[c.query].terms /\ ~Asks[c.query].review
  /\ c.fetch = "grow" => Asks[c.query].terms
  /\ c.fetch = "delete" => c.seq = 0 /\ c.left <= 1 /\ Len(c.found) = 1
  /\ c.fetch = "replace" /\ ~Asks[c.query].terms => c.n = 0
  /\ IsInjective(c.found)

Fetching == list.seq > 0 /\ \A i \in DOMAIN cmds : FetchOK(cmds[i], list.seq, list.query)

(* No list of rows repeats one; only other clients bring new rows.         *)
Distinct ==
  /\ IsInjective(store) /\ ToSet(store) \subseteq ToSet(Stored) \cup writes
  /\ NoDuplicates

Awaited(fetches) == \E i \in DOMAIN cmds : cmds[i].fetch \in fetches /\ cmds[i].seq = list.seq

(* Until the query on screen is answered, its search is on its way: the    *)
(* timer runs or the fetch does, or it failed. The paging guard alike.     *)
OnItsWay == shown = list.query \/ list.seq \in timers \cup fails \/ Awaited({"replace"})

Guarded == list.pendingMore => list.seq \in timers \cup fails \/ Awaited({"append", "grow"})

(* While nobody raced, nothing failed and nobody else wrote: a delete is   *)
(* alone; what the list shows, without the row whose delete is done, are   *)
(* the first rows of the timeline; an answer to the query on screen holds  *)
(* the rows that page has; and one page is fetched at a time.              *)
Calm == ~raced /\ fails = {} /\ writes = {}

DeleteAlone == Deleting => Len(cmds) = 1

DoneOf(cs) ==
  UNION {ToSet(cs[i].found) : i \in {j \in DOMAIN cs : cs[j].fetch = "delete" /\ cs[j].left = 0}}

Listed == Without(list.items, DoneOf(cmds))

ListsTimeline ==
  TimelineShown =>
    /\ IsPrefix(Listed, Matching(shown))
    /\ list.exhausted => Listed = Matching(shown)

OfTimeline(q) == ~Asks[q].terms /\ ~Asks[q].review

PageOK(i) ==
  /\ cmds[i].n = Len(list.items) /\ shown = list.query /\ list.seq \notin timers
  /\ \A j \in DOMAIN cmds : cmds[j].seq = list.seq => j = i

PagesOK ==
  \A i \in DOMAIN cmds :
    cmds[i].seq = list.seq /\ OfTimeline(cmds[i].query) =>
      /\ cmds[i].left = 0 => cmds[i].found = Timeline(cmds[i].query, cmds[i].n)
      /\ cmds[i].fetch = "append" => PageOK(i)

Paged == Calm => DeleteAlone /\ ListsTimeline /\ PagesOK

IInv ==
  /\ TypeOK /\ SpinnerTruthful /\ Fetching /\ Distinct
  /\ OnItsWay /\ Guarded /\ Paged

-----------------------------------------------------------------------------
(* Induction, over sets of numbers and of sequences.                       *)

LEMMA Least ==
  ASSUME NEW T, T \subseteq Nat, T # {}
  PROVE  \E n \in T : \A m \in T : ~(m < n)
<1>1. \A m, n \in Nat : <<m, n>> \in OpToRel(<, Nat) <=> m < n
  BY DEF OpToRel
<1> QED
  BY <1>1, NatLessThanWellFounded, WFMin

LEMMA SeqInduction ==
  ASSUME NEW S, NEW G, <<>> \in G,
         \A s \in Seq(S), e \in S : s \in G => Append(s, e) \in G
  PROVE  Seq(S) \subseteq G
<1> DEFINE T == {n \in Nat : \E s \in Seq(S) : Len(s) = n /\ s \notin G}
<1>1. CASE T = {}
  BY <1>1
<1>2. CASE T # {}
  <2>1. PICK n \in T : \A m \in T : ~(m < n)
    <3>1. T \subseteq Nat
      OBVIOUS
    <3> HIDE DEF T
    <3> QED
      BY <1>2, <3>1, Least
  <2>2. PICK s \in Seq(S) : Len(s) = n /\ s \notin G
    OBVIOUS
  <2>3. PICK r \in Seq(S), e \in S : s = Append(r, e)
    BY <2>2, SequenceEmptyOrAppend
  <2>4. Len(r) \in Nat /\ Len(r) < n
    BY <2>2, <2>3, AppendProperties
  <2>5. r \in G
    BY <2>1, <2>4
  <2> QED
    BY <2>2, <2>3, <2>5
<1> QED
  BY <1>1, <1>2

-----------------------------------------------------------------------------
(* Filtering: what Among computes.                                         *)

KeptBy(f, m, s, S) ==
  f = [n \in 0..m |-> IF n = 0 THEN <<>>
                      ELSE IF s[n] \in S THEN Append(f[n - 1], s[n]) ELSE f[n - 1]]

LEMMA KeptExists ==
  ASSUME NEW s, NEW S, NEW m \in Nat
  PROVE  \E f : KeptBy(f, m, s, S)
<1> DEFINE T == {n \in Nat : ~\E f : KeptBy(f, n, s, S)}
<1>1. CASE T # {}
  <2>1. PICK n \in T : \A y \in T : ~(y < n)
    <3>1. T \subseteq Nat
      OBVIOUS
    <3> HIDE DEF T
    <3> QED
      BY <1>1, <3>1, Least
  <2>2. CASE n = 0
    <3>1. KeptBy([i \in 0..0 |-> <<>>], 0, s, S)
      BY DEF KeptBy
    <3> QED
      BY <2>2, <3>1
  <2>3. CASE n # 0
    <3>1. n - 1 \in Nat /\ n - 1 < n /\ n \in Nat
      BY <2>3
    <3>2. PICK f : KeptBy(f, n - 1, s, S)
      BY <2>1, <3>1
    <3> DEFINE e == IF s[n] \in S THEN Append(f[n - 1], s[n]) ELSE f[n - 1]
               g == [i \in 0..n |-> IF i = n THEN e ELSE f[i]]
    <3>3. \A i \in 0..n - 1 :
            f[i] = IF i = 0 THEN <<>>
                   ELSE IF s[i] \in S THEN Append(f[i - 1], s[i]) ELSE f[i - 1]
      BY <3>2 DEF KeptBy
    <3>4. \A i \in 0..n :
            g[i] = IF i = 0 THEN <<>>
                   ELSE IF s[i] \in S THEN Append(g[i - 1], s[i]) ELSE g[i - 1]
      <4> SUFFICES ASSUME NEW i \in 0..n
                   PROVE  g[i] = IF i = 0 THEN <<>>
                                 ELSE IF s[i] \in S THEN Append(g[i - 1], s[i]) ELSE g[i - 1]
        OBVIOUS
      <4>1. g[n] = e /\ \A j \in 0..n - 1 : g[j] = f[j]
        BY <3>1
      <4> HIDE DEF g
      <4>2. CASE i = n
        BY <2>3, <3>1, <4>1, <4>2
      <4>3. CASE i # n
        BY <3>1, <3>3, <4>1, <4>3
      <4> QED
        BY <4>2, <4>3
    <3>5. g = [i \in 0..n |-> g[i]]
      OBVIOUS
    <3> HIDE DEF g
    <3>6. KeptBy(g, n, s, S)
      BY <3>4, <3>5 DEF KeptBy
    <3> QED
      BY <2>1, <3>6
  <2> QED
    BY <2>2, <2>3
<1> QED
  BY <1>1

LEMMA AmongKept ==
  ASSUME NEW s, NEW S, Len(s) \in Nat
  PROVE  \E f : KeptBy(f, Len(s), s, S) /\ Among(s, S) = f[Len(s)]
<1> DEFINE kept == CHOOSE f : KeptBy(f, Len(s), s, S)
<1>1. KeptBy(kept, Len(s), s, S)
  BY KeptExists
<1>2. Among(s, S) = kept[Len(s)]
  BY DEF Among, KeptBy
<1> QED
  BY <1>1, <1>2

LEMMA KeptUnfold ==
  ASSUME NEW s, NEW S, NEW m, NEW f, KeptBy(f, m, s, S)
  PROVE  \A i \in 0..m :
           f[i] = IF i = 0 THEN <<>> ELSE IF s[i] \in S THEN Append(f[i - 1], s[i]) ELSE f[i - 1]
BY DEF KeptBy

(* Two such functions agree as long as what they read does.                *)
LEMMA KeptAgree ==
  ASSUME NEW s, NEW t, NEW S, NEW m \in Nat, NEW n \in Nat, NEW l \in Nat, l <= m, l <= n,
         \A i \in 1..l : s[i] = t[i],
         NEW f, KeptBy(f, m, s, S), NEW g, KeptBy(g, n, t, S)
  PROVE  f[l] = g[l]
<1> DEFINE T == {i \in 0..l : f[i] # g[i]}
<1>1. CASE T # {}
  <2>1. PICK i \in T : \A j \in T : ~(j < i)
    <3>1. T \subseteq Nat
      OBVIOUS
    <3> HIDE DEF T
    <3> QED
      BY <1>1, <3>1, Least
  <2>2. i \in 0..l /\ f[i] # g[i]
    OBVIOUS
  <2>3. i # 0 => f[i - 1] = g[i - 1]
    BY <2>1, <2>2
  <2> HIDE DEF T
  <2>4. i \in 0..m /\ i \in 0..n /\ (i # 0 => s[i] = t[i])
    BY <2>2
  <2>5. \A j \in 0..m : f[j] = IF j = 0 THEN <<>>
                               ELSE IF s[j] \in S THEN Append(f[j - 1], s[j]) ELSE f[j - 1]
    BY KeptUnfold
  <2>6. \A j \in 0..n : g[j] = IF j = 0 THEN <<>>
                               ELSE IF t[j] \in S THEN Append(g[j - 1], t[j]) ELSE g[j - 1]
    BY KeptUnfold
  <2> QED
    BY <2>2, <2>3, <2>4, <2>5, <2>6
<1>2. CASE T = {}
  BY <1>2
<1> QED
  BY <1>1, <1>2

LEMMA KeptsAgree ==
  \A s, t, S : \A n \in Nat : \A f, g :
    /\ \A i \in 1..n : s[i] = t[i]
    /\ KeptBy(f, n, s, S) /\ KeptBy(g, n + 1, t, S)
    => f[n] = g[n]
<1> TAKE s, t, S
<1> TAKE n \in Nat
<1> TAKE f, g
<1> HAVE (\A i \in 1..n : s[i] = t[i]) /\ KeptBy(f, n, s, S) /\ KeptBy(g, n + 1, t, S)
<1>1. n <= n /\ n <= n + 1 /\ n + 1 \in Nat
  OBVIOUS
<1> QED
  BY <1>1, KeptAgree

LEMMA AmongEmpty == \A S : Among(<<>>, S) = <<>>
<1> TAKE S
<1>1. PICK f : KeptBy(f, 0, <<>>, S) /\ Among(<<>>, S) = f[0]
  BY AmongKept
<1> QED
  BY <1>1 DEF KeptBy

LEMMA AmongNext ==
  ASSUME NEW s, NEW t, NEW S, NEW n \in Nat, Len(s) = n, Len(t) = n + 1, \A i \in 1..n : s[i] = t[i]
  PROVE  Among(t, S) = IF t[n + 1] \in S THEN Append(Among(s, S), t[n + 1]) ELSE Among(s, S)
<1>1. n <= n /\ n <= n + 1 /\ n + 1 \in Nat /\ n + 1 \in 0..n + 1 /\ n + 1 # 0 /\ (n + 1) - 1 = n
  OBVIOUS
<1>2. PICK f : KeptBy(f, n, s, S) /\ Among(s, S) = f[n]
  BY AmongKept
<1>3. PICK g : KeptBy(g, n + 1, t, S) /\ Among(t, S) = g[n + 1]
  BY <1>1, AmongKept
<1>4. f[n] = g[n]
  BY <1>1, <1>2, <1>3, KeptsAgree
<1>5. \A i \in 0..n + 1 : g[i] = IF i = 0 THEN <<>>
                                 ELSE IF t[i] \in S THEN Append(g[i - 1], t[i]) ELSE g[i - 1]
  BY <1>3, KeptUnfold
<1> QED
  BY <1>1, <1>2, <1>3, <1>4, <1>5

LEMMA AmongAppend ==
  ASSUME NEW R, NEW s \in Seq(R), NEW e \in R, NEW S
  PROVE  Among(Append(s, e), S) = IF e \in S THEN Append(Among(s, S), e) ELSE Among(s, S)
<1>1. /\ Len(s) \in Nat /\ Len(Append(s, e)) = Len(s) + 1 /\ Append(s, e)[Len(s) + 1] = e
      /\ \A i \in 1..Len(s) : s[i] = Append(s, e)[i]
  BY AppendProperties
<1> QED
  <2> DEFINE t == Append(s, e)
             n == Len(s)
  <2>1. n \in Nat /\ Len(s) = n /\ Len(t) = n + 1 /\ t[n + 1] = e /\ \A i \in 1..n : s[i] = t[i]
    BY <1>1
  <2> HIDE DEF t, n
  <2>2. Among(t, S) = IF t[n + 1] \in S THEN Append(Among(s, S), t[n + 1]) ELSE Among(s, S)
    BY <2>1, AmongNext
  <2> QED
    BY <2>1, <2>2 DEF t

-----------------------------------------------------------------------------
(* Sequences as lists of distinct elements.                                *)

LEMMA AppendList ==
  ASSUME NEW R
  PROVE  \A s \in Seq(R), e \in R :
           /\ ToSet(Append(s, e)) = ToSet(s) \cup {e}
           /\ IsInjective(Append(s, e)) <=> IsInjective(s) /\ e \notin ToSet(s)
<1> SUFFICES ASSUME NEW s \in Seq(R), NEW e \in R
             PROVE  /\ ToSet(Append(s, e)) = ToSet(s) \cup {e}
                    /\ IsInjective(Append(s, e)) <=> IsInjective(s) /\ e \notin ToSet(s)
  OBVIOUS
<1> DEFINE t == Append(s, e)
           n == Len(s) + 1
<1>1. /\ n \notin DOMAIN s /\ DOMAIN t = DOMAIN s \cup {n} /\ t[n] = e
      /\ \A i \in DOMAIN s : t[i] = s[i]
  OBVIOUS
<1> HIDE DEF t, n
<1>2. ToSet(t) = ToSet(s) \cup {e}
  BY <1>1 DEF ToSet
<1>3. IsInjective(t) <=> IsInjective(s) /\ e \notin ToSet(s)
  BY <1>1 DEF ToSet, IsInjective
<1> QED
  BY <1>2, <1>3 DEF t

LEMMA ConcatList ==
  ASSUME NEW R
  PROVE  \A s, t \in Seq(R) :
           /\ ToSet(s \o t) = ToSet(s) \cup ToSet(t)
           /\ IsInjective(s) /\ IsInjective(t) /\ ToSet(s) \cap ToSet(t) = {} => IsInjective(s \o t)
<1> SUFFICES ASSUME NEW s \in Seq(R), NEW t \in Seq(R)
             PROVE  /\ ToSet(s \o t) = ToSet(s) \cup ToSet(t)
                    /\ IsInjective(s) /\ IsInjective(t) /\ ToSet(s) \cap ToSet(t) = {} => IsInjective(s \o t)
  OBVIOUS
<1> DEFINE u == s \o t
<1>0. Len(s) \in Nat /\ Len(t) \in Nat /\ DOMAIN s = 1..Len(s) /\ DOMAIN t = 1..Len(t)
  OBVIOUS
<1>1. /\ u \in Seq(R) /\ DOMAIN u = 1..Len(s) + Len(t)
      /\ \A i \in 1..Len(s) + Len(t) : u[i] = IF i <= Len(s) THEN s[i] ELSE t[i - Len(s)]
  BY ConcatProperties
<1> HIDE DEF u
<1>2. /\ \A i \in DOMAIN s : i \in DOMAIN u /\ u[i] = s[i]
      /\ \A i \in DOMAIN t : i + Len(s) \in DOMAIN u /\ u[i + Len(s)] = t[i]
  BY <1>0, <1>1
<1>3. \A i \in DOMAIN u : i \in DOMAIN s \/ i - Len(s) \in DOMAIN t
  BY <1>0, <1>1
<1>4. ToSet(u) = ToSet(s) \cup ToSet(t)
  <2>1. ASSUME NEW x \in ToSet(u) PROVE x \in ToSet(s) \cup ToSet(t)
    BY <1>0, <1>1, <1>3 DEF ToSet
  <2>2. ASSUME NEW x \in ToSet(s) \cup ToSet(t) PROVE x \in ToSet(u)
    BY <1>2 DEF ToSet
  <2> QED
    BY <2>1, <2>2
<1>5. ASSUME IsInjective(s), IsInjective(t), ToSet(s) \cap ToSet(t) = {}
      PROVE  IsInjective(u)
  <2> SUFFICES ASSUME NEW i \in DOMAIN u, NEW j \in DOMAIN u, u[i] = u[j]
               PROVE  i = j
    BY DEF IsInjective
  <2>1. CASE i \in DOMAIN s /\ j \in DOMAIN s
    BY <1>2, <1>5, <2>1 DEF IsInjective
  <2>2. CASE i \notin DOMAIN s /\ j \notin DOMAIN s
    <3>1. u[i] = t[i - Len(s)] /\ u[j] = t[j - Len(s)] /\ i - Len(s) \in DOMAIN t /\ j - Len(s) \in DOMAIN t
      BY <1>0, <1>1, <1>3, <2>2
    <3>2. i - Len(s) = j - Len(s)
      BY <1>5, <3>1 DEF IsInjective
    <3> QED
      BY <1>0, <1>1, <3>2
  <2>3. ASSUME NEW k \in DOMAIN u, NEW l \in DOMAIN u, k \in DOMAIN s, l \notin DOMAIN s, u[k] = u[l]
        PROVE  FALSE
    <3>1. u[k] \in ToSet(s)
      BY <1>2, <2>3 DEF ToSet
    <3>2. u[l] = t[l - Len(s)] /\ l - Len(s) \in DOMAIN t
      BY <1>0, <1>1, <1>3, <2>3
    <3>3. u[l] \in ToSet(t)
      BY <3>2 DEF ToSet
    <3> QED
      BY <1>5, <2>3, <3>1, <3>3
  <2> QED
    BY <2>1, <2>2, <2>3
<1> QED
  BY <1>4, <1>5 DEF u

-----------------------------------------------------------------------------
(* What filtering keeps.                                                   *)

LEMMA AmongList ==
  ASSUME NEW R, NEW S
  PROVE  \A s \in Seq(R) :
           /\ Among(s, S) \in Seq(R)
           /\ Len(Among(s, S)) <= Len(s)
           /\ ToSet(Among(s, S)) = ToSet(s) \cap S
           /\ IsInjective(s) => IsInjective(Among(s, S))
<1> DEFINE P(s) == /\ Among(s, S) \in Seq(R)
                   /\ Len(Among(s, S)) <= Len(s)
                   /\ ToSet(Among(s, S)) = ToSet(s) \cap S
                   /\ IsInjective(s) => IsInjective(Among(s, S))
           G == {s \in Seq(R) : P(s)}
<1>1. <<>> \in G
  <2>1. <<>> \in Seq(R) /\ Len(<<>>) <= Len(<<>>)
    OBVIOUS
  <2>2. ToSet(<<>>) = {}
    BY DEF ToSet
  <2>3. P(<<>>)
    BY <2>1, <2>2, AmongEmpty
  <2> QED
    BY <2>1, <2>3
<1>2. ASSUME NEW s \in Seq(R), NEW e \in R, s \in G
      PROVE  Append(s, e) \in G
  <2> DEFINE a == Among(s, S)
  <2>0. P(s)
    <3> HIDE DEF P
    <3> QED
      BY <1>2
  <2>1. /\ a \in Seq(R) /\ Len(a) <= Len(s) /\ ToSet(a) = ToSet(s) \cap S
        /\ IsInjective(s) => IsInjective(a)
    BY <2>0
  <2>2. /\ Append(s, e) \in Seq(R) /\ Len(Append(s, e)) = Len(s) + 1
        /\ ToSet(Append(s, e)) = ToSet(s) \cup {e}
        /\ IsInjective(Append(s, e)) <=> IsInjective(s) /\ e \notin ToSet(s)
    BY AppendList
  <2>3. Among(Append(s, e), S) = IF e \in S THEN Append(a, e) ELSE a
    BY AmongAppend
  <2> HIDE DEF a
  <2>4. /\ Append(a, e) \in Seq(R) /\ Len(Append(a, e)) = Len(a) + 1
        /\ ToSet(Append(a, e)) = ToSet(a) \cup {e}
        /\ IsInjective(Append(a, e)) <=> IsInjective(a) /\ e \notin ToSet(a)
    BY <2>1, AppendList
  <2>5. Len(a) \in Nat /\ Len(s) \in Nat
    BY <2>1
  <2>6. CASE e \in S
    <3>1. Among(Append(s, e), S) = Append(a, e)
      BY <2>3, <2>6
    <3>2. Len(Append(a, e)) <= Len(Append(s, e))
      BY <2>1, <2>2, <2>4, <2>5
    <3>3. ToSet(Append(a, e)) = ToSet(Append(s, e)) \cap S
      BY <2>1, <2>2, <2>4, <2>6
    <3>4. IsInjective(Append(s, e)) => IsInjective(Append(a, e))
      BY <2>1, <2>2, <2>4
    <3> QED
      BY <2>2, <2>4, <3>1, <3>2, <3>3, <3>4
  <2>7. CASE e \notin S
    BY <2>1, <2>2, <2>3, <2>5, <2>7
  <2> QED
    BY <2>6, <2>7
<1>3. Seq(R) \subseteq G
  <2> HIDE DEF G
  <2> QED
    BY <1>1, <1>2, SeqInduction
<1>4. \A s \in Seq(R) : P(s)
  <2> HIDE DEF P
  <2> QED
    BY <1>3
<1> QED
  BY <1>4

LEMMA AmongConcat ==
  ASSUME NEW R, NEW S
  PROVE  \A s, t \in Seq(R) : Among(s \o t, S) = Among(s, S) \o Among(t, S)
<1> SUFFICES ASSUME NEW s \in Seq(R)
             PROVE  \A t \in Seq(R) : Among(s \o t, S) = Among(s, S) \o Among(t, S)
  OBVIOUS
<1> DEFINE G == {t \in Seq(R) : Among(s \o t, S) = Among(s, S) \o Among(t, S)}
<1>1. <<>> \in G
  BY AmongEmpty, AmongList, ConcatEmptySeq
<1>2. ASSUME NEW t \in Seq(R), NEW e \in R, t \in G
      PROVE  Append(t, e) \in G
  <2>1. s \o Append(t, e) = Append(s \o t, e) /\ s \o t \in Seq(R) /\ Append(t, e) \in Seq(R)
    OBVIOUS
  <2>2. Among(s, S) \in Seq(R) /\ Among(t, S) \in Seq(R)
    BY AmongList
  <2>3. Among(s, S) \o Append(Among(t, S), e) = Append(Among(s, S) \o Among(t, S), e)
    BY <2>2
  <2>4. /\ Among(Append(s \o t, e), S) = IF e \in S THEN Append(Among(s \o t, S), e) ELSE Among(s \o t, S)
        /\ Among(Append(t, e), S) = IF e \in S THEN Append(Among(t, S), e) ELSE Among(t, S)
    BY <2>1, AmongAppend
  <2>5. Among(s \o t, S) = Among(s, S) \o Among(t, S)
    BY <1>2
  <2> QED
    BY <2>1, <2>3, <2>4, <2>5
<1>3. Seq(R) \subseteq G
  <2> HIDE DEF G
  <2> QED
    BY <1>1, <1>2, SeqInduction
<1> QED
  BY <1>3

LEMMA AmongTwice ==
  ASSUME NEW R, NEW A, NEW B
  PROVE  \A s \in Seq(R) : Among(Among(s, A), B) = Among(s, A \cap B)
<1> DEFINE G == {s \in Seq(R) : Among(Among(s, A), B) = Among(s, A \cap B)}
<1>1. <<>> \in G
  BY AmongEmpty
<1>2. ASSUME NEW s \in Seq(R), NEW e \in R, s \in G
      PROVE  Append(s, e) \in G
  <2> DEFINE a == Among(s, A)
             b == Among(s, A \cap B)
  <2>1. Append(s, e) \in Seq(R) /\ a \in Seq(R)
    BY AmongList
  <2>2. Among(a, B) = b
    BY <1>2
  <2>3. Among(Append(s, e), A) = IF e \in A THEN Append(a, e) ELSE a
    BY AmongAppend
  <2>4. Among(Append(s, e), A \cap B) = IF e \in A \cap B THEN Append(b, e) ELSE b
    BY AmongAppend
  <2> HIDE DEF a, b
  <2>5. Among(Append(a, e), B) = IF e \in B THEN Append(b, e) ELSE b
    BY <2>1, <2>2, AmongAppend
  <2> QED
    BY <2>1, <2>2, <2>3, <2>4, <2>5
<1>3. Seq(R) \subseteq G
  <2> HIDE DEF G
  <2> QED
    BY <1>1, <1>2, SeqInduction
<1> QED
  BY <1>3

LEMMA AmongAgree ==
  ASSUME NEW R, NEW A, NEW B
  PROVE  \A s \in Seq(R) : ToSet(s) \cap A = ToSet(s) \cap B => Among(s, A) = Among(s, B)
<1> DEFINE G == {s \in Seq(R) : ToSet(s) \cap A = ToSet(s) \cap B => Among(s, A) = Among(s, B)}
<1>1. <<>> \in G
  BY AmongEmpty
<1>2. ASSUME NEW s \in Seq(R), NEW e \in R, s \in G
      PROVE  Append(s, e) \in G
  <2>1. ToSet(s) \cap A = ToSet(s) \cap B => Among(s, A) = Among(s, B)
    BY <1>2
  <2>2. Append(s, e) \in Seq(R) /\ ToSet(Append(s, e)) = ToSet(s) \cup {e}
    BY AppendList
  <2>3. Among(Append(s, e), A) = IF e \in A THEN Append(Among(s, A), e) ELSE Among(s, A)
    BY AmongAppend
  <2>4. Among(Append(s, e), B) = IF e \in B THEN Append(Among(s, B), e) ELSE Among(s, B)
    BY AmongAppend
  <2>5. ASSUME (ToSet(s) \cup {e}) \cap A = (ToSet(s) \cup {e}) \cap B
        PROVE  ToSet(s) \cap A = ToSet(s) \cap B /\ (e \in A <=> e \in B)
    BY <2>5
  <2> QED
    BY <2>1, <2>2, <2>3, <2>4, <2>5
<1>3. Seq(R) \subseteq G
  <2> HIDE DEF G
  <2> QED
    BY <1>1, <1>2, SeqInduction
<1> QED
  BY <1>3

LEMMA AmongAll ==
  ASSUME NEW R
  PROVE  \A s \in Seq(R) : Among(s, R) = s
<1> DEFINE G == {s \in Seq(R) : Among(s, R) = s}
<1>1. <<>> \in G
  BY AmongEmpty
<1>2. ASSUME NEW s \in Seq(R), NEW e \in R, s \in G
      PROVE  Append(s, e) \in G
  BY <1>2, AmongAppend
<1>3. Seq(R) \subseteq G
  <2> HIDE DEF G
  <2> QED
    BY <1>1, <1>2, SeqInduction
<1> QED
  BY <1>3

LEMMA ReverseList ==
  ASSUME NEW R
  PROVE  \A s \in Seq(R) :
           /\ Reverse(s) \in Seq(R) /\ Len(Reverse(s)) = Len(s)
           /\ ToSet(Reverse(s)) = ToSet(s)
           /\ IsInjective(s) => IsInjective(Reverse(s))
<1> SUFFICES ASSUME NEW s \in Seq(R)
             PROVE  /\ Reverse(s) \in Seq(R) /\ Len(Reverse(s)) = Len(s)
                    /\ ToSet(Reverse(s)) = ToSet(s)
                    /\ IsInjective(s) => IsInjective(Reverse(s))
  OBVIOUS
<1> DEFINE t == Reverse(s)
           n == Len(s)
<1>1. n \in Nat /\ DOMAIN s = 1..n /\ \A i \in 1..n : s[i] \in R
  OBVIOUS
<1>2. t \in Seq(R) /\ Len(t) = n /\ DOMAIN t = 1..n
  BY <1>1 DEF Reverse
<1>3. \A i \in 1..n : t[i] = s[(n - i) + 1] /\ (n - i) + 1 \in 1..n /\ s[i] = t[(n - i) + 1]
  BY <1>1 DEF Reverse
<1> HIDE DEF t, n
<1>4. ToSet(t) = ToSet(s)
  BY <1>1, <1>2, <1>3 DEF ToSet
<1>5. ASSUME IsInjective(s) PROVE IsInjective(t)
  <2> SUFFICES ASSUME NEW i \in 1..n, NEW j \in 1..n, t[i] = t[j] PROVE i = j
    BY <1>2 DEF IsInjective
  <2>1. (n - i) + 1 = (n - j) + 1
    BY <1>1, <1>3, <1>5 DEF IsInjective
  <2> QED
    BY <1>1, <2>1
<1> QED
  BY <1>2, <1>4, <1>5 DEF t, n

LEMMA ReverseAppend ==
  ASSUME NEW R
  PROVE  \A s \in Seq(R), e \in R : Reverse(Append(s, e)) = <<e>> \o Reverse(s)
<1> SUFFICES ASSUME NEW s \in Seq(R), NEW e \in R
             PROVE  Reverse(Append(s, e)) = <<e>> \o Reverse(s)
  OBVIOUS
<1> DEFINE t == Append(s, e)
           n == Len(s)
           u == Reverse(s)
           v == Reverse(t)
           w == <<e>> \o u
<1>1. n \in Nat /\ t \in Seq(R) /\ Len(t) = n + 1 /\ t[n + 1] = e /\ \A i \in 1..n : t[i] = s[i]
  OBVIOUS
<1>2. u \in Seq(R) /\ Len(u) = n /\ v \in Seq(R) /\ Len(v) = n + 1
  BY <1>1, ReverseList
<1>3. \A i \in 1..n : u[i] = s[(n - i) + 1]
  BY <1>1 DEF Reverse
<1>4. \A i \in 1..n + 1 : v[i] = t[((n + 1) - i) + 1]
  BY <1>1 DEF Reverse
<1> HIDE DEF n, t, u, v
<1>5. <<e>> \in Seq(R) /\ Len(<<e>>) = 1 /\ <<e>>[1] = e
  OBVIOUS
<1>6. /\ w \in Seq(R) /\ Len(w) = 1 + n
      /\ \A i \in 1..1 + n : w[i] = IF i <= 1 THEN <<e>>[i] ELSE u[i - 1]
  BY <1>2, <1>5, ConcatProperties
<1> HIDE DEF w
<1>7. ASSUME NEW i \in 1..n + 1 PROVE v[i] = w[i]
  <2>1. CASE i = 1
    BY <1>1, <1>4, <1>5, <1>6, <2>1
  <2>2. CASE i # 1
    <3>1. i - 1 \in 1..n /\ ((n + 1) - i) + 1 = (n - (i - 1)) + 1 /\ (n - (i - 1)) + 1 \in 1..n
      BY <1>1, <2>2
    <3> QED
      <4>1. v[i] = t[(n - (i - 1)) + 1]
        BY <1>4, <3>1
      <4>2. t[(n - (i - 1)) + 1] = s[(n - (i - 1)) + 1]
        BY <1>1, <3>1
      <4>3. u[i - 1] = s[(n - (i - 1)) + 1]
        BY <1>3, <3>1
      <4>4. w[i] = u[i - 1]
        BY <1>1, <1>6, <2>2
      <4> QED
        BY <4>1, <4>2, <4>3, <4>4
  <2> QED
    BY <2>1, <2>2
<1> QED
  <2>1. Len(v) = Len(w) /\ \A i \in 1..Len(v) : v[i] = w[i]
    BY <1>1, <1>2, <1>6, <1>7
  <2>2. v = w
    BY <1>2, <1>6, <2>1, SeqEqual
  <2> QED
    BY <2>2 DEF v, w, t, u

LEMMA AmongReverse ==
  ASSUME NEW R, NEW S
  PROVE  \A s \in Seq(R) : Among(Reverse(s), S) = Reverse(Among(s, S))
<1> DEFINE G == {s \in Seq(R) : Among(Reverse(s), S) = Reverse(Among(s, S))}
<1>1. <<>> \in G
  <2>1. Reverse(<<>>) = <<>>
    BY DEF Reverse
  <2> QED
    BY <2>1, AmongEmpty
<1>2. ASSUME NEW s \in Seq(R), NEW e \in R, s \in G
      PROVE  Append(s, e) \in G
  <2> DEFINE a == Among(s, S)
  <2>1. /\ Append(s, e) \in Seq(R) /\ <<e>> \in Seq(R) /\ a \in Seq(R)
        /\ Reverse(s) \in Seq(R) /\ Reverse(a) \in Seq(R)
    BY AmongList, ReverseList
  <2>2. Among(Reverse(s), S) = Reverse(a)
    BY <1>2
  <2>3. Among(Append(s, e), S) = IF e \in S THEN Append(a, e) ELSE a
    BY AmongAppend
  <2>4. Reverse(Append(s, e)) = <<e>> \o Reverse(s) /\ (Reverse(Append(a, e)) = <<e>> \o Reverse(a))
    BY <2>1, ReverseAppend
  <2> HIDE DEF a
  <2>5. Among(<<e>> \o Reverse(s), S) = Among(<<e>>, S) \o Reverse(a)
    <3>1. Among(<<e>> \o Reverse(s), S) = Among(<<e>>, S) \o Among(Reverse(s), S)
      BY <2>1, AmongConcat
    <3> QED
      BY <2>2, <3>1
  <2>6. Among(<<e>>, S) = IF e \in S THEN <<e>> ELSE <<>>
    <3>1. <<e>> = Append(<<>>, e) /\ <<>> \in Seq(R)
      OBVIOUS
    <3>2. Among(Append(<<>>, e), S) = IF e \in S THEN Append(Among(<<>>, S), e) ELSE Among(<<>>, S)
      BY <3>1, AmongAppend
    <3> QED
      BY <3>1, <3>2, AmongEmpty
  <2>7. <<>> \o Reverse(a) = Reverse(a)
    BY <2>1, ConcatEmptySeq
  <2> QED
    BY <2>1, <2>3, <2>4, <2>5, <2>6, <2>7
<1>3. Seq(R) \subseteq G
  <2> HIDE DEF G
  <2> QED
    BY <1>1, <1>2, SeqInduction
<1> QED
  BY <1>3

-----------------------------------------------------------------------------
(* Pages, layers and commands.                                             *)

LEMMA SubList ==
  ASSUME NEW R, NEW s \in Seq(R), NEW m \in Nat \ {0}, NEW n \in Nat, n <= Len(s)
  PROVE  /\ SubSeq(s, m, n) \in Seq(R)
         /\ Len(SubSeq(s, m, n)) = IF m <= n THEN n - m + 1 ELSE 0
         /\ \A i \in DOMAIN SubSeq(s, m, n) : SubSeq(s, m, n)[i] = s[m + i - 1] /\ m + i - 1 \in DOMAIN s
         /\ IsInjective(s) => IsInjective(SubSeq(s, m, n))
<1> DEFINE t == SubSeq(s, m, n)
<1>1. /\ t \in Seq(R) /\ Len(t) = IF m <= n THEN n - m + 1 ELSE 0
      /\ \A i \in 1..n - m + 1 : t[i] = s[m + i - 1]
  <2>1. \A i \in m..n : s[i] \in R
    OBVIOUS
  <2> QED
    BY <2>1, SubSeqProperties
<1> HIDE DEF t
<1>2. \A i \in DOMAIN t : i \in Nat /\ t[i] = s[m + i - 1] /\ m + i - 1 \in DOMAIN s
  <2> SUFFICES ASSUME NEW i \in DOMAIN t
               PROVE  i \in Nat /\ t[i] = s[m + i - 1] /\ m + i - 1 \in DOMAIN s
    OBVIOUS
  <2>1. i \in 1..n - m + 1 /\ n - m + 1 \in Int
    BY <1>1
  <2>2. m + i - 1 \in 1..Len(s)
    BY <2>1
  <2> QED
    BY <1>1, <2>1, <2>2
<1>3. ASSUME IsInjective(s) PROVE IsInjective(t)
  <2> SUFFICES ASSUME NEW i \in DOMAIN t, NEW j \in DOMAIN t, t[i] = t[j] PROVE i = j
    BY DEF IsInjective
  <2>1. m + i - 1 = m + j - 1
    BY <1>2, <1>3 DEF IsInjective
  <2> QED
    BY <1>2, <2>1
<1> QED
  BY <1>1, <1>2, <1>3 DEF t

LEMMA TakeList ==
  ASSUME NEW R
  PROVE  \A s \in Seq(R), n \in Nat :
           /\ Take(s, n) \in Seq(R)
           /\ IsInjective(s) => IsInjective(Take(s, n))
<1> SUFFICES ASSUME NEW s \in Seq(R), NEW n \in Nat
             PROVE  Take(s, n) \in Seq(R) /\ (IsInjective(s) => IsInjective(Take(s, n)))
  OBVIOUS
<1> DEFINE l == IF n < Len(s) THEN n ELSE Len(s)
<1>1. l \in Nat /\ l <= Len(s) /\ 1 \in Nat \ {0}
  OBVIOUS
<1>2. Take(s, n) = SubSeq(s, 1, l)
  BY DEF Take
<1> HIDE DEF l
<1> QED
  BY <1>1, <1>2, SubList

LEMMA WithoutList ==
  ASSUME NEW R, NEW S
  PROVE  \A s \in Seq(R) :
           /\ Without(s, S) \in Seq(R)
           /\ ToSet(Without(s, S)) = ToSet(s) \ S
           /\ IsInjective(s) => IsInjective(Without(s, S))
           /\ Without(s, S) = Among(s, R \ S)
<1> SUFFICES ASSUME NEW s \in Seq(R)
             PROVE  /\ Without(s, S) \in Seq(R)
                    /\ ToSet(Without(s, S)) = ToSet(s) \ S
                    /\ IsInjective(s) => IsInjective(Without(s, S))
                    /\ Without(s, S) = Among(s, R \ S)
  OBVIOUS
<1> DEFINE A == ToSet(s) \ S
<1>1. Without(s, S) = Among(s, A)
  BY DEF Without
<1>2. ToSet(s) \cap A = ToSet(s) \ S
  OBVIOUS
<1>3. ToSet(s) \subseteq R
  BY DEF ToSet
<1>4. ToSet(s) \cap A = ToSet(s) \cap (R \ S)
  BY <1>3
<1> HIDE DEF A
<1> QED
  BY <1>1, <1>2, <1>4, AmongList, AmongAgree

LEMMA MatchingList ==
  ASSUME NEW q, store \in Seq(Rows)
  PROVE  /\ Matching(q) \in Seq(Rows)
         /\ IsInjective(store) => IsInjective(Matching(q))
<1>1. CASE Asks[q].newest
  BY <1>1, AmongList, ReverseList DEF Matching
<1>2. CASE ~Asks[q].newest
  BY <1>2, AmongList DEF Matching
<1> QED
  BY <1>1, <1>2

LEMMA TimelineList ==
  ASSUME NEW q, NEW n \in Nat, store \in Seq(Rows)
  PROVE  /\ Timeline(q, n) \in Seq(Rows)
         /\ IsInjective(store) => IsInjective(Timeline(q, n))
<1> DEFINE m == Matching(q)
           t == SubSeq(m, n + 1, Len(m))
           l == IF Asks[q].review THEN Wide ELSE Page
<1>1. m \in Seq(Rows) /\ (IsInjective(store) => IsInjective(m))
  BY MatchingList
<1>2. l \in Nat
  BY LimitAssumption
<1>3. Timeline(q, n) = Take(t, l)
  BY DEF Timeline
<1> HIDE DEF m, l
<1>4. n + 1 \in Nat \ {0} /\ Len(m) \in Nat /\ Len(m) <= Len(m)
  BY <1>1
<1>5. t \in Seq(Rows) /\ (IsInjective(m) => IsInjective(t))
  BY <1>1, <1>4, SubList
<1> HIDE DEF t
<1> QED
  BY <1>1, <1>2, <1>3, <1>5, TakeList

LEMMA LayerList ==
  ASSUME NEW q, NEW left \in {1, 2, 3}, NEW n \in Nat, store \in Seq(Rows)
  PROVE  /\ Layer(q, left, n) \in Seq(Rows)
         /\ IsInjective(store) => IsInjective(Layer(q, left, n))
<1>1. Matching(q) \in Seq(Rows) /\ (IsInjective(store) => IsInjective(Matching(q)))
  BY MatchingList
<1>2. \A S : /\ Take(Among(Matching(q), S), n) \in Seq(Rows)
             /\ IsInjective(store) => IsInjective(Take(Among(Matching(q), S), n))
  BY <1>1, AmongList, TakeList
<1>3. \A S : /\ Among(Take(Matching(q), Wide), S) \in Seq(Rows)
             /\ IsInjective(store) => IsInjective(Among(Take(Matching(q), Wide), S))
  BY <1>1, AmongList, TakeList, LimitAssumption
<1>4. CASE left = 3
  BY <1>2, <1>4 DEF Layer
<1>5. CASE left = 2
  BY <1>2, <1>5 DEF Layer
<1>6. CASE left = 1
  BY <1>3, <1>6 DEF Layer
<1> QED
  BY <1>4, <1>5, <1>6

-----------------------------------------------------------------------------
(* The commands outstanding.                                               *)

(* The place a command had before the k-th was removed.                    *)
Was(k, j) == IF j < k THEN j ELSE j + 1

Remains(r, s, k) ==
  /\ Len(r) = Len(s) - 1
  /\ \A j \in DOMAIN r : Was(k, j) \in DOMAIN s \ {k} /\ r[j] = s[Was(k, j)]
  /\ \A i \in DOMAIN s \ {k} : \E j \in DOMAIN r : Was(k, j) = i

LEMMA Joined ==
  ASSUME NEW S, NEW a \in Seq(S), NEW b \in Seq(S)
  PROVE  /\ a \o b \in Seq(S) /\ Len(a \o b) = Len(a) + Len(b)
         /\ \A j \in 1 .. Len(a) : (a \o b)[j] = a[j]
         /\ \A j \in 1 .. Len(a) + Len(b) : j > Len(a) => (a \o b)[j] = b[j - Len(a)]
BY ConcatProperties

LEMMA Removed ==
  ASSUME NEW S, NEW s \in Seq(S), NEW k \in DOMAIN s
  PROVE  RemoveAt(s, k) \in Seq(S) /\ Remains(RemoveAt(s, k), s, k)
<1> DEFINE a == SubSeq(s, 1, k - 1)
           b == SubSeq(s, k + 1, Len(s))
           q == RemoveAt(s, k)
<1>1. k \in 1 .. Len(s) /\ Len(s) \in Nat
  OBVIOUS
<1>2. a \in Seq(S) /\ Len(a) = k - 1 /\ \A j \in 1 .. k - 1 : a[j] = s[j]
  BY <1>1
<1>3. b \in Seq(S) /\ Len(b) = Len(s) - k /\ \A j \in 1 .. Len(s) - k : b[j] = s[k + j]
  BY <1>1
<1>4. q = a \o b
  BY DEF RemoveAt
<1> HIDE DEF a, b, q
<1>5. q \in Seq(S) /\ Len(q) = Len(s) - 1
  BY <1>1, <1>2, <1>3, <1>4
<1>6. \A j \in 1 .. Len(s) - 1 : q[j] = s[Was(k, j)] /\ Was(k, j) \in DOMAIN s \ {k}
  <2> SUFFICES ASSUME NEW j \in 1 .. Len(s) - 1
               PROVE  q[j] = s[Was(k, j)] /\ Was(k, j) \in DOMAIN s \ {k}
    OBVIOUS
  <2>1. CASE j < k
    <3>1. j \in 1 .. Len(a)
      BY <1>1, <1>2, <2>1
    <3>2. q[j] = a[j]
      BY <1>2, <1>3, <1>4, <3>1, Joined
    <3> QED
      BY <1>1, <1>2, <2>1, <3>2 DEF Was
  <2>2. CASE ~(j < k)
    <3>1. j \in 1 .. Len(a) + Len(b) /\ j > Len(a) /\ j - (k - 1) \in 1 .. Len(s) - k
      <4>1. Len(a) = k - 1 /\ Len(b) = Len(s) - k
        BY <1>2, <1>3
      <4> QED
        BY <1>1, <2>2, <4>1
    <3>2. q[j] = b[j - Len(a)]
      BY <1>2, <1>3, <1>4, <3>1, Joined
    <3>3. k + (j - (k - 1)) = j + 1
      BY <1>1
    <3>4. q[j] = b[j - (k - 1)]
      BY <1>2, <3>2
    <3>5. q[j] = s[k + (j - (k - 1))]
      BY <1>3, <3>1, <3>4
    <3>6. q[j] = s[j + 1]
      BY <3>3, <3>5
    <3> QED
      BY <1>1, <2>2, <3>6 DEF Was
  <2> QED
    BY <2>1, <2>2
<1>7. ASSUME NEW i \in DOMAIN s \ {k} PROVE \E j \in DOMAIN q : Was(k, j) = i
  <2>1. CASE i < k
    BY <1>1, <1>5, <2>1 DEF Was
  <2>2. CASE i > k
    <3>1. i - 1 \in DOMAIN q /\ Was(k, i - 1) = i
      BY <1>1, <1>5, <2>2 DEF Was
    <3> QED
      BY <3>1
  <2> QED
    BY <1>1, <2>1, <2>2
<1> QED
  BY <1>5, <1>6, <1>7 DEF q, Remains

(* Different commands had different places.                                *)
LEMMA WasApart ==
  \A k, i, j \in Nat : i # j => Was(k, i) # Was(k, j)
BY DEF Was

(* A command answered: the others are as they were.                        *)
Leaves(k) ==
  /\ cmds' \in Seq(Command) /\ Remains(cmds', cmds, k)

LEMMA LeavesOthers ==
  ASSUME cmds \in Seq(Command), NEW k \in DOMAIN cmds, cmds' = RemoveAt(cmds, k)
  PROVE  Leaves(k)
BY Removed DEF Leaves

(* A key or a timer adds a command.                                        *)
Adds(c) ==
  /\ cmds' \in Seq(Command) /\ Len(cmds') = Len(cmds) + 1
  /\ DOMAIN cmds' = DOMAIN cmds \cup {Len(cmds) + 1} /\ Len(cmds) + 1 \notin DOMAIN cmds
  /\ cmds'[Len(cmds) + 1] = c
  /\ \A j \in DOMAIN cmds : cmds'[j] = cmds[j]

LEMMA IssueAdds ==
  ASSUME cmds \in Seq(Command), NEW c \in Command, Issue(c)
  PROVE  Adds(c)
BY DEF Issue, Adds

(* A call changes the command that made it, and no other.                  *)
Calls(k) ==
  /\ cmds' \in Seq(Command) /\ Len(cmds') = Len(cmds) /\ DOMAIN cmds' = DOMAIN cmds
  /\ \A j \in DOMAIN cmds : j # k => cmds'[j] = cmds[j]
  /\ cmds'[k].fetch = cmds[k].fetch /\ cmds'[k].seq = cmds[k].seq
  /\ cmds'[k].query = cmds[k].query /\ cmds'[k].n = cmds[k].n
  /\ cmds'[k].left = cmds[k].left - 1 /\ cmds'[k].found = Answered(cmds[k])

LEMMA AnsweredList ==
  ASSUME store \in Seq(Rows), NEW c \in Command, c.left > 0
  PROVE  /\ Answered(c) \in Seq(Rows)
         /\ IsInjective(store) /\ IsInjective(c.found) => IsInjective(Answered(c))
<1>0. c.found \in Seq(Rows) /\ c.n \in Nat /\ c.left \in {1, 2, 3}
  BY DEF Command
<1>1. CASE c.fetch = "delete"
  BY <1>0, <1>1 DEF Answered
<1>2. CASE c.fetch # "delete" /\ Asks[c.query].terms
  <2> DEFINE l == Layer(c.query, c.left, c.n)
             w == Without(l, ToSet(c.found))
  <2>1. l \in Seq(Rows) /\ (IsInjective(store) => IsInjective(l))
    BY <1>0, LayerList
  <2>2. /\ w \in Seq(Rows) /\ ToSet(w) = ToSet(l) \ ToSet(c.found)
        /\ IsInjective(l) => IsInjective(w)
    <3> HIDE DEF l
    <3> QED
      BY <2>1, WithoutList
  <2>3. Answered(c) = c.found \o w
    BY <1>2 DEF Answered
  <2> HIDE DEF l, w
  <2>4. IsInjective(c.found) /\ IsInjective(w) => IsInjective(c.found \o w)
    <3>1. ToSet(c.found) \cap ToSet(w) = {}
      BY <2>2
    <3> QED
      BY <1>0, <2>2, <3>1, ConcatList
  <2> QED
    BY <1>0, <2>1, <2>2, <2>3, <2>4
<1>3. CASE c.fetch # "delete" /\ ~Asks[c.query].terms
  BY <1>0, <1>3, TimelineList DEF Answered
<1> QED
  BY <1>1, <1>2, <1>3

LEMMA RunCalls ==
  ASSUME store \in Seq(Rows), cmds \in Seq(Command), NEW k \in DOMAIN cmds, Run(k)
  PROVE  Calls(k)
<1> DEFINE c == cmds[k]
           d == [c EXCEPT !.left = @ - 1, !.found = Answered(c)]
<1>1. c \in Command /\ c.left > 0
  BY DEF Run
<1>2. Answered(c) \in Seq(Rows)
  <2> HIDE DEF c
  <2> QED
    BY <1>1, AnsweredList
<1>3. c.left - 1 \in 0..3
  BY <1>1 DEF Command
<1>4. /\ d \in Command
      /\ d.fetch = c.fetch /\ d.seq = c.seq /\ d.query = c.query /\ d.n = c.n
      /\ d.left = c.left - 1 /\ d.found = Answered(c)
  <2> HIDE DEF c
  <2> QED
    BY <1>1, <1>2, <1>3 DEF Command
<1>5. cmds' = [cmds EXCEPT ![k] = d]
  BY DEF Run
<1> HIDE DEF d
<1> QED
  BY <1>4, <1>5 DEF Calls

LEMMA SearchTypes ==
  /\ \A f \in {"replace", "append", "grow"}, s \in Nat, q \in Queries, n \in Nat :
       Search(f, s, q, n) \in Command
  /\ \A s \in Nat, q \in Queries : Replace(s, q) \in Command
<1>1. \A f \in {"replace", "append", "grow"}, s \in Nat, q \in Queries, n \in Nat :
        Search(f, s, q, n) \in Command
  BY DEF Search, Command, Fetches
<1> QED
  BY <1>1, LimitAssumption DEF Replace

-----------------------------------------------------------------------------
(* The list, after each action.                                            *)

ListModel == [query : Queries, typing : BOOLEAN, seq : Nat, items : Seq(Rows),
              exhausted : BOOLEAN, pendingMore : BOOLEAN, growLimit : 0..Wide]

Becomes(q, s, rows, exhausted, pending) ==
  /\ list' \in ListModel
  /\ list'.query = q /\ list'.seq = s /\ list'.items = rows
  /\ list'.exhausted = exhausted /\ list'.pendingMore = pending

LEMMA AskedList ==
  ASSUME list \in ListModel, NEW q \in Queries, IssueSearch(q)
  PROVE  Becomes(q, list.seq + 1, list.items, FALSE, FALSE)
<1>1. 0 \in 0..Wide /\ list.seq + 1 \in Nat /\ FALSE \in BOOLEAN
  BY LimitAssumption DEF ListModel
<1>2. list' = [list EXCEPT !.query = q, !.typing = FALSE, !.seq = list.seq + 1, !.exhausted = FALSE,
                           !.pendingMore = FALSE, !.growLimit = 0]
  BY DEF IssueSearch
<1>3. list' \in ListModel
  BY <1>1, <1>2 DEF ListModel
<1> QED
  BY <1>1, <1>2, <1>3 DEF ListModel, Becomes

LEMMA FocusList ==
  ASSUME list \in ListModel, Focus
  PROVE  Becomes(list.query, list.seq, list.items, list.exhausted, list.pendingMore)
BY DEF Focus, ListModel, Becomes

LEMMA TypeList ==
  ASSUME list \in ListModel, Type
  PROVE  \E q \in Queries :
           Becomes(q, list.seq + 1, list.items, list.exhausted, list.pendingMore)
<1>1. PICK q \in Queries : list' = [list EXCEPT !.query = q, !.seq = list.seq + 1]
  BY DEF Type
<1>2. list.seq + 1 \in Nat
  BY DEF ListModel
<1>3. Becomes(q, list.seq + 1, list.items, list.exhausted, list.pendingMore)
  BY <1>1, <1>2 DEF ListModel, Becomes
<1> QED
  BY <1>3

LEMMA PageList ==
  ASSUME list \in ListModel, LoadPage
  PROVE  Becomes(list.query, list.seq, list.items, list.exhausted, TRUE)
BY DEF LoadPage, ListModel, Becomes

LEMMA DepthTypes ==
  ASSUME list \in ListModel
  PROVE  Depth \in 0..Wide /\ Deeper \in 0..Wide
<1>1. list.growLimit \in 0..Wide
  BY DEF ListModel
<1>2. Depth \in 0..Wide
  BY <1>1, LimitAssumption DEF Depth
<1> QED
  BY <1>2, LimitAssumption DEF Deeper

LEMMA DeeperList ==
  ASSUME list \in ListModel, LoadDeeper
  PROVE  IF Depth >= Wide
         THEN Becomes(list.query, list.seq, list.items, TRUE, list.pendingMore)
         ELSE Becomes(list.query, list.seq, list.items, list.exhausted, TRUE)
<1>1. Depth \in 0..Wide /\ Deeper \in 0..Wide
  BY DepthTypes
<1>2. CASE Depth >= Wide
  BY <1>1, <1>2 DEF LoadDeeper, ListModel, Becomes
<1>3. CASE ~(Depth >= Wide)
  BY <1>1, <1>3 DEF LoadDeeper, ListModel, Becomes
<1> QED
  BY <1>2, <1>3

LEMMA DebouncedList ==
  ASSUME list \in ListModel, NEW t, Debounced(t)
  PROVE  IF t = list.seq
         THEN Becomes(list.query, list.seq, list.items, FALSE, FALSE)
         ELSE list' = list
<1>1. 0 \in 0..Wide /\ FALSE \in BOOLEAN
  BY LimitAssumption
<1> QED
  BY <1>1 DEF Debounced, ListModel, Becomes

LEMMA DeletedList ==
  ASSUME list \in ListModel, NEW i, cmds[i] \in Command, Deleted(i)
  PROVE  Becomes(list.query, list.seq, Without(list.items, ToSet(cmds[i].found)),
                 list.exhausted, list.pendingMore)
<1>1. list.items \in Seq(Rows)
  BY DEF ListModel
<1>2. Without(list.items, ToSet(cmds[i].found)) \in Seq(Rows)
  BY <1>1, WithoutList
<1> QED
  BY <1>2 DEF Deleted, ListModel, Becomes

LEMMA AppliedList ==
  ASSUME NEW found \in Seq(Rows)
  PROVE  /\ Applied(found) \in Seq(Rows)
         /\ IsInjective(found) => IsInjective(Applied(found))
BY AmongList DEF Applied

LEMMA AppendedList ==
  ASSUME NEW found \in Seq(Rows), list.items \in Seq(Rows)
  PROVE  /\ Appended(found) \in Seq(Rows)
         /\ IsInjective(list.items) /\ IsInjective(found) => IsInjective(Appended(found))
<1> DEFINE w == Without(found, ToSet(list.items))
<1>1. /\ w \in Seq(Rows) /\ ToSet(w) = ToSet(found) \ ToSet(list.items)
      /\ IsInjective(found) => IsInjective(w)
  BY WithoutList
<1>2. Appended(found) = list.items \o w
  BY DEF Appended
<1> HIDE DEF w
<1>3. ToSet(list.items) \cap ToSet(w) = {}
  BY <1>1
<1> QED
  BY <1>1, <1>2, <1>3, ConcatList

LEMMA StaleList ==
  ASSUME list \in ListModel, NEW i, SearchDone(i), Stale(cmds[i])
  PROVE  Becomes(list.query, list.seq, list.items, list.exhausted, FALSE)
BY DEF SearchDone, Settled, ListModel, Becomes

LEMMA SettledList ==
  ASSUME list \in ListModel, NEW rows \in Seq(Rows), NEW all \in BOOLEAN,
         list' = [Settled EXCEPT !.items = rows, !.exhausted = all]
  PROVE  Becomes(list.query, list.seq, rows, all, FALSE)
BY DEF Settled, ListModel, Becomes

LEMMA ShownList ==
  ASSUME list \in ListModel, NEW i, cmds[i] \in Command, SearchDone(i), ~Stale(cmds[i])
  PROVE  Becomes(list.query, list.seq, ShownItems(cmds[i]), NoMore(cmds[i]), FALSE)
<1> DEFINE c == cmds[i]
<1>1. c \in Command /\ list' = Shown(c)
  BY DEF SearchDone
<1> HIDE DEF c
<1>2. c.found \in Seq(Rows) /\ list.items \in Seq(Rows)
  BY <1>1 DEF Command, ListModel
<1>3. ShownItems(c) \in Seq(Rows)
  BY <1>2, AppliedList, AppendedList DEF ShownItems
<1>4. NoMore(c) \in BOOLEAN
  BY DEF NoMore
<1>5. list' = [Settled EXCEPT !.items = ShownItems(c), !.exhausted = NoMore(c)]
  BY <1>1 DEF Shown
<1> QED
  BY <1>3, <1>4, <1>5, SettledList DEF c

-----------------------------------------------------------------------------
(* Types, and the spinner.                                                 *)

LEMMA Typed ==
  ASSUME TypeOK
  PROVE  /\ store \in Seq(Rows) /\ list \in ListModel /\ cmds \in Seq(Command) /\ shown \in Queries
         /\ timers \subseteq 1..list.seq /\ inFlight \in Nat
         /\ list.query \in Queries /\ list.seq \in Nat /\ list.items \in Seq(Rows)
         /\ list.exhausted \in BOOLEAN /\ list.pendingMore \in BOOLEAN
BY DEF TypeOK, ListModel

(* The command each action adds, if any.                                   *)
DeleteOf(r) ==
  [fetch |-> "delete", seq |-> 0, query |-> list.query, n |-> 0, left |-> 1, found |-> <<r>>]

LEMMA AskAdds ==
  ASSUME TypeOK, NEW q \in Queries, IssueSearch(q)
  PROVE  Adds(Replace(list.seq + 1, q)) /\ inFlight' = inFlight + 1
<1>1. Replace(list.seq + 1, q) \in Command
  BY Typed, SearchTypes
<1> QED
  BY <1>1, Typed, IssueAdds DEF IssueSearch, Issue

LEMMA PageAdds ==
  ASSUME TypeOK, LoadPage
  PROVE  Adds(Search("append", list.seq, list.query, Len(list.items))) /\ inFlight' = inFlight + 1
<1>1. Len(list.items) \in Nat
  BY Typed
<1>2. Search("append", list.seq, list.query, Len(list.items)) \in Command
  BY <1>1, Typed, SearchTypes
<1> QED
  BY <1>2, Typed, IssueAdds DEF LoadPage, NextOffset, Issue

LEMMA DeeperAdds ==
  ASSUME TypeOK, LoadDeeper
  PROVE  IF Depth >= Wide THEN UNCHANGED <<cmds, inFlight>>
         ELSE Adds(Search("grow", list.seq, list.query, Deeper)) /\ inFlight' = inFlight + 1
<1>1. Deeper \in Nat
  BY Typed, DepthTypes, LimitAssumption
<1>2. Search("grow", list.seq, list.query, Deeper) \in Command
  BY <1>1, Typed, SearchTypes
<1> QED
  BY <1>2, Typed, IssueAdds DEF LoadDeeper, Issue

LEMMA DeleteAdds ==
  ASSUME TypeOK, Delete
  PROVE  /\ \E r \in ToSet(list.items) : Adds(DeleteOf(r))
         /\ inFlight' = inFlight + 1
<1>1. PICK r \in ToSet(list.items) : Issue(DeleteOf(r))
  BY DEF Delete, DeleteOf
<1>2. r \in Rows
  BY Typed DEF ToSet
<1>3. DeleteOf(r) \in Command
  BY <1>2, Typed DEF DeleteOf, Command, Fetches
<1> QED
  BY <1>1, <1>3, Typed, IssueAdds DEF Issue

LEMMA DebouncedAdds ==
  ASSUME TypeOK, NEW t \in timers, Debounced(t)
  PROVE  IF t = list.seq THEN Adds(Replace(t, list.query)) /\ inFlight' = inFlight + 1
         ELSE UNCHANGED <<cmds, inFlight>>
<1>1. t \in Nat
  BY Typed
<1>2. Replace(t, list.query) \in Command
  BY <1>1, Typed, SearchTypes
<1> QED
  BY <1>2, Typed, IssueAdds DEF Debounced, Issue

Answers(k) == Fail(k) \/ Deleted(k) \/ SearchDone(k)

LEMMA AnswersLeave ==
  ASSUME TypeOK, NEW k \in DOMAIN cmds, Answers(k)
  PROVE  Leaves(k) /\ Settle(cmds[k])
BY Typed, LeavesOthers DEF Answers, Fail, Deleted, SearchDone

LEMMA SpinnerKept ==
  /\ \A c : SpinnerTruthful /\ Adds(c) /\ inFlight' = inFlight + 1 => SpinnerTruthful'
  /\ \A k \in DOMAIN cmds :
       cmds \in Seq(Command) /\ SpinnerTruthful /\ Leaves(k) /\ Settle(cmds[k]) => SpinnerTruthful'
<1>1. \A c : SpinnerTruthful /\ Adds(c) /\ inFlight' = inFlight + 1 => SpinnerTruthful'
  BY DEF SpinnerTruthful, Adds
<1>2. ASSUME NEW k \in DOMAIN cmds, cmds \in Seq(Command), SpinnerTruthful, Leaves(k), Settle(cmds[k])
      PROVE  SpinnerTruthful'
  <2>1. Len(cmds) \in Nat /\ k \in 1..Len(cmds)
    BY <1>2
  <2> QED
    BY <1>2, <2>1 DEF SpinnerTruthful, Leaves, Remains, Settle
<1> QED
  BY <1>1, <1>2

LEMMA TypeBecomes ==
  ASSUME store' \in Seq(Rows), shown' \in Queries, cmds' \in Seq(Command),
         SpinnerTruthful', list' \in ListModel, timers' \subseteq 1..list'.seq
  PROVE  TypeOK'
<1>1. inFlight' \in Nat
  BY DEF SpinnerTruthful
<1> QED
  BY <1>1 DEF TypeOK, ListModel

TypeSpinner == TypeOK /\ SpinnerTruthful

LEMMA KeyTypes ==
  ASSUME TypeSpinner, User
  PROVE  TypeSpinner'
<1> USE DEF TypeSpinner
<1>0. 1..list.seq \subseteq 1..list.seq + 1 /\ list.seq + 1 \in 1..list.seq + 1
  BY Typed
<1>1. ASSUME NEW q \in Queries, IssueSearch(q) PROVE TypeSpinner'
  <2>1. Becomes(q, list.seq + 1, list.items, FALSE, FALSE) /\ UNCHANGED <<store, shown, timers>>
    BY <1>1, Typed, AskedList DEF IssueSearch
  <2>2. Adds(Replace(list.seq + 1, q)) /\ inFlight' = inFlight + 1
    BY <1>1, AskAdds
  <2>3. SpinnerTruthful'
    BY <2>2, SpinnerKept
  <2> QED
    BY <1>0, <2>1, <2>2, <2>3, Typed, TypeBecomes DEF Becomes, Adds
<1>2. CASE Refresh \/ Toggle \/ Submit
  BY <1>1, <1>2, Typed DEF Refresh, Toggle, Submit
<1>3. CASE Focus
  <2>1. Becomes(list.query, list.seq, list.items, list.exhausted, list.pendingMore)
    BY <1>3, Typed, FocusList
  <2>2. UNCHANGED <<store, shown, timers, cmds, inFlight>>
    BY <1>3 DEF Focus
  <2> QED
    BY <2>1, <2>2, Typed, TypeBecomes DEF Becomes, SpinnerTruthful
<1>4. CASE Type
  <2>1. PICK q \in Queries : Becomes(q, list.seq + 1, list.items, list.exhausted, list.pendingMore)
    BY <1>4, Typed, TypeList
  <2>2. UNCHANGED <<store, shown, cmds, inFlight>> /\ timers' = timers \cup {list.seq + 1}
    BY <1>4 DEF Type
  <2> QED
    BY <1>0, <2>1, <2>2, Typed, TypeBecomes DEF Becomes, SpinnerTruthful
<1>5. CASE LoadPage
  <2>1. Becomes(list.query, list.seq, list.items, list.exhausted, TRUE)
    BY <1>5, Typed, PageList
  <2>2. UNCHANGED <<store, shown, timers>>
    BY <1>5 DEF LoadPage
  <2>3. Adds(Search("append", list.seq, list.query, Len(list.items))) /\ inFlight' = inFlight + 1
    BY <1>5, PageAdds
  <2>4. SpinnerTruthful'
    BY <2>3, SpinnerKept
  <2> QED
    BY <2>1, <2>2, <2>3, <2>4, Typed, TypeBecomes DEF Becomes, Adds
<1>6. CASE LoadDeeper
  <2>1. list' \in ListModel /\ list'.seq = list.seq
    BY <1>6, Typed, DeeperList DEF Becomes
  <2>2. UNCHANGED <<store, shown, timers>>
    BY <1>6 DEF LoadDeeper
  <2>3. SpinnerTruthful' /\ cmds' \in Seq(Command)
    <3>1. CASE Depth >= Wide
      BY <1>6, <3>1, DeeperAdds, Typed DEF SpinnerTruthful
    <3>2. CASE ~(Depth >= Wide)
      <4>1. Adds(Search("grow", list.seq, list.query, Deeper)) /\ inFlight' = inFlight + 1
        BY <1>6, <3>2, DeeperAdds
      <4> QED
        BY <4>1, SpinnerKept DEF Adds
    <3> QED
      BY <3>1, <3>2
  <2> QED
    BY <2>1, <2>2, <2>3, Typed, TypeBecomes
<1>7. CASE Delete
  <2>1. UNCHANGED <<store, list, shown, timers>>
    BY <1>7 DEF Delete
  <2>2. PICK r : Adds(DeleteOf(r)) /\ inFlight' = inFlight + 1
    BY <1>7, DeleteAdds
  <2>3. SpinnerTruthful'
    BY <2>2, SpinnerKept
  <2> QED
    BY <2>1, <2>2, <2>3, Typed, TypeBecomes DEF Adds
<1> QED
  BY <1>2, <1>3, <1>4, <1>5, <1>6, <1>7 DEF User

LEMMA ProgressTypes ==
  ASSUME TypeSpinner, NEW k \in DOMAIN cmds, Progress(k)
  PROVE  TypeSpinner'
<1> USE DEF TypeSpinner
<1>0. cmds[k] \in Command /\ cmds[k].found \in Seq(Rows) /\ cmds[k].query \in Queries
  <2>1. cmds[k] \in Command
    BY Typed
  <2> QED
    BY <2>1 DEF Command
<1>1. CASE Run(k)
  <2>1. Calls(k) /\ UNCHANGED <<list, shown, timers, inFlight>>
    BY <1>1, Typed, RunCalls DEF Run
  <2>2. store' \in Seq(Rows)
    BY <1>1, Typed, WithoutList DEF Run
  <2> QED
    BY <2>1, <2>2, Typed, TypeBecomes DEF Calls, SpinnerTruthful
<1>2. CASE Answers(k)
  <2>1. Leaves(k) /\ Settle(cmds[k])
    BY <1>2, AnswersLeave
  <2>2. SpinnerTruthful' /\ cmds' \in Seq(Command)
    BY <2>1, Typed, SpinnerKept DEF Leaves
  <2>3. CASE Fail(k)
    BY <2>2, <2>3, Typed, TypeBecomes DEF Fail
  <2>4. CASE Deleted(k)
    <3>1. list' \in ListModel /\ list'.seq = list.seq
      BY <1>0, <2>4, Typed, DeletedList DEF Becomes
    <3> QED
      BY <2>2, <2>4, <3>1, Typed, TypeBecomes DEF Deleted
  <2>5. CASE SearchDone(k)
    <3>1. list' \in ListModel /\ list'.seq = list.seq
      BY <1>0, <2>5, Typed, StaleList, ShownList DEF Becomes
    <3>2. shown' \in Queries
      BY <1>0, <2>5, Typed DEF SearchDone
    <3> QED
      BY <2>2, <2>5, <3>1, <3>2, Typed, TypeBecomes DEF SearchDone
  <2> QED
    BY <1>2, <2>3, <2>4, <2>5 DEF Answers
<1> QED
  BY <1>1, <1>2 DEF Progress, Answers

LEMMA StepTypes ==
  ASSUME TypeSpinner, Next
  PROVE  TypeSpinner'
<1>1. CASE User
  BY <1>1, KeyTypes
<1>2. CASE Write
  <2> USE DEF TypeSpinner
  <2>1. UNCHANGED <<list, shown, timers, cmds, inFlight>>
    BY <1>2 DEF Write
  <2>2. store' \in Seq(Rows)
    <3>1. store \in Seq(Rows)
      BY Typed
    <3>2. \A r \in Rows : Append(store, r) \in Seq(Rows)
      BY <3>1
    <3>3. \A r : Without(store, {r}) \in Seq(Rows)
      BY <3>1, WithoutList
    <3> QED
      BY <1>2, <3>2, <3>3 DEF Write
  <2> QED
    BY <2>1, <2>2, Typed, TypeBecomes DEF SpinnerTruthful
<1>3. ASSUME NEW t \in timers, Debounced(t) PROVE TypeSpinner'
  <2> USE DEF TypeSpinner
  <2>1. list' \in ListModel /\ list'.seq = list.seq
    BY <1>3, Typed, DebouncedList DEF Becomes
  <2>2. UNCHANGED <<store, shown>> /\ timers' \subseteq timers
    BY <1>3 DEF Debounced
  <2>3. SpinnerTruthful' /\ cmds' \in Seq(Command)
    <3>1. CASE t = list.seq
      <4>1. Adds(Replace(t, list.query)) /\ inFlight' = inFlight + 1
        BY <1>3, <3>1, DebouncedAdds
      <4> QED
        BY <4>1, SpinnerKept DEF Adds
    <3>2. CASE t # list.seq
      BY <1>3, <3>2, DebouncedAdds, Typed DEF SpinnerTruthful
    <3> QED
      BY <3>1, <3>2
  <2> QED
    BY <2>1, <2>2, <2>3, Typed, TypeBecomes
<1>4. ASSUME NEW k \in DOMAIN cmds, Progress(k) PROVE TypeSpinner'
  BY <1>4, ProgressTypes
<1> QED
  BY <1>1, <1>2, <1>3, <1>4 DEF Next, Timer

-----------------------------------------------------------------------------
(* Which commands there are, and the rows they and the list hold.          *)

LEMMA SeqMoves ==
  ASSUME TypeOK, Next
  PROVE  \/ list'.seq = list.seq + 1
         \/ list'.seq = list.seq /\ list'.query = list.query
<1>1. ASSUME NEW q \in Queries, IssueSearch(q) PROVE list'.seq = list.seq + 1
  BY <1>1, Typed, AskedList DEF Becomes
<1>2. CASE Refresh \/ Toggle \/ Submit
  BY <1>1, <1>2, Typed DEF Refresh, Toggle, Submit
<1>3. CASE Focus
  BY <1>3, Typed, FocusList DEF Becomes
<1>4. CASE Type
  BY <1>4, Typed, TypeList DEF Becomes
<1>5. CASE LoadPage
  BY <1>5, Typed, PageList DEF Becomes
<1>6. CASE LoadDeeper
  BY <1>6, Typed, DeeperList DEF Becomes
<1>7. CASE Delete \/ Write
  BY <1>7 DEF Delete, Write
<1>8. CASE Timer
  BY <1>8, Typed, DebouncedList DEF Timer, Becomes
<1>9. ASSUME NEW k \in DOMAIN cmds, Progress(k)
      PROVE  list'.seq = list.seq /\ list'.query = list.query
  <2>1. cmds[k] \in Command
    BY Typed
  <2>2. CASE Run(k) \/ Fail(k)
    BY <2>2 DEF Run, Fail
  <2>3. CASE Deleted(k)
    BY <2>1, <2>3, Typed, DeletedList DEF Becomes
  <2>4. CASE SearchDone(k)
    BY <2>1, <2>4, Typed, StaleList, ShownList DEF Becomes
  <2> QED
    BY <1>9, <2>2, <2>3, <2>4 DEF Progress
<1> QED
  BY <1>2, <1>3, <1>4, <1>5, <1>6, <1>7, <1>8, <1>9 DEF Next, User

LEMMA EmptyList == IsInjective(<<>>) /\ \A r : IsInjective(<<r>>) /\ Len(<<r>>) = 1
BY DEF IsInjective

LEMMA ReplaceOK == \A s \in Nat, q \in Queries : FetchOK(Replace(s, q), s, q)
BY EmptyList DEF Replace, Search, FetchOK

(* A step leaves the commands alone, adds one that is in order, makes a    *)
(* call, or handles an answer.                                             *)
CmdStep ==
  \/ cmds' = cmds
  \/ \E c \in Command : Adds(c) /\ FetchOK(c, list'.seq, list'.query)
  \/ \E k \in DOMAIN cmds : Run(k) /\ Calls(k) /\ UNCHANGED list
  \/ \E k \in DOMAIN cmds : Answers(k) /\ Leaves(k)

LEMMA CmdMoves ==
  ASSUME TypeOK, Next
  PROVE  CmdStep
<1>1. ASSUME NEW q \in Queries, IssueSearch(q) PROVE CmdStep
  <2>1. list'.seq = list.seq + 1 /\ list'.query = q
    BY <1>1, Typed, AskedList DEF Becomes
  <2>2. Adds(Replace(list.seq + 1, q)) /\ Replace(list.seq + 1, q) \in Command
    BY <1>1, AskAdds, Typed, SearchTypes
  <2>3. FetchOK(Replace(list.seq + 1, q), list'.seq, list'.query)
    <3>1. list.seq + 1 \in Nat
      BY Typed
    <3> QED
      BY <2>1, <3>1, ReplaceOK
  <2> QED
    BY <2>2, <2>3 DEF CmdStep
<1>2. CASE Refresh \/ Toggle \/ Submit
  BY <1>1, <1>2, Typed DEF Refresh, Toggle, Submit
<1>3. CASE Focus \/ Type \/ Write
  BY <1>3 DEF Focus, Type, Write, CmdStep
<1>4. CASE LoadPage
  <2> DEFINE c == Search("append", list.seq, list.query, Len(list.items))
  <2>1. list'.seq = list.seq /\ list'.query = list.query
    BY <1>4, Typed, PageList DEF Becomes
  <2>2. Adds(c)
    BY <1>4, PageAdds
  <2>3. c \in Command
    <3>1. Len(list.items) \in Nat
      BY Typed
    <3> QED
      BY <3>1, Typed, SearchTypes
  <2>4. FetchOK(c, list.seq, list.query)
    BY <1>4, EmptyList, Typed DEF LoadPage, MayLoadMore, FetchOK, Search
  <2> HIDE DEF c
  <2> QED
    BY <2>1, <2>2, <2>3, <2>4 DEF CmdStep
<1>5. CASE LoadDeeper
  <2> DEFINE c == Search("grow", list.seq, list.query, Deeper)
  <2>1. list'.seq = list.seq /\ list'.query = list.query
    BY <1>5, Typed, DeeperList DEF Becomes
  <2>2. c \in Command
    <3>1. Deeper \in Nat
      BY Typed, DepthTypes, LimitAssumption
    <3> QED
      BY <3>1, Typed, SearchTypes
  <2>3. FetchOK(c, list.seq, list.query)
    BY <1>5, EmptyList, Typed DEF LoadDeeper, FetchOK, Search
  <2>4. cmds' = cmds \/ Adds(c)
    BY <1>5, DeeperAdds
  <2> HIDE DEF c
  <2> QED
    BY <2>1, <2>2, <2>3, <2>4 DEF CmdStep
<1>6. CASE Delete
  <2>1. PICK r \in ToSet(list.items) : Adds(DeleteOf(r))
    BY <1>6, DeleteAdds
  <2>2. list' = list
    BY <1>6 DEF Delete
  <2>3. DeleteOf(r) \in Command
    <3>1. r \in Rows
      BY Typed DEF ToSet
    <3> QED
      BY <3>1, Typed DEF DeleteOf, Command, Fetches
  <2>4. FetchOK(DeleteOf(r), list.seq, list.query)
    BY EmptyList DEF FetchOK, DeleteOf
  <2> QED
    BY <2>1, <2>2, <2>3, <2>4 DEF CmdStep
<1>7. ASSUME NEW t \in timers, Debounced(t) PROVE CmdStep
  <2>1. CASE t = list.seq
    <3>1. list'.seq = list.seq /\ list'.query = list.query
      BY <1>7, Typed, DebouncedList DEF Becomes
    <3>2. Adds(Replace(t, list.query)) /\ Replace(t, list.query) \in Command
      BY <1>7, <2>1, DebouncedAdds, Typed, SearchTypes
    <3>3. FetchOK(Replace(t, list.query), list'.seq, list'.query)
      BY <2>1, <3>1, Typed, ReplaceOK
    <3> QED
      BY <3>2, <3>3 DEF CmdStep
  <2>2. CASE t # list.seq
    BY <1>7, <2>2 DEF Debounced, CmdStep
  <2> QED
    BY <2>1, <2>2
<1>8. ASSUME NEW k \in DOMAIN cmds, Progress(k) PROVE CmdStep
  <2>1. CASE Run(k)
    <3>1. Calls(k) /\ UNCHANGED list
      BY <2>1, Typed, RunCalls DEF Run
    <3> QED
      BY <2>1, <3>1 DEF CmdStep
  <2>2. CASE Answers(k)
    BY <2>2, AnswersLeave DEF CmdStep
  <2> QED
    BY <1>8, <2>1, <2>2 DEF Progress, Answers
<1> QED
  BY <1>2, <1>3, <1>4, <1>5, <1>6, <1>7, <1>8 DEF Next, User, Timer

LEMMA FetchMoves ==
  ASSUME NEW c \in Command, list.seq \in Nat, FetchOK(c, list.seq, list.query),
         \/ list'.seq = list.seq + 1
         \/ list'.seq = list.seq /\ list'.query = list.query
  PROVE  FetchOK(c, list'.seq, list'.query)
<1>1. c.seq \in Nat
  BY DEF Command
<1> QED
  BY <1>1 DEF FetchOK

LEMMA FetchingKept ==
  ASSUME TypeOK, Fetching, IsInjective(store), Next
  PROVE  Fetching'
<1>0. list.seq \in Nat /\ cmds \in Seq(Command)
  BY Typed
<1>1. \/ list'.seq = list.seq + 1
      \/ list'.seq = list.seq /\ list'.query = list.query
  BY SeqMoves
<1>2. list'.seq > 0
  BY <1>0, <1>1 DEF Fetching
<1>3. \A i \in DOMAIN cmds : cmds[i] \in Command /\ FetchOK(cmds[i], list'.seq, list'.query)
  <2> SUFFICES ASSUME NEW i \in DOMAIN cmds
               PROVE  cmds[i] \in Command /\ FetchOK(cmds[i], list'.seq, list'.query)
    OBVIOUS
  <2>1. cmds[i] \in Command /\ FetchOK(cmds[i], list.seq, list.query)
    BY <1>0 DEF Fetching
  <2> QED
    BY <1>0, <1>1, <2>1, FetchMoves
<1>4. SUFFICES \A i \in DOMAIN cmds' : FetchOK(cmds'[i], list'.seq, list'.query)
  BY <1>2, <1>4 DEF Fetching
<1>5. CASE cmds' = cmds
  BY <1>3, <1>5
<1>6. CASE \E c \in Command : Adds(c) /\ FetchOK(c, list'.seq, list'.query)
  BY <1>3, <1>6 DEF Adds
<1>7. ASSUME NEW k \in DOMAIN cmds, Run(k), Calls(k), UNCHANGED list
      PROVE  \A i \in DOMAIN cmds' : FetchOK(cmds'[i], list'.seq, list'.query)
  <2>1. cmds[k].left > 0 /\ store \in Seq(Rows)
    BY <1>7, Typed DEF Run
  <2>2. cmds[k].left \in 0..3
    BY <1>3 DEF Command
  <2>3. IsInjective(cmds[k].found)
    BY <1>3 DEF FetchOK
  <2>4. IsInjective(Answered(cmds[k]))
    BY <1>3, <2>1, <2>3, AnsweredList
  <2>5. cmds[k].fetch = "delete" => Answered(cmds[k]) = cmds[k].found
    BY DEF Answered
  <2>6. FetchOK(cmds'[k], list'.seq, list'.query)
    BY <1>3, <1>7, <2>2, <2>4, <2>5 DEF FetchOK, Calls
  <2> QED
    BY <1>3, <1>7, <2>6 DEF Calls
<1>8. ASSUME NEW k \in DOMAIN cmds, Leaves(k)
      PROVE  \A i \in DOMAIN cmds' : FetchOK(cmds'[i], list'.seq, list'.query)
  BY <1>3, <1>8 DEF Leaves, Remains
<1> QED
  BY <1>5, <1>6, <1>7, <1>8, CmdMoves DEF CmdStep

(* The rows of the store: only Run and Write change them.                  *)
LEMMA DistinctStore ==
  ASSUME TypeOK, Distinct, Next
  PROVE  IsInjective(store') /\ ToSet(store') \subseteq ToSet(Stored) \cup writes'
<1>0. store \in Seq(Rows) /\ IsInjective(store) /\ ToSet(store) \subseteq ToSet(Stored) \cup writes
  BY Typed DEF Distinct
<1>1. \A S : /\ IsInjective(Without(store, S))
             /\ ToSet(Without(store, S)) \subseteq ToSet(Stored) \cup writes
  BY <1>0, WithoutList
<1>2. CASE UNCHANGED <<store, writes>>
  BY <1>0, <1>2
<1>3. CASE Write
  <2>1. PICK r \in Rows \ writes :
          /\ \/ r \notin ToSet(Stored) /\ store' = Append(store, r)
             \/ store' = Without(store, {r})
          /\ writes' = writes \cup {r}
    BY <1>3 DEF Write
  <2>2. CASE store' = Without(store, {r})
    BY <1>1, <2>1, <2>2
  <2>3. CASE r \notin ToSet(Stored) /\ store' = Append(store, r)
    <3>1. r \notin ToSet(store)
      BY <1>0, <2>1, <2>3
    <3>2. ToSet(store') = ToSet(store) \cup {r} /\ IsInjective(store')
      BY <1>0, <2>1, <2>3, <3>1, AppendList
    <3> QED
      BY <1>0, <2>1, <3>2
  <2> QED
    BY <2>1, <2>2, <2>3
<1>4. ASSUME NEW k \in DOMAIN cmds, Run(k) PROVE UNCHANGED writes /\ \E S : store' = Without(store, S) \/ store' = store
  BY <1>4 DEF Run, history
<1>5. CASE User \/ Timer
  BY <1>2, <1>5 DEF User, Timer, Refresh, Toggle, Submit, IssueSearch, Focus, Type, LoadPage,
                    LoadDeeper, Delete, Debounced, history
<1>6. ASSUME NEW k \in DOMAIN cmds, Answers(k) PROVE UNCHANGED <<store, writes>>
  BY <1>6 DEF Answers, Fail, Deleted, SearchDone, history
<1> QED
  BY <1>0, <1>1, <1>2, <1>3, <1>4, <1>5, <1>6 DEF Next, Progress, Answers

LEMMA DistinctKept ==
  ASSUME TypeOK, Fetching, Distinct, Next
  PROVE  Distinct'
<1>0. IsInjective(list.items) /\ list.items \in Seq(Rows)
  BY Typed DEF Distinct, NoDuplicates
<1>1. SUFFICES IsInjective(list'.items)
  BY DistinctStore DEF Distinct, NoDuplicates
<1>2. ASSUME NEW q \in Queries, IssueSearch(q) PROVE list'.items = list.items
  BY <1>2, Typed, AskedList DEF Becomes
<1>3. CASE Refresh \/ Toggle \/ Submit
  BY <1>0, <1>2, <1>3, Typed DEF Refresh, Toggle, Submit
<1>4. CASE Focus \/ Type \/ LoadPage \/ LoadDeeper
  BY <1>0, <1>4, Typed, FocusList, TypeList, PageList, DeeperList DEF Becomes
<1>5. CASE Delete \/ Write
  BY <1>0, <1>5 DEF Delete, Write
<1>6. CASE Timer
  BY <1>0, <1>6, Typed, DebouncedList DEF Timer, Becomes
<1>7. ASSUME NEW k \in DOMAIN cmds, Progress(k) PROVE IsInjective(list'.items)
  <2>1. /\ cmds[k] \in Command /\ cmds[k].found \in Seq(Rows)
        /\ IsInjective(cmds[k].found)
    <3>1. cmds[k] \in Command
      BY Typed
    <3> QED
      BY <3>1 DEF Fetching, FetchOK, Command
  <2>2. CASE Run(k) \/ Fail(k)
    BY <1>0, <2>2 DEF Run, Fail
  <2>3. CASE Deleted(k)
    <3>1. list'.items = Without(list.items, ToSet(cmds[k].found))
      BY <2>1, <2>3, Typed, DeletedList DEF Becomes
    <3>2. IsInjective(Without(list.items, ToSet(cmds[k].found)))
      BY <1>0, WithoutList
    <3> QED
      BY <3>1, <3>2
  <2>4. CASE SearchDone(k)
    <3>1. list'.items = list.items \/ list'.items = ShownItems(cmds[k])
      BY <2>1, <2>4, Typed, StaleList, ShownList DEF Becomes
    <3>2. IsInjective(ShownItems(cmds[k]))
      BY <1>0, <2>1, AppliedList, AppendedList DEF ShownItems
    <3> QED
      BY <1>0, <3>1, <3>2
  <2> QED
    BY <1>7, <2>2, <2>3, <2>4 DEF Progress
<1> QED
  BY <1>3, <1>4, <1>5, <1>6, <1>7 DEF Next, User

-----------------------------------------------------------------------------
(* What the list waits for.                                                *)

LEMMA StillAwaited ==
  ASSUME NEW CONSTANT F, cmds \in Seq(Command), Awaited(F), list'.seq = list.seq,
         \/ cmds' = cmds
         \/ \E c : Adds(c)
         \/ \E k \in DOMAIN cmds : Calls(k)
         \/ \E k \in DOMAIN cmds : Leaves(k) /\ ~(cmds[k].fetch \in F /\ cmds[k].seq = list.seq)
  PROVE  Awaited(F)'
<1>1. PICK i \in DOMAIN cmds : cmds[i].fetch \in F /\ cmds[i].seq = list.seq
  BY DEF Awaited
<1>2. SUFFICES \E j \in DOMAIN cmds' : cmds'[j].fetch \in F /\ cmds'[j].seq = list.seq
  BY <1>2 DEF Awaited
<1>3. CASE cmds' = cmds
  BY <1>1, <1>3
<1>4. CASE \E c : Adds(c)
  BY <1>1, <1>4 DEF Adds
<1>5. CASE \E k \in DOMAIN cmds : Calls(k)
  BY <1>1, <1>5 DEF Calls
<1>6. ASSUME NEW k \in DOMAIN cmds, Leaves(k), ~(cmds[k].fetch \in F /\ cmds[k].seq = list.seq)
      PROVE  \E j \in DOMAIN cmds' : cmds'[j].fetch \in F /\ cmds'[j].seq = list.seq
  <2>1. i \in DOMAIN cmds \ {k}
    BY <1>1, <1>6
  <2>2. PICK j \in DOMAIN cmds' : Was(k, j) = i
    BY <1>6, <2>1 DEF Leaves, Remains
  <2> QED
    BY <1>1, <1>6, <2>2 DEF Leaves, Remains
<1> QED
  BY <1>3, <1>4, <1>5, <1>6

LEMMA NowAwaited ==
  ASSUME NEW CONSTANT F, NEW c, Adds(c), c.fetch \in F, c.seq = list'.seq
  PROVE  Awaited(F)'
BY DEF Adds, Awaited

Waits == OnItsWay /\ Guarded

(* Nothing that matters to a wait has changed.                             *)
LEMMA SameWaits ==
  ASSUME cmds \in Seq(Command), Waits,
         list'.seq = list.seq, list'.query = list.query, shown' = shown,
         list'.pendingMore => list.pendingMore,
         list.seq \in timers => list.seq \in timers', fails \subseteq fails',
         \/ cmds' = cmds
         \/ \E c : Adds(c)
         \/ \E k \in DOMAIN cmds : Calls(k)
         \/ \E k \in DOMAIN cmds : Leaves(k) /\ (cmds[k].fetch = "delete" \/ cmds[k].seq # list.seq)
  PROVE  Waits'
<1>1. Awaited({"replace"}) => Awaited({"replace"})'
  BY StillAwaited
<1>2. Awaited({"append", "grow"}) => Awaited({"append", "grow"})'
  BY StillAwaited
<1> QED
  BY <1>1, <1>2 DEF Waits, OnItsWay, Guarded

LEMMA KeyWaits ==
  ASSUME TypeOK, Waits, User
  PROVE  Waits'
<1>0. cmds \in Seq(Command)
  BY Typed
<1>1. ASSUME NEW q \in Queries, IssueSearch(q) PROVE Waits'
  <2>1. list'.seq = list.seq + 1 /\ ~list'.pendingMore
    BY <1>1, Typed, AskedList DEF Becomes
  <2>2. Adds(Replace(list.seq + 1, q))
    BY <1>1, AskAdds
  <2>3. Awaited({"replace"})'
    <3>1. Replace(list.seq + 1, q).fetch = "replace" /\ Replace(list.seq + 1, q).seq = list'.seq
      BY <2>1 DEF Replace, Search
    <3> QED
      BY <2>2, <3>1, NowAwaited
  <2> QED
    BY <2>1, <2>3 DEF Waits, OnItsWay, Guarded
<1>2. CASE Refresh \/ Toggle \/ Submit
  BY <1>1, <1>2, Typed DEF Refresh, Toggle, Submit
<1>3. CASE Focus
  <2>1. Becomes(list.query, list.seq, list.items, list.exhausted, list.pendingMore)
    BY <1>3, Typed, FocusList
  <2> QED
    BY <1>0, <1>3, <2>1, SameWaits DEF Focus, Becomes, history
<1>4. CASE Type
  <2>1. list'.seq = list.seq + 1
    BY <1>4, Typed, TypeList DEF Becomes
  <2>2. timers' = timers \cup {list.seq + 1}
    BY <1>4 DEF Type
  <2> QED
    BY <2>1, <2>2 DEF Waits, OnItsWay, Guarded
<1>5. CASE LoadPage
  <2> DEFINE c == Search("append", list.seq, list.query, Len(list.items))
  <2>1. Becomes(list.query, list.seq, list.items, list.exhausted, TRUE)
    BY <1>5, Typed, PageList
  <2>2. Adds(c) /\ c.fetch = "append" /\ c.seq = list.seq
    BY <1>5, PageAdds DEF Search
  <2>3. UNCHANGED <<shown, timers, fails>>
    BY <1>5 DEF LoadPage, history
  <2> HIDE DEF c
  <2>4. Awaited({"append", "grow"})'
    BY <2>1, <2>2, NowAwaited DEF Becomes
  <2>5. Awaited({"replace"}) => Awaited({"replace"})'
    BY <1>0, <2>1, <2>2, StillAwaited DEF Becomes
  <2> QED
    BY <2>1, <2>3, <2>4, <2>5 DEF Waits, OnItsWay, Guarded, Becomes
<1>6. CASE LoadDeeper
  <2>0. UNCHANGED <<shown, timers, fails>>
    BY <1>6 DEF LoadDeeper, history
  <2>1. CASE Depth >= Wide
    <3>1. Becomes(list.query, list.seq, list.items, TRUE, list.pendingMore) /\ cmds' = cmds
      BY <1>6, <2>1, Typed, DeeperList, DeeperAdds
    <3> QED
      BY <1>0, <2>0, <3>1, SameWaits DEF Becomes
  <2>2. CASE ~(Depth >= Wide)
    <3> DEFINE c == Search("grow", list.seq, list.query, Deeper)
    <3>1. Becomes(list.query, list.seq, list.items, list.exhausted, TRUE)
      BY <1>6, <2>2, Typed, DeeperList
    <3>2. Adds(c) /\ c.fetch = "grow" /\ c.seq = list.seq
      BY <1>6, <2>2, DeeperAdds DEF Search
    <3> HIDE DEF c
    <3>3. Awaited({"append", "grow"})'
      BY <3>1, <3>2, NowAwaited DEF Becomes
    <3>4. Awaited({"replace"}) => Awaited({"replace"})'
      BY <1>0, <3>1, <3>2, StillAwaited DEF Becomes
    <3> QED
      BY <2>0, <3>1, <3>3, <3>4 DEF Waits, OnItsWay, Guarded, Becomes
  <2> QED
    BY <2>1, <2>2
<1>7. CASE Delete
  <2>1. PICK r : Adds(DeleteOf(r))
    BY <1>7, DeleteAdds
  <2> QED
    BY <1>0, <1>7, <2>1, SameWaits DEF Delete, history
<1> QED
  BY <1>2, <1>3, <1>4, <1>5, <1>6, <1>7 DEF User

LEMMA AnswerWaits ==
  ASSUME TypeOK, Fetching, Waits, NEW k \in DOMAIN cmds, Answers(k)
  PROVE  Waits'
<1>0. cmds \in Seq(Command) /\ cmds[k] \in Command /\ FetchOK(cmds[k], list.seq, list.query)
  BY Typed DEF Fetching
<1>1. Leaves(k)
  BY AnswersLeave
<1>2. CASE Fail(k)
  <2>1. UNCHANGED <<list, shown, timers>> /\ fails \subseteq fails'
    BY <1>2 DEF Fail
  <2>2. CASE cmds[k].fetch = "delete" \/ cmds[k].seq # list.seq
    BY <1>0, <1>1, <2>1, <2>2, SameWaits
  <2>3. CASE cmds[k].fetch # "delete" /\ cmds[k].seq = list.seq
    <3>1. list.seq \in fails'
      BY <1>2, <2>3 DEF Fail, Gone
    <3> QED
      BY <2>1, <3>1 DEF Waits, OnItsWay, Guarded
  <2> QED
    BY <2>2, <2>3
<1>3. CASE Deleted(k)
  <2>1. UNCHANGED <<shown, timers, fails>> /\ cmds[k].fetch = "delete"
    BY <1>3 DEF Deleted, history
  <2>2. list'.seq = list.seq /\ list'.query = list.query /\ list'.pendingMore = list.pendingMore
    BY <1>0, <1>3, Typed, DeletedList DEF Becomes
  <2> QED
    BY <1>0, <1>1, <2>1, <2>2, SameWaits
<1>4. CASE SearchDone(k)
  <2>0. UNCHANGED <<timers, fails>> /\ cmds[k].fetch # "delete"
    BY <1>4 DEF SearchDone, history
  <2>1. list'.seq = list.seq /\ list'.query = list.query /\ ~list'.pendingMore
    BY <1>0, <1>4, Typed, StaleList, ShownList DEF Becomes
  <2>2. CASE Stale(cmds[k])
    <3>1. shown' = shown /\ cmds[k].seq # list.seq
      BY <1>4, <2>2 DEF SearchDone, Stale
    <3> QED
      BY <1>0, <1>1, <2>0, <2>1, <3>1, SameWaits
  <2>3. CASE ~Stale(cmds[k]) /\ cmds[k].fetch = "append"
    <3>1. shown' = shown
      BY <1>4, <2>3 DEF SearchDone
    <3>2. Awaited({"replace"}) => Awaited({"replace"})'
      BY <1>0, <1>1, <2>1, <2>3, StillAwaited
    <3> QED
      BY <2>0, <2>1, <3>1, <3>2 DEF Waits, OnItsWay, Guarded
  <2>4. CASE ~Stale(cmds[k]) /\ cmds[k].fetch # "append"
    <3>1. shown' = cmds[k].query
      BY <1>4, <2>4 DEF SearchDone
    <3>2. cmds[k].query = list.query
      BY <1>0, <2>0, <2>4 DEF Stale, FetchOK
    <3> QED
      BY <2>1, <3>1, <3>2 DEF Waits, OnItsWay, Guarded
  <2> QED
    BY <2>2, <2>3, <2>4
<1> QED
  BY <1>2, <1>3, <1>4 DEF Answers

LEMMA StepWaits ==
  ASSUME TypeOK, Fetching, Waits, Next
  PROVE  Waits'
<1>0. cmds \in Seq(Command)
  BY Typed
<1>1. CASE User
  BY <1>1, KeyWaits
<1>2. CASE Write
  BY <1>0, <1>2, SameWaits DEF Write
<1>3. ASSUME NEW t \in timers, Debounced(t) PROVE Waits'
  <2>0. UNCHANGED <<shown, fails>> /\ timers' = timers \ {t}
    BY <1>3 DEF Debounced, history
  <2>1. CASE t = list.seq
    <3>1. list'.seq = list.seq /\ ~list'.pendingMore
      BY <1>3, <2>1, Typed, DebouncedList DEF Becomes
    <3>2. Adds(Replace(t, list.query))
      BY <1>3, <2>1, DebouncedAdds
    <3>3. Awaited({"replace"})'
      <4>1. Replace(t, list.query).fetch = "replace" /\ Replace(t, list.query).seq = list'.seq
        BY <2>1, <3>1 DEF Replace, Search
      <4> QED
        BY <3>2, <4>1, NowAwaited
    <3> QED
      BY <3>1, <3>3 DEF Waits, OnItsWay, Guarded
  <2>2. CASE t # list.seq
    BY <1>0, <1>3, <2>0, <2>2, SameWaits DEF Debounced
  <2> QED
    BY <2>1, <2>2
<1>4. ASSUME NEW k \in DOMAIN cmds, Run(k) PROVE Waits'
  <2>1. Calls(k)
    BY <1>4, Typed, RunCalls
  <2> QED
    BY <1>0, <1>4, <2>1, SameWaits DEF Run, history
<1>5. ASSUME NEW k \in DOMAIN cmds, Answers(k) PROVE Waits'
  BY <1>5, AnswerWaits
<1> QED
  BY <1>1, <1>2, <1>3, <1>4, <1>5 DEF Next, Timer, Progress, Answers

LEMMA WaitsShown ==
  ASSUME cmds \in Seq(Command), Waits
  PROVE  ShownIsCurrent /\ GuardReleased
<1>1. ShownIsCurrent
  BY DEF ShownIsCurrent, Quiet, Waits, OnItsWay, Awaited
<1>2. GuardReleased
  BY DEF GuardReleased, Waits, Guarded, Awaited
<1> QED
  BY <1>1, <1>2

-----------------------------------------------------------------------------
(* Prefixes and pages.                                                     *)

LEMMA Halves ==
  ASSUME NEW R, NEW s \in Seq(R), NEW n \in 0..Len(s)
  PROVE  /\ SubSeq(s, 1, n) \in Seq(R) /\ Len(SubSeq(s, 1, n)) = n
         /\ SubSeq(s, n + 1, Len(s)) \in Seq(R) /\ Len(SubSeq(s, n + 1, Len(s))) = Len(s) - n
         /\ s = SubSeq(s, 1, n) \o SubSeq(s, n + 1, Len(s))
<1> DEFINE a == SubSeq(s, 1, n)
           b == SubSeq(s, n + 1, Len(s))
           m == Len(s)
<1>0. m \in Nat /\ n \in Nat /\ n <= m /\ \A i \in 1..m : s[i] \in R
  OBVIOUS
<1>1. a \in Seq(R) /\ Len(a) = n /\ \A i \in 1..n : a[i] = s[i]
  BY <1>0
<1>2. b \in Seq(R) /\ Len(b) = m - n /\ \A i \in 1..m - n : b[i] = s[n + i]
  BY <1>0
<1> HIDE DEF a, b, m
<1>3. a \o b \in Seq(R) /\ Len(a \o b) = m
  BY <1>0, <1>1, <1>2
<1>4. ASSUME NEW i \in 1..m PROVE (a \o b)[i] = s[i]
  <2>1. CASE i <= n
    <3>1. i \in 1..Len(a)
      BY <1>0, <1>1, <2>1
    <3>2. (a \o b)[i] = a[i]
      BY <1>1, <1>2, <3>1, Joined
    <3> QED
      BY <1>1, <3>1, <3>2
  <2>2. CASE ~(i <= n)
    <3>1. /\ i \in 1..Len(a) + Len(b) /\ i > Len(a)
          /\ i - n \in 1..m - n /\ n + (i - n) = i
      <4>1. Len(a) = n /\ Len(b) = m - n
        BY <1>1, <1>2
      <4> QED
        BY <1>0, <2>2, <4>1
    <3>2. (a \o b)[i] = b[i - n]
      <4>1. (a \o b)[i] = b[i - Len(a)]
        BY <1>1, <1>2, <3>1, Joined
      <4> QED
        BY <1>1, <4>1
    <3>3. b[i - n] = s[n + (i - n)]
      BY <1>2, <3>1
    <3> QED
      BY <3>1, <3>2, <3>3
  <2> QED
    BY <2>1, <2>2
<1>5. s = a \o b
  <2>1. Len(s) = Len(a \o b) /\ \A i \in 1..Len(s) : s[i] = (a \o b)[i]
    BY <1>3, <1>4 DEF m
  <2> QED
    BY <1>3, <2>1, SeqEqual
<1> QED
  BY <1>1, <1>2, <1>5 DEF a, b, m

LEMMA WholeSub ==
  ASSUME NEW R, NEW s \in Seq(R)
  PROVE  SubSeq(s, 1, Len(s)) = s
<1> DEFINE t == SubSeq(s, 1, Len(s))
<1>1. Len(s) \in 0..Len(s)
  OBVIOUS
<1>2. t \in Seq(R) /\ Len(t) = Len(s)
  BY <1>1, Halves
<1>3. \A i \in 1..Len(s) : t[i] = s[i]
  OBVIOUS
<1> HIDE DEF t
<1>4. t = s
  BY <1>2, <1>3, SeqEqual
<1> QED
  BY <1>4 DEF t

LEMMA PrefixRest ==
  ASSUME NEW R, NEW s \in Seq(R), NEW t \in Seq(R), IsPrefix(s, t)
  PROVE  /\ Len(s) \in 0..Len(t) /\ SubSeq(t, Len(s) + 1, Len(t)) \in Seq(R)
         /\ t = s \o SubSeq(t, Len(s) + 1, Len(t))
<1>1. Len(s) \in 0..Len(t)
  BY DEF IsPrefix
<1>2. SubSeq(t, 1, Len(s)) = s
  BY WholeSub DEF IsPrefix
<1> QED
  BY <1>1, <1>2, Halves

LEMMA ConcatPrefix ==
  ASSUME NEW R
  PROVE  \A s, u \in Seq(R) : IsPrefix(s, s \o u)
<1> SUFFICES ASSUME NEW s \in Seq(R), NEW u \in Seq(R)
             PROVE  IsPrefix(s, s \o u)
  OBVIOUS
<1> DEFINE t == s \o u
           n == Len(s)
           a == SubSeq(t, 1, n)
<1>1. t \in Seq(R) /\ Len(t) = n + Len(u) /\ n \in Nat /\ Len(u) \in Nat /\ \A i \in 1..n : t[i] = s[i]
  BY Joined
<1> HIDE DEF t
<1>2. n \in 0..Len(t)
  BY <1>1
<1>3. a \in Seq(R) /\ Len(a) = n
  BY <1>1, <1>2, Halves
<1>4. \A i \in 1..n : a[i] = t[i]
  BY <1>1, <1>2
<1> HIDE DEF a
<1>5. a = s
  BY <1>1, <1>3, <1>4, SeqEqual
<1>6. SubSeq(s, 1, Len(s)) = s
  BY WholeSub
<1> QED
  BY <1>2, <1>5, <1>6 DEF IsPrefix, a, t, n

LEMMA EmptyPrefix ==
  ASSUME NEW R
  PROVE  \A t \in Seq(R) : IsPrefix(<<>>, t)
<1> SUFFICES ASSUME NEW t \in Seq(R) PROVE IsPrefix(<<>>, t)
  OBVIOUS
<1>1. <<>> \o t = t /\ <<>> \in Seq(R)
  BY ConcatEmptySeq
<1>2. IsPrefix(<<>>, <<>> \o t)
  BY <1>1, ConcatPrefix
<1> QED
  BY <1>1, <1>2

LEMMA AmongPrefix ==
  ASSUME NEW R, NEW A
  PROVE  \A s, t \in Seq(R) : IsPrefix(s, t) => IsPrefix(Among(s, A), Among(t, A))
<1> SUFFICES ASSUME NEW s \in Seq(R), NEW t \in Seq(R), IsPrefix(s, t)
             PROVE  IsPrefix(Among(s, A), Among(t, A))
  OBVIOUS
<1> DEFINE u == SubSeq(t, Len(s) + 1, Len(t))
<1>1. u \in Seq(R) /\ t = s \o u
  BY PrefixRest
<1> HIDE DEF u
<1>2. Among(s \o u, A) = Among(s, A) \o Among(u, A)
  BY <1>1, AmongConcat
<1>3. Among(s, A) \in Seq(R) /\ Among(u, A) \in Seq(R)
  BY <1>1, AmongList
<1>4. IsPrefix(Among(s, A), Among(s, A) \o Among(u, A))
  BY <1>3, ConcatPrefix
<1> QED
  BY <1>1, <1>2, <1>4

(* Taking the first elements: a prefix, and all of it if it falls short.   *)
LEMMA TakeFront ==
  ASSUME NEW R
  PROVE  \A s \in Seq(R), l \in Nat :
           /\ Take(s, l) \in Seq(R)
           /\ SubSeq(s, Len(Take(s, l)) + 1, Len(s)) \in Seq(R)
           /\ s = Take(s, l) \o SubSeq(s, Len(Take(s, l)) + 1, Len(s))
           /\ Len(Take(s, l)) < l => Take(s, l) = s
<1> SUFFICES ASSUME NEW s \in Seq(R), NEW l \in Nat
             PROVE  /\ Take(s, l) \in Seq(R)
                    /\ SubSeq(s, Len(Take(s, l)) + 1, Len(s)) \in Seq(R)
                    /\ s = Take(s, l) \o SubSeq(s, Len(Take(s, l)) + 1, Len(s))
                    /\ Len(Take(s, l)) < l => Take(s, l) = s
  OBVIOUS
<1> DEFINE n == IF l < Len(s) THEN l ELSE Len(s)
           a == Take(s, l)
<1>1. n \in 0..Len(s) /\ (n < l => n = Len(s))
  OBVIOUS
<1>2. a = SubSeq(s, 1, n)
  BY DEF Take
<1> HIDE DEF n, a
<1>3. a \in Seq(R) /\ Len(a) = n
  BY <1>1, <1>2, Halves
<1>4. SubSeq(s, n + 1, Len(s)) \in Seq(R) /\ s = a \o SubSeq(s, n + 1, Len(s))
  BY <1>1, <1>2, Halves
<1>5. n = Len(s) => a = s
  BY <1>2, WholeSub
<1>6. /\ SubSeq(s, Len(a) + 1, Len(s)) \in Seq(R)
      /\ s = a \o SubSeq(s, Len(a) + 1, Len(s))
  BY <1>3, <1>4
<1>7. Len(a) < l => a = s
  BY <1>1, <1>3, <1>5
<1> QED
  BY <1>3, <1>6, <1>7 DEF a

(* The page after the rows of a prefix: it continues the prefix, repeats   *)
(* none of its rows, and completes it when it is not full.                 *)
PageAfter(s, t, l) == Take(SubSeq(t, Len(s) + 1, Len(t)), l)

LEMMA PageContinues ==
  ASSUME NEW R
  PROVE  \A s, t \in Seq(R), l \in Nat :
           IsPrefix(s, t) /\ IsInjective(t) =>
             /\ PageAfter(s, t, l) \in Seq(R) /\ IsPrefix(s \o PageAfter(s, t, l), t)
             /\ ToSet(PageAfter(s, t, l)) \cap ToSet(s) = {}
             /\ Len(PageAfter(s, t, l)) < l => s \o PageAfter(s, t, l) = t
<1> SUFFICES ASSUME NEW s \in Seq(R), NEW t \in Seq(R), NEW l \in Nat,
                    IsPrefix(s, t), IsInjective(t), NEW p, p = PageAfter(s, t, l)
             PROVE  /\ p \in Seq(R) /\ IsPrefix(s \o p, t)
                    /\ ToSet(p) \cap ToSet(s) = {}
                    /\ Len(p) < l => s \o p = t
  OBVIOUS
<1> DEFINE u == SubSeq(t, Len(s) + 1, Len(t))
<1>1. u \in Seq(R) /\ t = s \o u
  BY PrefixRest
<1>2. p = Take(u, l)
  BY DEF PageAfter
<1> HIDE DEF u
<1>3. /\ Take(u, l) \in Seq(R)
      /\ SubSeq(u, Len(Take(u, l)) + 1, Len(u)) \in Seq(R)
      /\ u = Take(u, l) \o SubSeq(u, Len(Take(u, l)) + 1, Len(u))
      /\ Len(Take(u, l)) < l => Take(u, l) = u
  BY <1>1, TakeFront
<1>4. p \in Seq(R) /\ (Len(p) < l => p = u)
  BY <1>2, <1>3
<1> DEFINE v == SubSeq(u, Len(p) + 1, Len(u))
<1>5. v \in Seq(R) /\ u = p \o v
  BY <1>2, <1>3
<1> HIDE DEF v
<1>6. t = (s \o p) \o v /\ s \o p \in Seq(R)
  <2>1. (s \o p) \o v = s \o (p \o v)
    <3>1. s \in Seq(R) /\ p \in Seq(R) /\ v \in Seq(R)
      BY <1>4, <1>5
    <3> QED
      BY <3>1, ConcatAssociative
  <2>2. s \o p \in Seq(R)
    BY <1>4, ConcatProperties
  <2> QED
    BY <1>1, <1>5, <2>1, <2>2
<1>7. IsPrefix(s \o p, (s \o p) \o v)
  BY <1>5, <1>6, ConcatPrefix
<1>8. ToSet(p) \cap ToSet(s) = {}
  <2> SUFFICES ASSUME NEW i \in DOMAIN s, NEW j \in DOMAIN p, s[i] = p[j]
               PROVE  FALSE
    BY DEF ToSet
  <2>1. /\ Len(s) \in Nat /\ Len(p) \in Nat /\ Len(u) = Len(p) + Len(v) /\ Len(v) \in Nat
        /\ i \in 1..Len(s) /\ j \in 1..Len(p)
    BY <1>4, <1>5, Joined
  <2>2. u[j] = p[j] /\ j \in 1..Len(u)
    BY <1>4, <1>5, <2>1, Joined
  <2>3. t[i] = s[i] /\ Len(t) = Len(s) + Len(u)
    <3>1. /\ Len(s \o u) = Len(s) + Len(u)
          /\ \A h \in 1..Len(s) : (s \o u)[h] = s[h]
      BY <1>1, Joined
    <3> QED
      BY <1>1, <2>1, <3>1
  <2>4. Len(s) + j \in 1..Len(s) + Len(u) /\ Len(s) + j > Len(s) /\ (Len(s) + j) - Len(s) = j
    BY <2>1
  <2>5. t[Len(s) + j] = u[j]
    <3>1. t[Len(s) + j] = u[(Len(s) + j) - Len(s)]
      BY <1>1, <2>4, Joined
    <3> QED
      BY <2>4, <3>1
  <2>6. i \in DOMAIN t /\ Len(s) + j \in DOMAIN t /\ i # Len(s) + j
    <3>1. DOMAIN t = 1..Len(s) + Len(u)
      BY <2>3
    <3>2. i \in 1..Len(s) + Len(u) /\ i # Len(s) + j
      BY <2>1
    <3> QED
      BY <2>4, <3>1, <3>2
  <2> QED
    BY <2>2, <2>3, <2>5, <2>6 DEF IsInjective
<1> QED
  BY <1>1, <1>4, <1>6, <1>7, <1>8

LEMMA WithoutNone ==
  ASSUME NEW R, NEW S
  PROVE  \A s \in Seq(R) : ToSet(s) \cap S = {} => Without(s, S) = s
<1> SUFFICES ASSUME NEW s \in Seq(R), ToSet(s) \cap S = {}
             PROVE  Without(s, S) = s
  OBVIOUS
<1>1. ToSet(s) \subseteq R
  BY DEF ToSet
<1>2. Among(s, ToSet(s) \ S) = Among(s, R)
  <2>1. ToSet(s) \cap (ToSet(s) \ S) = ToSet(s) \cap R
    BY <1>1
  <2> QED
    BY <2>1, AmongAgree
<1> QED
  BY <1>2, AmongAll DEF Without

(* Removing rows from the store removes them from every timeline.          *)
LEMMA MatchingWithout ==
  ASSUME NEW q, NEW S, store \in Seq(Rows), store' = Without(store, S)
  PROVE  Matching(q)' = Among(Matching(q), Rows \ S)
<1> DEFINE base == IF Asks[q].newest THEN Reverse(store) ELSE store
           A == Asks[q].rows
           B == Rows \ S
<1>1. store' = Among(store, B)
  BY WithoutList
<1>2. base \in Seq(Rows)
  BY ReverseList
<1>3. (IF Asks[q].newest THEN Reverse(store') ELSE store') = Among(base, B)
  BY <1>1, AmongReverse
<1>4. Matching(q)' = Among(Among(base, B), A)
  BY <1>3 DEF Matching
<1>5. Matching(q) = Among(base, A)
  BY DEF Matching
<1> HIDE DEF base
<1>6. Among(Among(base, B), A) = Among(base, B \cap A) /\ Among(Among(base, A), B) = Among(base, A \cap B)
  BY <1>2, AmongTwice
<1>7. A \cap B = B \cap A
  OBVIOUS
<1> QED
  BY <1>4, <1>5, <1>6, <1>7

-----------------------------------------------------------------------------
(* Paging while nobody races.                                              *)

LEMMA SameStore ==
  ASSUME store' = store
  PROVE  /\ \A q : Matching(q)' = Matching(q)
         /\ \A q, n : Timeline(q, n)' = Timeline(q, n)
BY DEF Matching, Timeline

LEMMA CalmBefore ==
  ASSUME Next, Calm'
  PROVE  Calm
<1>1. ASSUME NEW q, IssueSearch(q) PROVE Calm
  BY <1>1 DEF IssueSearch, Race, history, Calm
<1>2. CASE Refresh \/ Toggle \/ Submit
  BY <1>1, <1>2 DEF Refresh, Toggle, Submit
<1>3. CASE Focus \/ Type
  <2>1. UNCHANGED <<fails, writes, raced>>
    BY <1>3 DEF Focus, Type, history
  <2> QED
    BY <2>1 DEF Calm
<1>4. CASE LoadPage
  BY <1>4 DEF LoadPage, Race, history, Calm
<1>5. CASE LoadDeeper
  BY <1>5 DEF LoadDeeper, Race, history, Calm
<1>6. CASE Delete
  BY <1>6 DEF Delete, Race, history, Calm
<1>7. ASSUME NEW t, Debounced(t) PROVE Calm
  BY <1>7 DEF Debounced, Race, history, Calm
<1>8. CASE Write
  BY <1>8 DEF Write, Calm
<1>9. ASSUME NEW k, Progress(k) PROVE Calm
  BY <1>9 DEF Progress, Run, Fail, Deleted, SearchDone, history, Calm
<1> QED
  BY <1>2, <1>3, <1>4, <1>5, <1>6, <1>7, <1>8, <1>9 DEF Next, User, Timer

NoneDeleting(cs) == \A i \in DOMAIN cs : cs[i].fetch # "delete"

LEMMA NothingDone ==
  /\ \A cs : NoneDeleting(cs) => DoneOf(cs) = {}
  /\ \A s \in Seq(Rows) : Without(s, {}) = s
<1>1. \A cs : NoneDeleting(cs) => DoneOf(cs) = {}
  BY DEF NoneDeleting, DoneOf
<1>2. \A s \in Seq(Rows) : Without(s, {}) = s
  BY WithoutNone
<1> QED
  BY <1>1, <1>2

(* A step that leaves the rows, the store and the query shown alone, and   *)
(* no delete behind, keeps what is listed.                                 *)
LEMMA ListingKept ==
  ASSUME TypeOK, ListsTimeline, store' = store, shown' = shown, list'.items = list.items,
         DoneOf(cmds') = DoneOf(cmds), list'.exhausted => list.exhausted
  PROVE  ListsTimeline'
<1>1. Listed' = Listed
  BY DEF Listed
<1>2. Matching(shown)' = Matching(shown)
  BY SameStore
<1> QED
  BY <1>1, <1>2 DEF ListsTimeline, TimelineShown

(* A command added to others does not finish a delete.                     *)
LEMMA AddsDone ==
  ASSUME NEW c, Adds(c), c.fetch # "delete" \/ c.left # 0
  PROVE  DoneOf(cmds') = DoneOf(cmds)
<1> DEFINE D(cs) == {j \in DOMAIN cs : cs[j].fetch = "delete" /\ cs[j].left = 0}
<1>1. D(cmds') = D(cmds) /\ \A j \in D(cmds) : cmds'[j] = cmds[j]
  BY DEF Adds
<1>2. {ToSet(cmds'[i].found) : i \in D(cmds')} = {ToSet(cmds[i].found) : i \in D(cmds)}
  <2> HIDE DEF D
  <2> QED
    BY <1>1
<1> QED
  BY <1>2 DEF DoneOf

(* Keys and timers: a query is asked for, a filter or a text changes.      *)
LEMMA AskPaged ==
  ASSUME TypeOK, Fetching, Paged, NEW q \in Queries, IssueSearch(q), Calm', Calm
  PROVE  DeleteAlone' /\ ListsTimeline' /\ PagesOK'
<1> DEFINE c == Replace(list.seq + 1, q)
<1>1. Becomes(q, list.seq + 1, list.items, FALSE, FALSE) /\ Adds(c)
  BY Typed, AskedList, AskAdds
<1>2. UNCHANGED <<store, shown>> /\ ~Deleting
  BY DEF IssueSearch, Race, Calm
<1>3. c.fetch = "replace" /\ (~Asks[c.query].terms => c.left = 1)
  BY DEF Replace, Search
<1> HIDE DEF c
<1>4. NoneDeleting(cmds) /\ NoneDeleting(cmds')
  BY <1>1, <1>2, <1>3 DEF NoneDeleting, Deleting, Adds
<1>5. DeleteAlone'
  BY <1>4 DEF DeleteAlone, Deleting, NoneDeleting
<1>6. ListsTimeline'
  <2>1. DoneOf(cmds') = DoneOf(cmds)
    BY <1>4, NothingDone
  <2> QED
    BY <1>1, <1>2, <2>1, ListingKept DEF Becomes, Paged
<1>7. \A i \in DOMAIN cmds : cmds[i].seq # list'.seq
  <2> SUFFICES ASSUME NEW i \in DOMAIN cmds PROVE cmds[i].seq # list.seq + 1
    BY <1>1 DEF Becomes
  <2>1. cmds[i] \in Command /\ list.seq \in Nat
    BY Typed
  <2>2. cmds[i].seq \in Nat
    BY <2>1 DEF Command
  <2>3. cmds[i].seq <= list.seq
    BY <1>4 DEF Fetching, FetchOK, NoneDeleting
  <2> QED
    BY <2>1, <2>2, <2>3
<1>8. PagesOK'
  BY <1>1, <1>3, <1>7 DEF PagesOK, Adds, OfTimeline
<1> QED
  BY <1>5, <1>6, <1>8

LEMMA PagesSame ==
  ASSUME PagesOK, store' = store, UNCHANGED <<cmds, shown>>,
         list'.seq = list.seq, list'.query = list.query, list'.items = list.items,
         timers' \subseteq timers
  PROVE  PagesOK'
BY SameStore DEF PagesOK, PageOK

LEMMA TypePaged ==
  ASSUME TypeOK, Fetching, Paged, Focus \/ Type, Calm', Calm
  PROVE  DeleteAlone' /\ ListsTimeline' /\ PagesOK'
<1>1. UNCHANGED <<store, shown, cmds>>
  BY DEF Focus, Type
<1>2. list'.items = list.items /\ list'.exhausted = list.exhausted
  BY Typed, FocusList, TypeList DEF Becomes
<1>3. DeleteAlone'
  BY <1>1 DEF DeleteAlone, Deleting, Paged
<1>4. ListsTimeline'
  BY <1>1, <1>2, ListingKept DEF Paged
<1>5. CASE Focus
  <2>1. list'.seq = list.seq /\ list'.query = list.query /\ timers' = timers
    BY <1>5, Typed, FocusList DEF Focus, Becomes
  <2> QED
    BY <1>1, <1>2, <1>3, <1>4, <2>1, PagesSame DEF Paged
<1>6. CASE Type
  <2>1. list'.seq = list.seq + 1
    BY <1>6, Typed, TypeList DEF Becomes
  <2>2. ASSUME NEW i \in DOMAIN cmds PROVE cmds[i].seq # list.seq + 1
    <3>1. cmds[i] \in Command /\ list.seq \in Nat
      BY Typed
    <3>2. cmds[i].seq \in Nat
      BY <3>1 DEF Command
    <3>3. cmds[i].seq <= list.seq
      BY <3>1 DEF Fetching, FetchOK
    <3> QED
      BY <3>1, <3>2, <3>3
  <2>3. PagesOK'
    BY <1>1, <2>1, <2>2 DEF PagesOK
  <2> QED
    BY <1>3, <1>4, <2>3
<1> QED
  BY <1>5, <1>6

(* Keys pressed while nothing is outstanding.                              *)
LEMMA QuietShown ==
  ASSUME TypeOK, OnItsWay, Calm, Quiet
  PROVE  shown = list.query /\ cmds = <<>> /\ NoneDeleting(cmds)
<1>1. cmds = <<>> /\ timers = {} /\ fails = {}
  BY DEF Quiet, Calm
<1>2. DOMAIN cmds = {}
  BY <1>1
<1>3. ~Awaited({"replace"})
  BY <1>2 DEF Awaited
<1> QED
  BY <1>1, <1>2, <1>3 DEF OnItsWay, NoneDeleting

LEMMA AddsFirst ==
  ASSUME NEW c, cmds = <<>>, Adds(c)
  PROVE  Len(cmds') = 1 /\ DOMAIN cmds' = {1} /\ cmds'[1] = c
BY DEF Adds

LEMMA PagePaged ==
  ASSUME TypeOK, OnItsWay, Paged, LoadPage, Calm', Calm
  PROVE  DeleteAlone' /\ ListsTimeline' /\ PagesOK'
<1> DEFINE c == Search("append", list.seq, list.query, Len(list.items))
<1>1. Becomes(list.query, list.seq, list.items, list.exhausted, TRUE) /\ Adds(c)
  BY Typed, PageList, PageAdds
<1>2. UNCHANGED <<store, shown, timers>> /\ Quiet
  BY DEF LoadPage, Race, Calm
<1>3. c.fetch = "append" /\ c.left = 1 /\ c.n = Len(list.items)
  BY DEF Search, LoadPage
<1> HIDE DEF c
<1>4. shown = list.query /\ cmds = <<>> /\ NoneDeleting(cmds) /\ timers = {}
  BY <1>2, QuietShown DEF Quiet
<1>5. DOMAIN cmds' = {1} /\ cmds'[1] = c /\ Len(cmds') = 1
  BY <1>1, <1>4, AddsFirst
<1>6. ListsTimeline'
  <2>1. DoneOf(cmds') = DoneOf(cmds)
    BY <1>1, <1>3, AddsDone
  <2> QED
    BY <1>1, <1>2, <2>1, ListingKept DEF Becomes, Paged
<1>7. PagesOK'
  BY <1>1, <1>2, <1>3, <1>4, <1>5 DEF PagesOK, PageOK, Becomes
<1> QED
  BY <1>5, <1>6, <1>7 DEF DeleteAlone

LEMMA DeeperPaged ==
  ASSUME TypeOK, OnItsWay, Paged, LoadDeeper, Calm', Calm
  PROVE  DeleteAlone' /\ ListsTimeline' /\ PagesOK'
<1>1. UNCHANGED <<store, shown, timers>> /\ Quiet /\ Asks[list.query].terms
  BY DEF LoadDeeper, Race, Calm
<1>2. shown = list.query /\ cmds = <<>> /\ NoneDeleting(cmds)
  BY <1>1, QuietShown
<1>3. ListsTimeline'
  BY <1>1, <1>2 DEF ListsTimeline, TimelineShown
<1>4. CASE Depth >= Wide
  <2>1. cmds' = <<>>
    BY <1>2, <1>4, DeeperAdds
  <2>2. DOMAIN cmds' = {}
    BY <2>1
  <2> QED
    BY <1>3, <2>2 DEF DeleteAlone, Deleting, PagesOK
<1>5. CASE ~(Depth >= Wide)
  <2> DEFINE c == Search("grow", list.seq, list.query, Deeper)
  <2>1. Adds(c) /\ c.query = list.query
    BY <1>5, DeeperAdds DEF Search
  <2> HIDE DEF c
  <2>2. DOMAIN cmds' = {1} /\ cmds'[1] = c /\ Len(cmds') = 1
    BY <1>2, <2>1, AddsFirst
  <2>3. PagesOK'
    BY <1>1, <2>1, <2>2 DEF PagesOK, OfTimeline
  <2> QED
    BY <1>3, <2>2, <2>3 DEF DeleteAlone
<1> QED
  BY <1>4, <1>5

LEMMA DeletePaged ==
  ASSUME TypeOK, Fetching, OnItsWay, Paged, Delete, Calm', Calm
  PROVE  DeleteAlone' /\ ListsTimeline' /\ PagesOK'
<1>1. UNCHANGED <<store, list, shown, timers>> /\ Quiet
  BY DEF Delete, Race, Calm
<1>2. PICK r : Adds(DeleteOf(r))
  BY DeleteAdds
<1> DEFINE c == DeleteOf(r)
<1>3. c.fetch = "delete" /\ c.left = 1 /\ c.seq = 0
  BY DEF DeleteOf
<1> HIDE DEF c
<1>4. cmds = <<>>
  BY <1>1 DEF Quiet
<1>5. DOMAIN cmds' = {1} /\ cmds'[1] = c /\ Len(cmds') = 1
  BY <1>2, <1>4, AddsFirst DEF c
<1>6. ListsTimeline'
  <2>1. DoneOf(cmds') = DoneOf(cmds)
    BY <1>2, <1>3, AddsDone DEF c
  <2> QED
    BY <1>1, <2>1, ListingKept DEF Paged
<1>7. PagesOK'
  BY <1>1, <1>3, <1>5, Typed DEF PagesOK, Fetching
<1> QED
  BY <1>5, <1>6, <1>7 DEF DeleteAlone

(* The runtime.                                                            *)
LEMMA DebouncedPaged ==
  ASSUME TypeOK, Paged, NEW t \in timers, Debounced(t), Calm', Calm
  PROVE  DeleteAlone' /\ ListsTimeline' /\ PagesOK'
<1>1. UNCHANGED <<store, shown>> /\ ~Deleting /\ timers' \subseteq timers
  BY DEF Debounced, Race, Calm
<1>2. NoneDeleting(cmds)
  BY <1>1 DEF NoneDeleting, Deleting
<1>3. CASE t # list.seq
  <2>1. UNCHANGED <<list, cmds>>
    BY <1>3 DEF Debounced
  <2> QED
    BY <1>1, <2>1, ListingKept, PagesSame DEF DeleteAlone, Deleting, Paged
<1>4. CASE t = list.seq
  <2> DEFINE c == Replace(t, list.query)
  <2>1. Becomes(list.query, list.seq, list.items, FALSE, FALSE) /\ Adds(c)
    BY <1>4, Typed, DebouncedList, DebouncedAdds
  <2>2. c.fetch = "replace" /\ (~Asks[c.query].terms => c.left = 1)
    BY DEF Replace, Search
  <2> HIDE DEF c
  <2>3. NoneDeleting(cmds')
    BY <1>2, <2>1, <2>2 DEF NoneDeleting, Adds
  <2>4. DeleteAlone'
    BY <2>3 DEF DeleteAlone, Deleting, NoneDeleting
  <2>5. ListsTimeline'
    <3>1. DoneOf(cmds') = DoneOf(cmds)
      BY <1>2, <2>3, NothingDone
    <3> QED
      BY <1>1, <2>1, <3>1, ListingKept DEF Becomes, Paged
  <2>6. \A i \in DOMAIN cmds :
          cmds[i].seq = list.seq /\ OfTimeline(cmds[i].query) =>
            /\ cmds[i].left = 0 => cmds[i].found = Timeline(cmds[i].query, cmds[i].n)
            /\ cmds[i].fetch # "append"
    BY <1>4 DEF Paged, PagesOK, PageOK
  <2>7. PagesOK'
    <3> SUFFICES ASSUME NEW i \in DOMAIN cmds', cmds'[i].seq = list'.seq, OfTimeline(cmds'[i].query)
                 PROVE  /\ cmds'[i].left = 0 => cmds'[i].found = Timeline(cmds'[i].query, cmds'[i].n)
                        /\ cmds'[i].fetch # "append"
      BY <1>1, SameStore DEF PagesOK
    <3>1. CASE i \in DOMAIN cmds
      BY <2>1, <2>6, <3>1 DEF Adds, Becomes
    <3>2. CASE i \notin DOMAIN cmds
      BY <2>1, <2>2, <3>2 DEF Adds, OfTimeline
    <3> QED
      BY <3>1, <3>2
  <2> QED
    BY <2>4, <2>5, <2>7
<1> QED
  BY <1>3, <1>4

(* A delete is made of the only command there is.                          *)
LEMMA AloneIs ==
  ASSUME TypeOK, DeleteAlone, NEW k \in DOMAIN cmds, cmds[k].fetch = "delete"
  PROVE  k = 1 /\ DOMAIN cmds = {1}
<1>1. Len(cmds) = 1
  BY DEF DeleteAlone, Deleting
<1>2. DOMAIN cmds = 1..Len(cmds)
  BY Typed
<1> QED
  BY <1>1, <1>2

LEMMA RunPaged ==
  ASSUME TypeOK, Fetching, Paged, NEW k \in DOMAIN cmds, Run(k), Calm', Calm
  PROVE  DeleteAlone' /\ ListsTimeline' /\ PagesOK'
<1>0. /\ cmds[k] \in Command /\ cmds[k].left \in 0..3 /\ cmds[k].left > 0
      /\ FetchOK(cmds[k], list.seq, list.query)
  <2>1. cmds[k] \in Command
    BY Typed
  <2> QED
    BY <2>1 DEF Run, Command, Fetching
<1>1. Calls(k) /\ UNCHANGED <<list, shown, timers>>
  BY Typed, RunCalls DEF Run
<1>2. DeleteAlone /\ ListsTimeline /\ PagesOK
  BY DEF Paged
<1>3. DeleteAlone'
  BY <1>1, <1>2 DEF DeleteAlone, Deleting, Calls
<1>4. CASE cmds[k].fetch = "delete"
  <2> DEFINE S == ToSet(cmds[k].found)
             B == Rows \ S
  <2>1. k = 1 /\ DOMAIN cmds = {1}
    BY <1>2, <1>4, AloneIs
  <2>2. cmds[k].left = 1 /\ cmds[k].seq = 0
    BY <1>0, <1>4 DEF FetchOK
  <2>3. store' = Without(store, S) /\ store \in Seq(Rows)
    BY <1>4, Typed DEF Run
  <2>4. cmds'[k].fetch = "delete" /\ cmds'[k].left = 0 /\ cmds'[k].found = cmds[k].found
        /\ DOMAIN cmds' = {1}
    BY <1>1, <1>4, <2>1, <2>2 DEF Calls, Answered
  <2>5. DoneOf(cmds) = {}
    BY <2>1, <2>2 DEF DoneOf
  <2>6. DoneOf(cmds') = S
    BY <2>1, <2>4 DEF DoneOf
  <2>7. PagesOK'
    BY <1>1, <2>1, <2>2, <2>4, Typed DEF PagesOK, Fetching, Calls
  <2> HIDE DEF S
  <2>8. Listed = list.items /\ Listed' = Among(list.items, B)
    BY <1>1, <2>5, <2>6, Typed, NothingDone, WithoutList DEF Listed
  <2>9. Matching(shown)' = Among(Matching(shown), B)
    BY <1>1, <2>3, MatchingWithout
  <2>10. Matching(shown) \in Seq(Rows)
    BY <2>3, MatchingList
  <2>11. ListsTimeline'
    <3> SUFFICES ASSUME TimelineShown'
                 PROVE  /\ IsPrefix(Listed', Matching(shown)')
                        /\ list'.exhausted => Listed' = Matching(shown)'
      BY DEF ListsTimeline
    <3>1. /\ IsPrefix(list.items, Matching(shown))
          /\ list.exhausted => list.items = Matching(shown)
      BY <1>1, <1>2, <2>8 DEF ListsTimeline, TimelineShown
    <3>2. IsPrefix(Among(list.items, B), Among(Matching(shown), B))
      BY <2>10, <3>1, Typed, AmongPrefix
    <3> QED
      BY <1>1, <2>8, <2>9, <3>1, <3>2
  <2> QED
    BY <1>3, <2>7, <2>11
<1>5. CASE cmds[k].fetch # "delete"
  <2>1. store' = store
    BY <1>5 DEF Run
  <2>2. NoneDeleting(cmds) /\ NoneDeleting(cmds')
    <3>1. NoneDeleting(cmds)
      BY <1>2, <1>5, AloneIs DEF NoneDeleting
    <3> QED
      BY <1>1, <1>5, <3>1 DEF NoneDeleting, Calls
  <2>3. ListsTimeline'
    <3>1. DoneOf(cmds') = DoneOf(cmds)
      BY <2>2, NothingDone
    <3> QED
      BY <1>1, <1>2, <2>1, <3>1, ListingKept
  <2>4. \A i \in DOMAIN cmds :
          /\ cmds'[i].seq = cmds[i].seq /\ cmds'[i].query = cmds[i].query
          /\ cmds'[i].fetch = cmds[i].fetch /\ cmds'[i].n = cmds[i].n
    BY <1>1 DEF Calls
  <2>5. ASSUME NEW i \in DOMAIN cmds, cmds[i].seq = list.seq, OfTimeline(cmds[i].query), cmds'[i].left = 0
        PROVE  cmds'[i].found = Timeline(cmds[i].query, cmds[i].n)
    <3>1. CASE i = k
      BY <1>1, <1>5, <2>5, <3>1 DEF Calls, Answered, OfTimeline
    <3>2. CASE i # k
      BY <1>1, <1>2, <2>5, <3>2 DEF Calls, PagesOK
    <3> QED
      BY <3>1, <3>2
  <2>6. PagesOK'
    <3> SUFFICES ASSUME NEW i \in DOMAIN cmds', cmds'[i].seq = list'.seq, OfTimeline(cmds'[i].query)
                 PROVE  /\ cmds'[i].left = 0 => cmds'[i].found = Timeline(cmds'[i].query, cmds'[i].n)
                        /\ cmds'[i].fetch = "append" => PageOK(i)'
      BY <2>1, SameStore DEF PagesOK
    <3>1. i \in DOMAIN cmds /\ DOMAIN cmds' = DOMAIN cmds /\ cmds[i].seq = list.seq /\ OfTimeline(cmds[i].query)
      BY <1>1, <2>4 DEF Calls
    <3>2. cmds[i].fetch = "append" => PageOK(i)
      BY <1>2, <3>1 DEF PagesOK
    <3> QED
      BY <1>1, <2>4, <2>5, <3>1, <3>2 DEF PageOK
  <2> QED
    BY <1>3, <2>3, <2>6
<1> QED
  BY <1>4, <1>5

(* Removing the only command.                                              *)
LEMMA LeavesNone ==
  ASSUME cmds \in Seq(Command), NEW k \in DOMAIN cmds, Len(cmds) = 1, Leaves(k)
  PROVE  DOMAIN cmds' = {} /\ DoneOf(cmds') = {}
<1>1. DOMAIN cmds' = {}
  BY DEF Leaves, Remains
<1> QED
  BY <1>1 DEF DoneOf

LEMMA FailPaged ==
  ASSUME TypeOK, Fetching, Paged, NEW k \in DOMAIN cmds, Fail(k), Calm', Calm
  PROVE  DeleteAlone' /\ ListsTimeline' /\ PagesOK'
<1>1. Leaves(k) /\ UNCHANGED <<store, list, shown>>
  BY AnswersLeave DEF Answers, Fail
<1>2. cmds[k].fetch = "delete" /\ cmds[k].left # 0
  <2>1. fails' = {}
    BY DEF Calm
  <2>2. Gone(cmds[k])
    BY <2>1 DEF Fail
  <2>3. cmds[k].left > 0
    BY DEF Fail
  <2> QED
    BY <2>2, <2>3 DEF Gone
<1>3. k = 1 /\ DOMAIN cmds = {1} /\ Len(cmds) = 1
  BY <1>2, AloneIs DEF Paged, DeleteAlone, Deleting
<1>4. DOMAIN cmds' = {} /\ DoneOf(cmds') = {}
  BY <1>1, <1>3, Typed, LeavesNone
<1>5. DoneOf(cmds) = {}
  BY <1>2, <1>3 DEF DoneOf
<1>6. ListsTimeline'
  BY <1>1, <1>4, <1>5, ListingKept DEF Paged
<1> QED
  BY <1>4, <1>6 DEF DeleteAlone, Deleting, PagesOK

LEMMA DeletedPaged ==
  ASSUME TypeOK, Fetching, Paged, NEW k \in DOMAIN cmds, Deleted(k), Calm', Calm
  PROVE  DeleteAlone' /\ ListsTimeline' /\ PagesOK'
<1> DEFINE S == ToSet(cmds[k].found)
<1>0. cmds[k] \in Command
  BY Typed
<1>1. Leaves(k) /\ UNCHANGED <<store, shown>> /\ cmds[k].fetch = "delete" /\ cmds[k].left = 0
  BY AnswersLeave DEF Answers, Deleted
<1>2. Becomes(list.query, list.seq, Without(list.items, S), list.exhausted, list.pendingMore)
  BY <1>0, Typed, DeletedList
<1>3. k = 1 /\ DOMAIN cmds = {1} /\ Len(cmds) = 1
  BY <1>1, AloneIs DEF Paged, DeleteAlone, Deleting
<1>4. DOMAIN cmds' = {} /\ DoneOf(cmds') = {}
  BY <1>1, <1>3, Typed, LeavesNone
<1>5. DoneOf(cmds) = S
  BY <1>1, <1>3 DEF DoneOf
<1> HIDE DEF S
<1>6. Listed = Without(list.items, S) /\ Listed \in Seq(Rows)
  BY <1>5, Typed, WithoutList DEF Listed
<1>7. Listed' = Listed
  BY <1>2, <1>4, <1>6, NothingDone DEF Listed, Becomes
<1>8. Matching(shown)' = Matching(shown)
  BY <1>1, SameStore
<1>9. ListsTimeline'
  BY <1>1, <1>2, <1>7, <1>8 DEF ListsTimeline, TimelineShown, Becomes, Paged
<1> QED
  BY <1>4, <1>9 DEF DeleteAlone, Deleting, PagesOK

(* An answer is handled: nobody deletes, and the others wait as before.    *)
LEMMA SearchLeaves ==
  ASSUME TypeOK, DeleteAlone, NEW k \in DOMAIN cmds, SearchDone(k)
  PROVE  /\ Leaves(k) /\ UNCHANGED <<store, timers>>
         /\ NoneDeleting(cmds) /\ NoneDeleting(cmds') /\ DeleteAlone'
<1>1. Leaves(k) /\ UNCHANGED <<store, timers>> /\ cmds[k].fetch # "delete"
  BY AnswersLeave DEF Answers, SearchDone
<1>2. NoneDeleting(cmds)
  BY <1>1, AloneIs DEF NoneDeleting
<1>3. NoneDeleting(cmds')
  BY <1>1, <1>2 DEF NoneDeleting, Leaves, Remains
<1> QED
  BY <1>1, <1>2, <1>3 DEF DeleteAlone, Deleting, NoneDeleting

LEMMA StalePaged ==
  ASSUME TypeOK, Fetching, Paged, NEW k \in DOMAIN cmds, SearchDone(k), Stale(cmds[k]), Calm', Calm
  PROVE  DeleteAlone' /\ ListsTimeline' /\ PagesOK'
<1>0. DeleteAlone /\ ListsTimeline /\ PagesOK
  BY DEF Paged
<1>1. /\ Leaves(k) /\ UNCHANGED <<store, timers, shown>>
      /\ NoneDeleting(cmds) /\ NoneDeleting(cmds') /\ DeleteAlone'
  BY <1>0, SearchLeaves DEF SearchDone
<1>2. Becomes(list.query, list.seq, list.items, list.exhausted, FALSE)
  BY Typed, StaleList
<1>3. ListsTimeline'
  <2>1. DoneOf(cmds') = DoneOf(cmds)
    BY <1>1, NothingDone
  <2> QED
    BY <1>0, <1>1, <1>2, <2>1, ListingKept DEF Becomes
<1>4. \A i \in DOMAIN cmds' : Was(k, i) \in DOMAIN cmds /\ cmds'[i] = cmds[Was(k, i)]
  BY <1>1 DEF Leaves, Remains
<1>5. \A i, j \in DOMAIN cmds' : Was(k, i) = Was(k, j) => i = j
  <2>1. k \in Nat /\ DOMAIN cmds' \subseteq Nat
    BY <1>1, Typed DEF Leaves
  <2> QED
    BY <2>1, WasApart
<1>6. PagesOK'
  <2> SUFFICES ASSUME NEW i \in DOMAIN cmds', cmds'[i].seq = list'.seq, OfTimeline(cmds'[i].query)
               PROVE  /\ cmds'[i].left = 0 => cmds'[i].found = Timeline(cmds'[i].query, cmds'[i].n)
                      /\ cmds'[i].fetch = "append" => PageOK(i)'
    BY <1>1, SameStore DEF PagesOK
  <2> DEFINE w == Was(k, i)
  <2>1. w \in DOMAIN cmds /\ cmds'[i] = cmds[w] /\ cmds[w].seq = list.seq /\ OfTimeline(cmds[w].query)
    BY <1>2, <1>4 DEF Becomes
  <2>2. /\ cmds[w].left = 0 => cmds[w].found = Timeline(cmds[w].query, cmds[w].n)
        /\ cmds[w].fetch = "append" => PageOK(w)
    BY <1>0, <2>1 DEF PagesOK
  <2>3. ASSUME PageOK(w) PROVE PageOK(i)'
    <3>1. \A j \in DOMAIN cmds' : cmds'[j].seq = list.seq => j = i
      BY <1>4, <1>5, <2>3 DEF PageOK
    <3> QED
      BY <1>1, <1>2, <2>1, <2>3, <3>1 DEF PageOK, Becomes
  <2> QED
    BY <2>1, <2>2, <2>3
<1> QED
  BY <1>1, <1>3, <1>6

(* The rows the answer brings, where it is a page of the timeline.         *)
LEMMA AnswerRows ==
  ASSUME TypeOK, Fetching, PagesOK, NEW k \in DOMAIN cmds, SearchDone(k), ~Stale(cmds[k])
  PROVE  /\ cmds[k].seq = list.seq /\ cmds[k].query = list.query /\ cmds[k].query \in Queries
         /\ cmds[k].fetch \in {"append", "grow", "replace"} /\ cmds[k].n \in Nat
         /\ cmds[k].fetch = "append" => OfTimeline(list.query) /\ PageOK(k)
         /\ cmds[k].fetch = "grow" => ~OfTimeline(list.query)
         /\ cmds[k].fetch = "replace" /\ OfTimeline(list.query) => cmds[k].n = 0
         /\ OfTimeline(list.query) => cmds[k].found = Timeline(list.query, cmds[k].n)
<1>1. /\ cmds[k] \in Command /\ FetchOK(cmds[k], list.seq, list.query)
      /\ cmds[k].fetch # "delete" /\ cmds[k].left = 0 /\ cmds[k].seq = list.seq
  BY Typed DEF Fetching, SearchDone, Stale
<1>2. cmds[k].fetch \in {"append", "grow", "replace"} /\ cmds[k].n \in Nat /\ cmds[k].query \in Queries
  BY <1>1 DEF Command, Fetches
<1>3. cmds[k].query = list.query
  BY <1>1 DEF FetchOK
<1> QED
  BY <1>1, <1>2, <1>3 DEF FetchOK, PagesOK, OfTimeline

LEMMA AppendListed ==
  ASSUME TypeOK, Distinct, NEW q, OfTimeline(q), IsPrefix(list.items, Matching(q)),
         NEW found, found = Timeline(q, Len(list.items))
  PROVE  /\ IsPrefix(Appended(found), Matching(q))
         /\ Len(found) < Page \/ Appended(found) = list.items => Appended(found) = Matching(q)
<1> DEFINE m == Matching(q)
           s == list.items
<1>1. m \in Seq(Rows) /\ IsInjective(m) /\ s \in Seq(Rows) /\ IsPrefix(s, m) /\ Page \in Nat \ {0}
  BY Typed, MatchingList, LimitAssumption DEF Distinct
<1>2. found = PageAfter(s, m, Page)
  BY DEF Timeline, OfTimeline, PageAfter
<1> HIDE DEF m, s
<1>3. /\ found \in Seq(Rows) /\ IsPrefix(s \o found, m)
      /\ ToSet(found) \cap ToSet(s) = {}
      /\ Len(found) < Page => s \o found = m
  BY <1>1, <1>2, PageContinues
<1>4. Appended(found) = s \o found
  BY <1>3, WithoutNone DEF Appended, s
<1>5. s \o found = s => Len(found) < Page
  <2>1. s \o found = s => found = <<>>
    BY <1>1, <1>3, ConcatEqualIffEmpty
  <2>2. Len(<<>>) < Page
    BY <1>1
  <2> QED
    BY <2>1, <2>2
<1> QED
  BY <1>3, <1>4, <1>5 DEF m, s

LEMMA ReplaceListed ==
  ASSUME TypeOK, Distinct, NEW q, OfTimeline(q), NEW found, found = Timeline(q, 0)
  PROVE  /\ IsPrefix(found, Matching(q))
         /\ Len(found) < Page => found = Matching(q)
<1> DEFINE m == Matching(q)
           none == <<>>
<1>1. m \in Seq(Rows) /\ IsInjective(m) /\ Page \in Nat
  BY Typed, MatchingList, LimitAssumption DEF Distinct
<1>2. none \in Seq(Rows) /\ Len(none) = 0
  OBVIOUS
<1>3. IsPrefix(none, m)
  BY <1>1, EmptyPrefix
<1>4. found = PageAfter(none, m, Page)
  BY <1>2 DEF Timeline, OfTimeline, PageAfter
<1> HIDE DEF m, none
<1>5. /\ found \in Seq(Rows) /\ IsPrefix(none \o found, m)
      /\ Len(found) < Page => none \o found = m
  <2>1. /\ PageAfter(none, m, Page) \in Seq(Rows)
        /\ IsPrefix(none \o PageAfter(none, m, Page), m)
        /\ Len(PageAfter(none, m, Page)) < Page => none \o PageAfter(none, m, Page) = m
    BY <1>1, <1>2, <1>3, PageContinues
  <2> QED
    BY <1>4, <2>1
<1>6. none \o found = found
  BY <1>5, ConcatEmptySeq DEF none
<1> QED
  BY <1>5, <1>6 DEF m

LEMMA ShownPaged ==
  ASSUME TypeOK, Fetching, Distinct, Paged, NEW k \in DOMAIN cmds, SearchDone(k), ~Stale(cmds[k]),
         Calm', Calm
  PROVE  DeleteAlone' /\ ListsTimeline' /\ PagesOK'
<1> DEFINE c == cmds[k]
<1>0. DeleteAlone /\ ListsTimeline /\ PagesOK
  BY DEF Paged
<1>1. /\ Leaves(k) /\ UNCHANGED <<store, timers>>
      /\ NoneDeleting(cmds) /\ NoneDeleting(cmds') /\ DeleteAlone'
  BY <1>0, SearchLeaves
<1>2. /\ c.seq = list.seq /\ c.query = list.query /\ c.query \in Queries
      /\ c.fetch \in {"append", "grow", "replace"} /\ c.n \in Nat
      /\ c.fetch = "append" => OfTimeline(list.query) /\ PageOK(k)
      /\ c.fetch = "grow" => ~OfTimeline(list.query)
      /\ c.fetch = "replace" /\ OfTimeline(list.query) => c.n = 0
      /\ OfTimeline(list.query) => c.found = Timeline(list.query, c.n)
  BY <1>0, AnswerRows
<1>3. Becomes(list.query, list.seq, ShownItems(c), NoMore(c), FALSE)
  <2>1. c \in Command
    BY Typed
  <2> QED
    BY <2>1, Typed, ShownList
<1>4. shown' = list.query
  <2>1. shown' = IF c.fetch = "append" THEN shown ELSE c.query
    BY DEF SearchDone
  <2> QED
    BY <1>2, <2>1 DEF PageOK
<1>5. Listed' = list'.items /\ Listed = list.items
  <2>1. list'.items \in Seq(Rows) /\ list.items \in Seq(Rows)
    BY <1>3, Typed DEF Becomes, ListModel
  <2>2. DoneOf(cmds') = {} /\ DoneOf(cmds) = {}
    BY <1>1, NothingDone
  <2> QED
    BY <2>1, <2>2, NothingDone DEF Listed
<1>6. Matching(shown)' = Matching(list.query)
  BY <1>1, <1>4, SameStore
<1>7. ListsTimeline'
  <2> SUFFICES ASSUME OfTimeline(list.query)
               PROVE  /\ IsPrefix(ShownItems(c), Matching(list.query))
                      /\ NoMore(c) => ShownItems(c) = Matching(list.query)
    BY <1>3, <1>4, <1>5, <1>6 DEF ListsTimeline, TimelineShown, OfTimeline, Becomes
  <2>1. CASE c.fetch = "append"
    <3>1. c.n = Len(list.items) /\ shown = list.query
      BY <1>2, <2>1 DEF PageOK
    <3>2. IsPrefix(list.items, Matching(list.query))
      BY <1>0, <1>5, <3>1 DEF ListsTimeline, TimelineShown, OfTimeline
    <3>3. c.found = Timeline(list.query, Len(list.items))
      BY <1>2, <3>1
    <3>4. /\ IsPrefix(Appended(c.found), Matching(list.query))
          /\ Len(c.found) < Page \/ Appended(c.found) = list.items
               => Appended(c.found) = Matching(list.query)
      BY <3>2, <3>3, AppendListed
    <3> QED
      BY <2>1, <3>4 DEF ShownItems, NoMore
  <2>2. CASE c.fetch = "replace"
    <3>1. c.found = Timeline(list.query, 0)
      BY <1>2, <2>2
    <3>2. /\ IsPrefix(c.found, Matching(list.query))
          /\ Len(c.found) < Page => c.found = Matching(list.query)
      BY <3>1, ReplaceListed
    <3>3. ShownItems(c) = c.found /\ (NoMore(c) => Len(c.found) < Page)
      BY <2>2 DEF ShownItems, Applied, NoMore, OfTimeline
    <3> QED
      BY <3>2, <3>3
  <2> QED
    BY <1>2, <2>1, <2>2
<1>8. \A i \in DOMAIN cmds' : /\ Was(k, i) \in DOMAIN cmds \ {k} /\ cmds'[i] = cmds[Was(k, i)]
                              /\ cmds[Was(k, i)] \in Command
  <2>1. \A i \in DOMAIN cmds : cmds[i] \in Command
    BY Typed
  <2> QED
    BY <1>1, <2>1 DEF Leaves, Remains
<1>9. PagesOK'
  <2> SUFFICES ASSUME NEW i \in DOMAIN cmds', cmds'[i].seq = list'.seq, OfTimeline(cmds'[i].query)
               PROVE  /\ cmds'[i].left = 0 => cmds'[i].found = Timeline(cmds'[i].query, cmds'[i].n)
                      /\ cmds'[i].fetch # "append"
    BY <1>1, SameStore DEF PagesOK
  <2> DEFINE w == Was(k, i)
  <2>1. /\ w \in DOMAIN cmds \ {k} /\ cmds'[i] = cmds[w]
        /\ cmds[w].seq = list.seq /\ OfTimeline(cmds[w].query)
    BY <1>3, <1>8 DEF Becomes
  <2> HIDE DEF w
  <2>2. /\ cmds[w].left = 0 => cmds[w].found = Timeline(cmds[w].query, cmds[w].n)
        /\ cmds[w].fetch = "append" => PageOK(w)
    BY <1>0, <2>1 DEF PagesOK
  <2>3. ~PageOK(w)
    BY <1>2, <2>1 DEF PageOK
  <2> QED
    BY <2>1, <2>2, <2>3
<1> QED
  BY <1>1, <1>7, <1>9

LEMMA StepPaged ==
  ASSUME TypeOK, Fetching, Distinct, OnItsWay, Paged, Next
  PROVE  Paged'
<1> SUFFICES ASSUME Calm', Calm PROVE DeleteAlone' /\ ListsTimeline' /\ PagesOK'
  BY CalmBefore DEF Paged
<1>1. CASE Refresh \/ Toggle \/ Submit
  BY <1>1, AskPaged, Typed DEF Refresh, Toggle, Submit
<1>2. CASE Focus \/ Type
  BY <1>2, TypePaged
<1>3. CASE LoadPage
  BY <1>3, PagePaged
<1>4. CASE LoadDeeper
  BY <1>4, DeeperPaged
<1>5. CASE Delete
  BY <1>5, DeletePaged
<1>6. CASE Write
  BY <1>6 DEF Write, Calm
<1>7. CASE Timer
  BY <1>7, DebouncedPaged DEF Timer
<1>8. ASSUME NEW k \in DOMAIN cmds, Progress(k)
      PROVE  DeleteAlone' /\ ListsTimeline' /\ PagesOK'
  <2>1. CASE Run(k)
    BY <2>1, RunPaged
  <2>2. CASE Fail(k)
    BY <2>2, FailPaged
  <2>3. CASE Deleted(k)
    BY <2>3, DeletedPaged
  <2>4. CASE SearchDone(k)
    BY <2>4, StalePaged, ShownPaged
  <2> QED
    BY <1>8, <2>1, <2>2, <2>3, <2>4 DEF Progress
<1> QED
  BY <1>1, <1>2, <1>3, <1>4, <1>5, <1>6, <1>7, <1>8 DEF Next, User

LEMMA PagedOrderly ==
  ASSUME TypeOK, Paged
  PROVE  OrderlyPaging
<1> SUFFICES ASSUME Quiet, Calm, TimelineShown
             PROVE  /\ IsPrefix(list.items, Matching(shown))
                    /\ list.exhausted => list.items = Matching(shown)
  BY DEF OrderlyPaging, Calm
<1>1. DOMAIN cmds = {}
  BY DEF Quiet
<1>2. DoneOf(cmds) = {}
  BY <1>1 DEF DoneOf
<1>3. Listed = list.items
  BY <1>2, Typed, NothingDone DEF Listed
<1> QED
  BY <1>3 DEF Paged, ListsTimeline

-----------------------------------------------------------------------------
(* Theorems.                                                               *)

LEMMA Initially ==
  ASSUME Init
  PROVE  IInv
<1>0. PICK q \in Queries :
        /\ ~Asks[q].terms /\ ~Asks[q].review
        /\ list = [query |-> q, typing |-> FALSE, seq |-> 1, items |-> <<>>,
                   exhausted |-> FALSE, pendingMore |-> FALSE, growLimit |-> 0]
        /\ cmds = <<Replace(1, q)>> /\ shown = q
  BY DEF Init
<1> DEFINE c == Replace(1, q)
<1>1. c \in Command
  BY SearchTypes
<1>2. c.seq = 1 /\ c.query = q /\ c.fetch = "replace" /\ c.left = 1
  BY <1>0 DEF Replace, Search
<1>3. FetchOK(c, 1, q)
  BY ReplaceOK
<1>4. store = Stored /\ timers = {} /\ inFlight = 1 /\ fails = {} /\ writes = {}
  BY DEF Init
<1> HIDE DEF c
<1>5. cmds = <<c>> /\ Len(cmds) = 1 /\ DOMAIN cmds = {1} /\ cmds[1] = c
  BY <1>0 DEF c
<1>6. /\ list.query = q /\ list.seq = 1 /\ list.items = <<>> /\ ~list.exhausted /\ ~list.pendingMore
      /\ list.typing \in BOOLEAN /\ list.growLimit = 0
  BY <1>0
<1>7. TypeOK
  <2>1. list \in [query : Queries, typing : BOOLEAN, seq : Nat, items : Seq(Rows),
                  exhausted : BOOLEAN, pendingMore : BOOLEAN, growLimit : 0..Wide]
    BY <1>0, LimitAssumption
  <2>2. cmds \in Seq(Command)
    BY <1>1, <1>5
  <2> QED
    BY <1>0, <1>4, <2>1, <2>2, StoredAssumption DEF TypeOK
<1>8. SpinnerTruthful
  BY <1>4, <1>5 DEF SpinnerTruthful
<1>9. Fetching
  BY <1>3, <1>5, <1>6 DEF Fetching
<1>10. Distinct
  BY <1>4, <1>6, StoredAssumption, EmptyList DEF Distinct, NoDuplicates
<1>11. OnItsWay /\ Guarded
  BY <1>0, <1>6 DEF OnItsWay, Guarded
<1>12. Paged
  <2>1. NoneDeleting(cmds)
    BY <1>2, <1>5 DEF NoneDeleting
  <2>2. DeleteAlone
    BY <2>1 DEF DeleteAlone, Deleting, NoneDeleting
  <2>3. Listed = <<>>
    <3>1. <<>> \in Seq(Rows)
      OBVIOUS
    <3> QED
      BY <1>6, <2>1, <3>1, NothingDone DEF Listed
  <2>4. Matching(shown) \in Seq(Rows)
    BY <1>7, Typed, MatchingList
  <2>5. ListsTimeline
    BY <1>6, <2>3, <2>4, EmptyPrefix DEF ListsTimeline
  <2>6. PagesOK
    BY <1>2, <1>5 DEF PagesOK
  <2> QED
    BY <2>2, <2>5, <2>6 DEF Paged
<1> QED
  BY <1>7, <1>8, <1>9, <1>10, <1>11, <1>12 DEF IInv

LEMMA Stuttering ==
  ASSUME IInv, UNCHANGED vars
  PROVE  IInv'
<1>1. UNCHANGED <<store, list, shown, timers, cmds, inFlight, fails, writes, raced>>
  BY DEF vars
<1>2. TypeOK' /\ SpinnerTruthful' /\ Fetching' /\ Distinct'
  BY <1>1 DEF IInv, TypeOK, SpinnerTruthful, Fetching, Distinct, NoDuplicates
<1>3. OnItsWay' /\ Guarded'
  BY <1>1 DEF IInv, OnItsWay, Guarded, Awaited
<1>4. Paged'
  <2> SUFFICES ASSUME Calm PROVE DeleteAlone' /\ ListsTimeline' /\ PagesOK'
    BY <1>1 DEF Paged, Calm
  <2>1. DeleteAlone /\ ListsTimeline /\ PagesOK
    BY DEF IInv, Paged
  <2>2. DeleteAlone'
    BY <1>1, <2>1 DEF DeleteAlone, Deleting
  <2>3. ListsTimeline'
    BY <1>1, <2>1, ListingKept DEF IInv
  <2> QED
    BY <1>1, <2>1, <2>2, <2>3, PagesSame
<1> QED
  BY <1>2, <1>3, <1>4 DEF IInv

(* The inductive invariant holds of every behaviour.                       *)
THEOREM Inductive == Spec => []IInv
<1>1. Init => IInv
  BY Initially
<1>2. IInv /\ [Next]_vars => IInv'
  <2> SUFFICES ASSUME IInv, [Next]_vars PROVE IInv'
    OBVIOUS
  <2>1. CASE Next
    <3>1. TypeOK' /\ SpinnerTruthful'
      BY <2>1, StepTypes DEF IInv, TypeSpinner
    <3>2. Fetching' /\ Distinct'
      BY <2>1, FetchingKept, DistinctKept DEF IInv, Distinct
    <3>3. OnItsWay' /\ Guarded'
      BY <2>1, StepWaits DEF IInv, Waits
    <3>4. Paged'
      BY <2>1, StepPaged DEF IInv
    <3> QED
      BY <3>1, <3>2, <3>3, <3>4 DEF IInv
  <2>2. CASE UNCHANGED vars
    BY <2>2, Stuttering
  <2> QED
    BY <2>1, <2>2
<1> QED
  BY <1>1, <1>2, PTL DEF Spec

(* Every variable stays in its type; a deeper search never asks for more   *)
(* than the widest layer maybeLoadMore allows.                             *)
THEOREM TypeCorrect == Spec => []TypeOK
<1>1. IInv => TypeOK
  BY DEF IInv
<1> QED
  BY <1>1, Inductive, PTL

(* appendResults and apply never list a row twice, however pages overlap.  *)
THEOREM RowsOnce == Spec => []NoDuplicates
<1>1. IInv => NoDuplicates
  BY DEF IInv, Distinct
<1> QED
  BY <1>1, Inductive, PTL

(* "the list ignores results that are not the latest issued query": once   *)
(* everything has settled, the list answers the query on screen, or the    *)
(* search of that query failed.                                            *)
THEOREM LatestQueryShown == Spec => []ShownIsCurrent
<1>1. IInv => ShownIsCurrent
  BY Typed, WaitsShown DEF IInv, Waits
<1> QED
  BY <1>1, Inductive, PTL

(* settle counts every answer, stale or failed, exactly once.              *)
THEOREM SpinnerCounts == Spec => []SpinnerTruthful
<1>1. IInv => SpinnerTruthful
  BY DEF IInv
<1> QED
  BY <1>1, Inductive, PTL

(* pendingMore never outlives the fetch it guards, except after a failure. *)
THEOREM GuardFreed == Spec => []GuardReleased
<1>1. IInv => GuardReleased
  BY Typed, WaitsShown DEF IInv, Waits
<1> QED
  BY <1>1, Inductive, PTL

(* Paging by offset, one request at a time over a store that others leave  *)
(* alone, shows a prefix of the timeline, and "no more" only at its end.   *)
THEOREM PagesInOrder == Spec => []OrderlyPaging
<1>1. IInv => OrderlyPaging
  BY PagedOrderly DEF IInv
<1> QED
  BY <1>1, Inductive, PTL
=============================================================================
