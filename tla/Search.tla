------------------------------- MODULE Search -------------------------------
(***************************************************************************)
(* What a search answers and what a recall packs, as functions of the rows *)
(* (MemoryReader.Search, SearchQuery, RecallQuery).                        *)
(*                                                                         *)
(* A row is what those read of a memory: its pk and id, its keywords and   *)
(* words, votes, reads, times, and whether it is superseded. What bm25     *)
(* makes of a text and a query is a parameter: it may be any number, and   *)
(* another one when other memories are there.                              *)
(***************************************************************************)
EXTENDS Integers, FiniteSets, SequencesExt

CONSTANTS
  Ids,           \* ids of memories
  Terms,         \* keywords and words of texts
  Day,           \* clock units in a day; two of them make a second
  DefaultLimit,  \* rows of a page when no limit is asked for (20)
  MaxLimit,      \* rows of a page at most (200)
  RecallLimit,   \* candidates of a recall (50)
  DefaultBudget, \* characters of a recall when no budget is asked for (4000)
  Heading,       \* characters of a recall's heading
  Size,          \* characters of a memory in a recall: [Ids -> Nat]
  Half,          \* an int32 holds -Half .. Half - 1 (2^31)
  TextRank       \* -bm25 with its weight, in twentieths, of the memories there are (dead
                 \* ones too), a query and a memory: [SUBSET Ids -> [SUBSET Terms -> [Ids -> Int]]]

ASSUME SearchAssumption ==
  /\ Day \in Nat \ {0} /\ Half \in Nat \ {0} /\ Heading \in Nat
  /\ DefaultLimit \in 1..MaxLimit /\ MaxLimit \in Nat
  /\ RecallLimit \in 1..MaxLimit /\ DefaultBudget \in 1..Half
  /\ Size \in [Ids -> Nat \ {0}]
  /\ TextRank \in [SUBSET Ids -> [SUBSET Terms -> [Ids -> Int]]]

Row == [pk : Nat, id : Ids, keywords : SUBSET Terms, words : SUBSET Terms, up : Nat, down : Nat,
        reads : Nat, created : Nat, expires : Nat, superseded : BOOLEAN]

Orders == {"relevance", "created_asc", "created_desc", "rating_asc", "rating_desc",
           "reads_asc", "reads_desc"}

(* SearchFilters: any and keywords are KeywordsAny and Keywords; since and *)
(* until are sets of at most one time.                                     *)
Filters == [query : SUBSET Terms, keywords : SUBSET Terms, any : SUBSET Terms,
            since : SUBSET Nat, until : SUBSET Nat, limit : Int, offset : Int,
            order : Orders, skipTotal : BOOLEAN, dead : BOOLEAN]

-----------------------------------------------------------------------------
(* Times are compared as RFC3339Nano texts, which drop trailing zeros: a   *)
(* whole second sorts after the half seconds it begins with.               *)
Text(time) == IF time % 2 = 0 THEN time + 1 ELSE time - 1

Live(r, now) == ~r.superseded /\ Text(r.expires) > Text(now)

Matches(r, f, now) ==
  /\ f.query \subseteq r.words \cup r.keywords
  /\ f.dead \/ Live(r, now)
  /\ f.keywords \subseteq r.keywords
  /\ f.any = {} \/ f.any \cap r.keywords # {}
  /\ \A time \in f.since : Text(r.created) >= Text(time)
  /\ \A time \in f.until : Text(r.created) <= Text(time)

(* The memories bm25 counts the words of: all rows, whatever matches.      *)
Corpus(rows) == {r.id : r \in rows}

(* weightFTS: only a search with a query weighs texts.                     *)
TextScore(r, corpus, f) == IF f.query = {} THEN 0 ELSE TextRank[corpus][f.query][r.id]

AccessCap == 20

(* In twentieths: a vote weighs 1, a read 0.05 up to the cap, a fresh      *)
(* memory 3.0 and half of that after 30 days, a matched keyword 1.5.       *)
Score(r, corpus, f, now) ==
  LET reads == IF r.reads < AccessCap THEN r.reads ELSE AccessCap
  IN  TextScore(r, corpus, f) + 20 * (r.up - r.down) + reads
      + (1800 * Day) \div (30 * Day + now - r.created)
      + 30 * Cardinality(f.any \cap r.keywords)

(* orderBy: rows are shown by ascending key.                               *)
Key(r, corpus, f, now) ==
  CASE f.order = "relevance"    -> -Score(r, corpus, f, now)
    [] f.order = "created_asc"  -> Text(r.created)
    [] f.order = "created_desc" -> -Text(r.created)
    [] f.order = "rating_asc"   -> r.up - r.down
    [] f.order = "rating_desc"  -> r.down - r.up
    [] f.order = "reads_asc"    -> r.reads
    [] f.order = "reads_desc"   -> -r.reads

(* A plausible mistake: the better of two memories with equal keys first.  *)
Before_BestFirst(r, s, corpus, f, now) ==
  \/ Key(r, corpus, f, now) < Key(s, corpus, f, now)
  \/ /\ Key(r, corpus, f, now) = Key(s, corpus, f, now)
     /\ Score(r, corpus, f, now) > Score(s, corpus, f, now)
  \/ /\ Key(r, corpus, f, now) = Key(s, corpus, f, now)
     /\ Score(r, corpus, f, now) = Score(s, corpus, f, now)
     /\ r.pk < s.pk

Before(r, s, corpus, f, now) ==
  \/ Key(r, corpus, f, now) < Key(s, corpus, f, now)
  \/ Key(r, corpus, f, now) = Key(s, corpus, f, now) /\ r.pk < s.pk

Ranking(rows, f, now) ==
  LET found == {r \in rows : Matches(r, f, now)}
      corpus == Corpus(rows)
      Rank(r) == Cardinality({s \in found : Before(s, r, corpus, f, now)}) + 1
  IN  [i \in 1..Cardinality(found) |-> CHOOSE r \in found : Rank(r) = i]

-----------------------------------------------------------------------------
AtMost(n, most) == IF n < most THEN n ELSE most
AtLeast(n, least) == IF n > least THEN n ELSE least

Limited(limit) == AtMost(IF limit <= 0 THEN DefaultLimit ELSE limit, MaxLimit)

Rows(ranking, offset, limit) ==
  SubSeq(ranking, offset + 1, AtMost(offset + limit, Len(ranking)))

(* A SearchPage. The total rides on the rows: without one it is 0.         *)
Page(rows, f, now) ==
  LET ranking == Ranking(rows, f, now)
      results == Rows(ranking, AtLeast(f.offset, 0), Limited(f.limit))
  IN  [results |-> results,
       total   |-> IF f.skipTotal \/ results = <<>> THEN 0 ELSE Len(ranking)]

(* The memories a recall may pack.                                         *)
Candidates(rows, any, query, now) ==
  Page(rows, [query |-> query, keywords |-> {}, any |-> any, since |-> {}, until |-> {},
              limit |-> RecallLimit, offset |-> 0, order |-> "relevance", skipTotal |-> TRUE,
              dead |-> FALSE], now).results

(* A plausible mistake: the budget holds for the first entry too.          *)
Overflows_First(pack, r, budget) == pack.size + Size[r.id] > budget

(* The first entry always fits.                                            *)
Overflows(pack, r, budget) == pack.size + Size[r.id] > budget /\ pack.entries # <<>>

EmptyPack == [size |-> Heading, entries |-> <<>>, full |-> FALSE]

(* One pass of the loop over the candidates.                               *)
Packed(pack, r, budget) ==
  IF pack.full THEN pack
  ELSE IF Overflows(pack, r, budget) THEN [pack EXCEPT !.full = TRUE]
  ELSE [size |-> pack.size + Size[r.id], entries |-> Append(pack.entries, r.id),
        full |-> pack.size + Size[r.id] >= budget]

(* The loop: the first entry that does not fit ends the block.             *)
Assembled(rows, budget) ==
  LET pack[n \in 0..Len(rows)] ==
        IF n = 0 THEN EmptyPack ELSE Packed(pack[n - 1], rows[n], budget)
  IN  pack[Len(rows)].entries

(* The candidates that are still there.                                    *)
Surviving(rows, ids) ==
  LET kept[n \in 0..Len(rows)] ==
        IF n = 0 THEN <<>>
        ELSE IF rows[n].id \in ids THEN Append(kept[n - 1], rows[n]) ELSE kept[n - 1]
  IN  kept[Len(rows)]

Budget(budget) == IF budget <= 0 THEN DefaultBudget ELSE budget

(* int32(n) on the client.                                                 *)
Int32(n) == ((n + Half) % (2 * Half)) - Half

Narrowed(f) == [f EXCEPT !.limit = Int32(f.limit), !.offset = Int32(f.offset)]
=============================================================================
