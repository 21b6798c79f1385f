------------------------------ MODULE TuiList -------------------------------
(***************************************************************************)
(* The list screen of the TUI: one search box over rows that are fetched   *)
(* in the background. Every Service call runs in a goroutine of its own    *)
(* and its answer comes back as a message, so answers arrive in any order, *)
(* long after the screen state they were asked for.                        *)
(*                                                                         *)
(* A query stands for everything listModel.spec() snapshots (search text,  *)
(* kind, dead, recent, sort, review); the constant Asks says what it asks. *)
(* The cursor is abstracted: a scroll key may always land near the end of  *)
(* the loaded rows (G does), which is when maybeLoadMore fetches.          *)
(*                                                                         *)
(* Names with an underscore are deliberate variants of the definition that *)
(* follows them (see MemoryStore).                                         *)
(***************************************************************************)
EXTENDS Naturals, SequencesExt

CONSTANTS
  Rows,       \* memories
  Stored,     \* the rows in the store at the start, in creation order
  Queries,
  Asks,       \* what each query asks: see Ask
  Disliked,   \* rows voted down more than up
  Page,       \* layerFetchLimit: rows per timeline page or search layer
  Wide,       \* widePoolLimit = maxLayerLimit
  MaxSeq,     \* bound: queries the user asks for
  MaxCmds,    \* bound: commands outstanding at once
  MaxFails,   \* bound: calls that fail
  MaxChanges  \* bound: rows written or removed, here or by other clients

Ask == [terms : BOOLEAN,                           \* something in the search box
        review : BOOLEAN,                          \* the curation preset
        newest : BOOLEAN,                          \* created_desc
        rows : SUBSET Rows,                        \* kind, dead and recent filters
        keyword : SUBSET Rows, text : SUBSET Rows, fuzzy : SUBSET Rows]

ASSUME AsksAssumption == Asks \in [Queries -> Ask]
ASSUME StoredAssumption == Stored \in Seq(Rows) /\ IsInjective(Stored)
ASSUME LimitAssumption == Page \in Nat \ {0} /\ Wide \in Nat /\ Page <= Wide

VARIABLES
  store,     \* the rows in the database, in creation order
  list,      \* listModel
  shown,     \* history: the query whose rows the list shows
  timers,    \* the debounce timers running, by seq
  cmds,      \* commands outstanding, oldest first
  inFlight,
  fails,     \* history: the seqs of the calls that failed
  writes,    \* history: the rows other clients wrote or removed
  raced      \* history: see Race

vars == <<store, list, shown, timers, cmds, inFlight, fails, writes, raced>>

-----------------------------------------------------------------------------
(* What the Service answers.                                               *)

Take(s, n) == SubSeq(s, 1, IF n < Len(s) THEN n ELSE Len(s))

(* The elements of s that are in S, in their order (a function, where      *)
(* SelectSeq would do: see TuiListProofs), and those that are not.         *)
Among(s, S) ==
  LET kept[n \in 0..Len(s)] ==
        IF n = 0 THEN <<>>
        ELSE IF s[n] \in S THEN Append(kept[n - 1], s[n]) ELSE kept[n - 1]
  IN  kept[Len(s)]

Without(s, S) == Among(s, ToSet(s) \ S)

(* The rows of a query, in the total order (pk tiebreak) pages are cut from.*)
Matching(q) == Among(IF Asks[q].newest THEN Reverse(store) ELSE store, Asks[q].rows)

Timeline(q, offset) ==
  Take(SubSeq(Matching(q), offset + 1, Len(Matching(q))), IF Asks[q].review THEN Wide ELSE Page)

(* The three fetches of a layered search; "left" counts those still to do. *)
Layer(q, left, limit) ==
  CASE left = 3 -> Take(Among(Matching(q), Asks[q].keyword), limit)
    [] left = 2 -> Take(Among(Matching(q), Asks[q].text), limit)
    [] left = 1 -> Among(Take(Matching(q), Wide), Asks[q].fuzzy)

-----------------------------------------------------------------------------
(* A command: what it was asked for, the Service calls it still has to     *)
(* make, and the rows it has so far.                                       *)
Fetches == {"replace", "append", "grow", "delete"}

Command == [fetch : Fetches, seq : Nat, query : Queries,
            n : Nat,                    \* the offset of a page, the limit of a layer
            left : 0..3, found : Seq(Rows)]

Search(fetch, seq, q, n) ==
  [fetch |-> fetch, seq |-> seq, query |-> q, n |-> n,
   left |-> IF Asks[q].terms THEN 3 ELSE 1, found |-> <<>>]

Replace(seq, q) == Search("replace", seq, q, IF Asks[q].terms THEN Page ELSE 0)

Issue(cmd) ==
  /\ cmds' = Append(cmds, cmd)
  /\ inFlight' = inFlight + 1

Init ==
  /\ store = Stored
  /\ \E q \in Queries :
       /\ ~Asks[q].terms /\ ~Asks[q].review
       /\ list = [query |-> q, typing |-> FALSE, seq |-> 1, items |-> <<>>,
                  exhausted |-> FALSE, pendingMore |-> FALSE, growLimit |-> 0]
       /\ cmds = <<Replace(1, q)>>
       /\ shown = q
  /\ timers = {} /\ inFlight = 1
  /\ fails = {} /\ writes = {} /\ raced = FALSE

history == <<fails, writes>>

Quiet == cmds = <<>> /\ timers = {}

Room == Len(cmds) < MaxCmds

(* A page is asked for, or a row deleted, while anything is outstanding; a *)
(* query, while a delete is (its answer may bring the deleted row back).   *)
Race(busy) == raced' = (raced \/ busy)

(* The rows written or removed so far, or about to be.                     *)
Changed ==
  writes \cup (ToSet(Stored) \ ToSet(store))
    \cup {cmds[i].found[1] : i \in {j \in DOMAIN cmds : cmds[j].fetch = "delete"}}

MayChange(r) == Cardinality(Changed \cup {r}) <= MaxChanges

Deleting == \E i \in DOMAIN cmds : cmds[i].fetch = "delete"

-----------------------------------------------------------------------------
(* Keys.                                                                   *)

(* issueSearch: every fresh query restarts the pagination.                 *)
IssueSearch(q) ==
  /\ list.seq < MaxSeq /\ Room
  /\ list' = [list EXCEPT !.query = q, !.typing = FALSE, !.seq = @ + 1, !.exhausted = FALSE,
                          !.pendingMore = FALSE, !.growLimit = 0]
  /\ Issue(Replace(list.seq + 1, q))
  /\ Race(Deleting)
  /\ UNCHANGED <<store, shown, timers, history>>

Refresh == ~list.typing /\ IssueSearch(list.query)

(* A filter or the sort order changes, or esc empties the search box.      *)
Toggle == ~list.typing /\ \E q \in Queries \ {list.query} : IssueSearch(q)

(* "/" and, in the search box, esc.                                        *)
Focus ==
  /\ list' = [list EXCEPT !.typing = ~@]
  /\ UNCHANGED <<store, shown, timers, cmds, inFlight, history, raced>>

Submit == list.typing /\ IssueSearch(list.query)

(* A key that changes the text: the search waits for a pause in the typing.*)
Type ==
  /\ list.typing /\ list.seq < MaxSeq
  /\ \E q \in Queries \ {list.query} : list' = [list EXCEPT !.query = q, !.seq = @ + 1]
  /\ timers' = timers \cup {list.seq + 1}
  /\ UNCHANGED <<store, shown, cmds, inFlight, history, raced>>

(* maybeLoadMore, the cursor being near the end of the loaded rows.        *)
MayLoadMore ==
  /\ ~list.typing /\ list.items # <<>>
  /\ ~list.exhausted /\ ~list.pendingMore /\ ~Asks[list.query].review

NextOffset_Skipping == Len(list.items) + 1

NextOffset == Len(list.items)

LoadPage ==
  /\ MayLoadMore /\ Room /\ ~Asks[list.query].terms
  /\ list' = [list EXCEPT !.pendingMore = TRUE]
  /\ Issue(Search("append", list.seq, list.query, NextOffset))
  /\ Race(~Quiet)
  /\ UNCHANGED <<store, shown, timers, history>>

Depth == IF list.growLimit = 0 THEN Page ELSE list.growLimit

Deeper_Doubled == Depth + Depth

Deeper == IF Depth + Page < Wide THEN Depth + Page ELSE Wide

LoadDeeper ==
  /\ MayLoadMore /\ Room /\ Asks[list.query].terms
  /\ IF Depth >= Wide
     THEN /\ list' = [list EXCEPT !.growLimit = Depth, !.exhausted = TRUE]
          /\ UNCHANGED <<cmds, inFlight>>
     ELSE /\ list' = [list EXCEPT !.growLimit = Deeper, !.pendingMore = TRUE]
          /\ Issue(Search("grow", list.seq, list.query, Deeper))
  /\ Race(~Quiet)
  /\ UNCHANGED <<store, shown, timers, history>>

(* d on a row, then y in the modal.                                        *)
Delete ==
  /\ ~list.typing /\ Room
  /\ \E r \in ToSet(list.items) :
       /\ MayChange(r)
       /\ Issue([fetch |-> "delete", seq |-> 0, query |-> list.query, n |-> 0,
                left |-> 1, found |-> <<r>>])
  /\ Race(~Quiet)
  /\ UNCHANGED <<store, list, shown, timers, history>>

-----------------------------------------------------------------------------
(* The runtime: timers fire, commands run, their messages are handled.     *)

(* debounceMsg: superseded by newer typing, or a fresh query.              *)
Debounced(t) ==
  /\ timers' = timers \ {t}
  /\ IF t = list.seq
     THEN /\ list' = [list EXCEPT !.exhausted = FALSE, !.pendingMore = FALSE, !.growLimit = 0]
          /\ Issue(Replace(t, list.query))
     ELSE UNCHANGED <<list, cmds, inFlight>>
  /\ Race(Deleting)
  /\ UNCHANGED <<store, shown, history>>

Gone(c) == c.fetch = "delete" /\ c.found[1] \notin ToSet(store)

(* The rows a command has after its next Service call.                     *)
Answered(c) ==
  IF c.fetch = "delete" THEN c.found
  ELSE IF Asks[c.query].terms
  THEN c.found \o Without(Layer(c.query, c.left, c.n), ToSet(c.found))
  ELSE Timeline(c.query, c.n)

(* A command makes its next Service call.                                  *)
Run(i) ==
  LET c == cmds[i] IN
  /\ c.left > 0 /\ ~Gone(c)
  /\ cmds' = [cmds EXCEPT ![i] = [c EXCEPT !.left = @ - 1, !.found = Answered(c)]]
  /\ store' = IF c.fetch = "delete" THEN Without(store, ToSet(c.found)) ELSE store
  /\ UNCHANGED <<list, shown, timers, inFlight, history, raced>>

Settle_CurrentOnly(c) == inFlight' = IF c.seq \in {0, list.seq} THEN inFlight - 1 ELSE inFlight

(* The answer has arrived: the spinner counts one command less.            *)
Settle(c) == inFlight' = IF inFlight > 0 THEN inFlight - 1 ELSE 0

(* errMsg: a toast. The list keeps its rows, and pendingMore.              *)
Fail(i) ==
  LET c == cmds[i] IN
  /\ c.left > 0
  /\ IF Gone(c) THEN UNCHANGED fails
     ELSE fails' = fails \cup {c.seq} /\ Cardinality(fails') <= MaxFails
  /\ cmds' = RemoveAt(cmds, i)
  /\ Settle(c)
  /\ UNCHANGED <<store, list, shown, timers, writes, raced>>

Deleted(i) ==
  LET c == cmds[i] IN
  /\ c.fetch = "delete" /\ c.left = 0
  /\ list' = [list EXCEPT !.items = Without(@, ToSet(c.found))]
  /\ cmds' = RemoveAt(cmds, i)
  /\ Settle(c)
  /\ UNCHANGED <<store, shown, timers, history, raced>>

(* listModel.apply: the curation preset keeps the disliked rows.           *)
Applied(found) == IF Asks[list.query].review THEN Among(found, Disliked) ELSE found

Appended_Blindly(found) == list.items \o found

Appended(found) == list.items \o Without(found, ToSet(list.items))

Stale_Never(c) == FALSE

Stale(c) == c.seq # list.seq

Settled_GuardKept == list

(* searchDoneMsg: any of them, stale or not, clears pendingMore.           *)
Settled == [list EXCEPT !.pendingMore = FALSE]

(* What an answer to the query on screen makes of the rows, and of "no     *)
(* more": a search that gains nothing, or a page that is not full.         *)
ShownItems(c) == IF c.fetch = "append" THEN Appended(c.found) ELSE Applied(c.found)

NoMore(c) ==
  \/ c.fetch = "append" /\ (Len(c.found) < Page \/ Appended(c.found) = list.items)
  \/ c.fetch = "grow" /\ Len(c.found) <= Len(list.items)
  \/ c.fetch = "replace" /\ \/ Asks[list.query].review
                            \/ Asks[list.query].terms /\ list.exhausted
                            \/ ~Asks[list.query].terms /\ Len(c.found) < Page

Shown(c) == [Settled EXCEPT !.items = ShownItems(c), !.exhausted = NoMore(c)]

SearchDone(i) ==
  LET c == cmds[i] IN
  /\ c.fetch # "delete" /\ c.left = 0
  /\ IF Stale(c) THEN list' = Settled /\ UNCHANGED shown
     ELSE /\ list' = Shown(c)
          /\ shown' = IF c.fetch = "append" THEN shown ELSE c.query
  /\ cmds' = RemoveAt(cmds, i)
  /\ Settle(c)
  /\ UNCHANGED <<store, timers, history, raced>>

(* Other clients of the same store.                                        *)
Write ==
  /\ \E r \in Rows \ writes :
       /\ MayChange(r)
       /\ \/ r \notin ToSet(Stored) /\ store' = Append(store, r)
          \/ r \in ToSet(store) /\ store' = Without(store, {r})
       /\ writes' = writes \cup {r}
  /\ UNCHANGED <<list, shown, timers, cmds, inFlight, fails, raced>>

User == Refresh \/ Toggle \/ Focus \/ Submit \/ Type \/ LoadPage \/ LoadDeeper \/ Delete

Timer == \E t \in timers : Debounced(t)

Progress(i) == Run(i) \/ Fail(i) \/ Deleted(i) \/ SearchDone(i)

Next ==
  \/ User \/ Write \/ Timer
  \/ \E i \in DOMAIN cmds : Progress(i)

Spec == Init /\ [][Next]_vars

-----------------------------------------------------------------------------
(* Properties.                                                             *)

(* Every variable stays in its type, the limits of the code included.      *)
TypeOK ==
  /\ store \in Seq(Rows)
  /\ list \in [query : Queries, typing : BOOLEAN, seq : Nat, items : Seq(Rows),
               exhausted : BOOLEAN, pendingMore : BOOLEAN, growLimit : 0..Wide]
  /\ shown \in Queries
  /\ timers \subseteq 1..list.seq
  /\ cmds \in Seq(Command)
  /\ inFlight \in Nat

(* No row is listed twice, although pages cut from a changing store overlap*)
(* and fetches overtake one another.                                       *)
NoDuplicates == IsInjective(list.items)

(* When everything has settled, the rows on screen are the answer to the   *)
(* query on screen ("the list ignores results that are not the latest      *)
(* issued query"), unless that search failed and said so.                  *)
ShownIsCurrent == Quiet => shown = list.query \/ list.seq \in fails

(* The spinner turns exactly while something is outstanding: every command *)
(* is counted once in and once out, the stale ones too.                    *)
SpinnerTruthful == inFlight = Len(cmds)

(* pendingMore never outlives the fetch it guards, or the list would stop  *)
(* loading: except after that fetch failed, until the next fresh query,    *)
(* the one a debounce timer is about to issue included.                    *)
GuardReleased ==
  list.pendingMore =>
    \/ \E i \in DOMAIN cmds : cmds[i].fetch \in {"append", "grow"}
    \/ list.seq \in timers \cup fails

TimelineShown == ~Asks[shown].terms /\ ~Asks[shown].review

(* If pages are only asked for while nothing is outstanding, and the store *)
(* is left alone, paging by offset shows the first rows of the timeline,   *)
(* none skipped, and says "no more" only at its end.                       *)
OrderlyPaging ==
  Quiet /\ ~raced /\ fails = {} /\ writes = {} /\ TimelineShown =>
    /\ IsPrefix(list.items, Matching(shown))
    /\ list.exhausted => list.items = Matching(shown)

(* "exhausted means the store has no more rows for this query".            *)
ExhaustedIsTrue ==
  Quiet /\ fails = {} /\ writes = {} /\ TimelineShown /\ list.exhausted =>
    ToSet(Matching(shown)) \subseteq ToSet(list.items)
=============================================================================
