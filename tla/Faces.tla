-------------------------------- MODULE Faces -------------------------------
(***************************************************************************)
(* An agent at the CLI or the MCP tools: it pages through a search, packs  *)
(* memories, reads and rates several at once. Each of these is more than   *)
(* one call, or more than one read, and other agents use the same memory   *)
(* in between. The service is the local one or the gRPC client of one.     *)
(***************************************************************************)
EXTENDS Search

CONSTANTS
  Stores,      \* memories at the start: a set of sets of rows
  Searches,    \* the filters an agent pages with, from offset 0
  Forms,       \* what is stored: records of keywords, words and lifetime
  Batches,     \* ids of one get or rate command: a set of sequences
  Packs,       \* arguments of a recall: records of any, query and budget
  StartTime,   \* when the agent's session begins
  MaxTime,     \* bound: the clock
  MaxChanges,  \* bound: calls of other agents, and clock ticks
  MaxTasks,    \* bound: commands of this agent
  NoId         \* no memory

(* Memories as they may be at a time: with pks and ids of their own.       *)
Memories(memories, time) ==
  /\ memories \subseteq Row /\ IsFiniteSet(memories)
  /\ \A r, s \in memories : r.pk = s.pk \/ r.id = s.id => r = s
  /\ \A r \in memories : r.created <= time

(* Offsets of all memories there may be are told apart by an int32.        *)
ASSUME FacesAssumption ==
  /\ \A memories \in Stores : Memories(memories, StartTime)
  /\ Searches \subseteq Filters
  /\ \A f \in Searches : f.offset = 0 /\ ~f.skipTotal /\ IsFiniteSet(f.any)
  /\ Forms \subseteq [keywords : SUBSET Terms, words : SUBSET Terms, lifetime : Nat]
  /\ Batches \subseteq Seq(Ids) \ {<<>>}
  /\ Packs \subseteq [any : SUBSET Terms, query : SUBSET Terms, budget : Int]
  /\ \A args \in Packs : IsFiniteSet(args.any)
  /\ IsFiniteSet(Ids) /\ Cardinality(Ids) <= Half /\ NoId \notin Ids
  /\ StartTime \in Nat /\ MaxTime \in Nat /\ StartTime <= MaxTime

VARIABLES
  rows,     \* the memories
  now,      \* the clock
  remote,   \* the service is a gRPC client
  task,     \* what this agent is doing, or did last
  changes,  \* calls of others so far
  tasks     \* commands of this agent so far

vars == <<rows, now, remote, task, changes, tasks>>

NoTask == [kind |-> "none", state |-> "done"]

Init ==
  /\ rows \in Stores
  /\ now = StartTime
  /\ remote \in BOOLEAN
  /\ task = NoTask
  /\ changes = 0
  /\ tasks = 0

Get(id) == CHOOSE r \in rows : r.id = id
Known(id) == \E r \in rows : r.id = id
Rateable(id) == Known(id) /\ ~Get(id).superseded
Replaced(r, s) == (rows \ {r}) \cup {s}

WithRead(id) == Replaced(Get(id), [Get(id) EXCEPT !.reads = @ + 1])
WithVote(id, up) ==
  Replaced(Get(id), IF up THEN [Get(id) EXCEPT !.up = @ + 1] ELSE [Get(id) EXCEPT !.down = @ + 1])

-----------------------------------------------------------------------------
(* Other agents. moved and grown remember what may disturb the paging that *)
(* is under way: that rows change their order or leave, that rows come.    *)
Disturbed(moves, grows) ==
  IF task.kind # "paging" THEN task
  ELSE [task EXCEPT !.moved = @ \/ moves, !.grown = @ \/ grows]

(* An order that depends on what is changed, or a row that leaves. Texts   *)
(* are weighed against all rows, so that one row more may reorder them.    *)
Ordered(by) == task.kind = "paging" /\ task.filters.order \in by
Filtered == task.kind = "paging" /\ ~task.filters.dead
Weighed == Ordered({"relevance"}) /\ task.filters.query # {}

Changes(moves, grows) ==
  /\ changes < MaxChanges
  /\ changes' = changes + 1
  /\ task' = Disturbed(moves, grows)
  /\ UNCHANGED <<remote, tasks>>

Tick ==
  /\ now < MaxTime
  /\ now' = now + 1
  /\ Changes(Filtered \/ Ordered({"relevance"}), FALSE)
  /\ UNCHANGED rows

(* Also this agent's own get of a memory it has just been shown.           *)
Read(id) ==
  /\ Known(id)
  /\ rows' = WithRead(id)
  /\ Changes(Ordered({"relevance", "reads_asc", "reads_desc"}), FALSE)
  /\ UNCHANGED now

Vote(id, up) ==
  /\ Rateable(id)
  /\ rows' = WithVote(id, up)
  /\ Changes(Ordered({"relevance", "rating_asc", "rating_desc"}), FALSE)
  /\ UNCHANGED now

Delete(id) ==
  /\ Known(id)
  /\ rows' = rows \ {Get(id)}
  /\ Changes(TRUE, FALSE)
  /\ UNCHANGED now

(* A plausible mistake: pks are counted.                                   *)
NextPk_Counted == Cardinality(rows) + 1

NextPk == IF rows = {} THEN 1 ELSE Max({r.pk : r \in rows}) + 1

Store(id, form, supersedes) ==
  LET new == [pk |-> NextPk, id |-> id, keywords |-> form.keywords, words |-> form.words,
              up |-> 0, down |-> 0, reads |-> 0, created |-> now,
              expires |-> now + form.lifetime, superseded |-> FALSE]
  IN
  /\ ~Known(id)
  /\ supersedes = NoId \/ Rateable(supersedes)
  /\ rows' = {IF r.id = supersedes THEN [r EXCEPT !.superseded = TRUE] ELSE r : r \in rows} \cup {new}
  /\ Changes(Weighed \/ (supersedes # NoId /\ Filtered), TRUE)
  /\ UNCHANGED now

-----------------------------------------------------------------------------
Starts(new) ==
  /\ task.state = "done"
  /\ tasks < MaxTasks
  /\ tasks' = tasks + 1
  /\ task' = new
  /\ UNCHANGED <<rows, now, remote, changes>>

Continues(next) ==
  /\ task' = next
  /\ UNCHANGED <<now, remote, changes, tasks>>

(* What a search must find, and what it may find, by the times themselves: *)
(* as the texts do not tell the parts of a second apart, memories within   *)
(* the second of a bound may be found or not.                              *)
Second(time) == time \div 2

Asked(r, f) ==
  /\ f.query \subseteq r.words \cup r.keywords
  /\ \A keyword \in f.keywords : keyword \in r.keywords
  /\ f.any # {} => \E keyword \in f.any : keyword \in r.keywords

Sure(f) ==
  {r.id : r \in {s \in rows :
     /\ Asked(s, f)
     /\ ~f.dead => ~s.superseded /\ Second(s.expires) > Second(now)
     /\ \A time \in f.since : Second(s.created) > Second(time)
     /\ \A time \in f.until : Second(s.created) < Second(time)}}

Possible(f) ==
  {r.id : r \in {s \in rows :
     /\ Asked(s, f)
     /\ ~f.dead => ~s.superseded /\ Second(s.expires) >= Second(now)
     /\ \A time \in f.since : Second(s.created) >= Second(time)
     /\ \A time \in f.until : Second(s.created) <= Second(time)}}

StartPaging(f) ==
  Starts([kind |-> "paging", state |-> "running", filters |-> f, offset |-> 0, shown |-> <<>>,
          sure |-> Sure(f), possible |-> Possible(f), moved |-> FALSE, grown |-> FALSE])

(* The filters as they reach the use-case.                                 *)
Sent(f) == IF remote THEN Narrowed(f) ELSE f

(* "page on with offset=..." (MCP), "n total" (CLI).                       *)
FetchPage ==
  LET f     == task.filters
      page  == Page(rows, Sent([f EXCEPT !.offset = task.offset]), now)
      shown == task.offset + Len(page.results)
  IN
  /\ task.kind = "paging" /\ task.state = "running"
  /\ Continues([task EXCEPT !.offset = shown,
                            !.shown = @ \o [i \in DOMAIN page.results |-> page.results[i].id],
                            !.state = IF page.total > shown THEN "running" ELSE "done"])
  /\ UNCHANGED rows

-----------------------------------------------------------------------------
(* get and rate over several ids: one call each, in order, up to the first *)
(* error. made counts the calls that took effect, for each id.             *)
StartBatch(verb, ids) ==
  Starts([kind |-> "batch", state |-> "running", verb |-> verb, ids |-> ids, answered |-> 0,
          failed |-> FALSE, made |-> [id \in Ids |-> 0]])

Calling == task.kind = "batch" /\ task.state = "running"
Current == task.ids[task.answered + 1]
Allowed == IF task.verb = "get" THEN Known(Current) ELSE Rateable(Current)
Effect == IF task.verb = "get" THEN WithRead(Current) ELSE WithVote(Current, task.verb = "up")
Made == [task.made EXCEPT ![Current] = @ + 1]

(* A plausible mistake: the loop goes on to the next id.                   *)
Stopped_GoesOn(next) ==
  [next EXCEPT !.failed = TRUE, !.answered = @ + 1,
               !.state = IF task.answered + 1 = Len(task.ids) THEN "done" ELSE "running"]

Stopped(next) == [next EXCEPT !.failed = TRUE, !.state = "done"]

Answered(next) ==
  [next EXCEPT !.answered = @ + 1,
               !.state = IF task.answered + 1 = Len(task.ids) THEN "done" ELSE "running"]

CallSucceeds ==
  /\ Calling /\ Allowed
  /\ rows' = Effect
  /\ Continues(Answered([task EXCEPT !.made = Made]))

(* The bump of a Get fails: the answer is the same.                        *)
BumpFails ==
  /\ Calling /\ Allowed /\ task.verb = "get"
  /\ Continues(Answered(task))
  /\ UNCHANGED rows

(* memory_not_found, memory_superseded, a busy database, no connection.    *)
CallFails ==
  /\ Calling
  /\ Continues(Stopped(task))
  /\ UNCHANGED rows

(* A deadline, or a connection that breaks, after the server has done it.  *)
AnswerLost ==
  /\ Calling /\ Allowed /\ remote
  /\ rows' = Effect
  /\ Continues(Stopped([task EXCEPT !.made = Made]))

-----------------------------------------------------------------------------
(* Recall: a search, then the bodies in a second read.                     *)
StartPack(args) ==
  Starts([kind |-> "pack", state |-> "searching", args |-> args, candidates |-> <<>>,
          sure |-> {}, present |-> {}, entries |-> <<>>])

Recalled(args) ==
  [query |-> args.query, keywords |-> {}, any |-> args.any, since |-> {}, until |-> {},
   limit |-> RecallLimit, offset |-> 0, order |-> "relevance", skipTotal |-> TRUE, dead |-> FALSE]

PackSearches ==
  /\ task.kind = "pack" /\ task.state = "searching"
  /\ Continues([task EXCEPT
       !.state = "reading",
       !.candidates = Candidates(rows, task.args.any, task.args.query, now),
       !.sure = Sure(Recalled(task.args))])
  /\ UNCHANGED rows

PackReads ==
  LET present == {r.id : r \in rows}
      asked   == task.args.budget
  IN
  /\ task.kind = "pack" /\ task.state = "reading"
  /\ Continues([task EXCEPT
       !.state = "done",
       !.present = present,
       !.entries = Assembled(Surviving(task.candidates, present),
                             Budget(IF remote THEN Int32(asked) ELSE asked))])
  /\ UNCHANGED rows

-----------------------------------------------------------------------------
Others ==
  \/ Tick
  \/ \E id \in Ids : Read(id) \/ Delete(id)
  \/ \E id \in Ids, up \in BOOLEAN : Vote(id, up)
  \/ \E id \in Ids, form \in Forms, supersedes \in Ids \cup {NoId} : Store(id, form, supersedes)

Agent ==
  \/ \E f \in Searches : StartPaging(f)
  \/ FetchPage
  \/ \E verb \in {"get", "up", "down"}, ids \in Batches : StartBatch(verb, ids)
  \/ CallSucceeds \/ BumpFails \/ CallFails \/ AnswerLost
  \/ \E args \in Packs : StartPack(args)
  \/ PackSearches \/ PackReads

Next == Others \/ Agent

Spec == Init /\ [][Next]_vars
-----------------------------------------------------------------------------
(* Memories have pks and ids of their own; a command is in a state of its  *)
(* kind.                                                                   *)
TypeOK ==
  /\ Memories(rows, now)
  /\ now \in StartTime..MaxTime /\ remote \in BOOLEAN
  /\ task.kind \in {"none", "paging", "batch", "pack"}
  /\ task.state \in {"running", "searching", "reading", "done"}

(* r must not come before s; by relevance, if it is the lesser one by its  *)
(* votes and not the greater one by its text or anything else.             *)
Worse(r, s, f) ==
  CASE f.order = "created_asc"  -> Second(r.created) > Second(s.created)
    [] f.order = "created_desc" -> Second(r.created) < Second(s.created)
    [] f.order = "rating_asc"   -> r.up - r.down > s.up - s.down
    [] f.order = "rating_desc"  -> r.up - r.down < s.up - s.down
    [] f.order = "reads_asc"    -> r.reads > s.reads
    [] f.order = "reads_desc"   -> r.reads < s.reads
    [] f.order = "relevance"    ->
         /\ TextScore(r, Corpus(rows), f) <= TextScore(s, Corpus(rows), f)
         /\ r.up - r.down < s.up - s.down
         /\ r.reads <= s.reads
         /\ r.created <= s.created
         /\ Cardinality(r.keywords \cap f.any) <= Cardinality(s.keywords \cap f.any)

(* Paging to the end shows every memory that matched at the start, once    *)
(* each, in the order asked for, whatever the limit - as long as nothing   *)
(* has happened that this order depends on: reads do not disturb an order  *)
(* by time or rating, votes none by time or reads, time none of all        *)
(* memories. When memories were stored meanwhile it may repeat one, but    *)
(* misses none (server.go renderResults, memory_reader.go Search).         *)
PagesWhole ==
  task.kind = "paging" /\ task.state = "done" /\ ~task.moved =>
    /\ task.sure \subseteq ToSet(task.shown)
    /\ ~task.grown =>
         /\ ToSet(task.shown) \subseteq task.possible
         /\ \A i, j \in DOMAIN task.shown : i < j =>
              /\ task.shown[i] # task.shown[j]
              /\ ~Worse(Get(task.shown[i]), Get(task.shown[j]), task.filters)

Length(ids) ==
  LET size[n \in 0..Len(ids)] == IF n = 0 THEN Heading ELSE size[n - 1] + Size[ids[n]]
  IN  size[Len(ids)]

(* A pack holds, best first, the candidates that were still there when     *)
(* their bodies were read, and as many as fit: more than one only within   *)
(* the budget asked for, none left out that would have fitted, and none    *)
(* at all only if nothing is left. What surely matched is among the        *)
(* candidates unless there are too many (queries.go RecallQuery.Execute).  *)
PackTruthful ==
  task.kind = "pack" /\ task.state = "done" =>
    LET survivors == Surviving(task.candidates, task.present)
        n         == Len(task.entries)
        asked     == task.args.budget
    IN
    /\ n <= Len(survivors)
    /\ \A i \in 1..n : task.entries[i] = survivors[i].id
    /\ survivors # <<>> => n > 0
    /\ asked > 0 /\ n > 1 => Length(task.entries) <= asked
    /\ n < Len(survivors) /\ Int32(asked) = asked =>
         Length(Append(task.entries, survivors[n + 1].id)) > Budget(asked)
    /\ Len(task.candidates) < RecallLimit =>
         task.sure \subseteq {r.id : r \in ToSet(task.candidates)}

(* get and rate over several ids take effect in order and stop: each id    *)
(* has been read or rated once for every time it was answered, and nothing *)
(* else has but one call whose answer was lost, or a read that was not     *)
(* counted. Success is reported only when every id was answered; a         *)
(* repetition after an error is on top of that (cli.go rateCmd, getCmd).   *)
BatchIsPrefix ==
  task.kind = "batch" =>
    /\ task.state = "done" /\ ~task.failed => task.answered = Len(task.ids)
    /\ \A id \in Ids :
         LET calls == Cardinality({i \in 1..task.answered : task.ids[i] = id})
             lost  == IF task.failed /\ remote /\ task.answered < Len(task.ids) /\ Current = id
                      THEN 1 ELSE 0
         IN  /\ task.verb # "get" => task.made[id] >= calls
             /\ task.made[id] <= calls + lost
=============================================================================
