# A TLA+ verification of go-agent-memory

`recall` keeps an agent's memories in a SQLite file that many processes share, serves them over MCP, a CLI,
a TUI and gRPC, and hosts the same files for several users behind API keys. This directory holds TLA+ models of
that code, the TLC configurations that check them, and TLAPS proofs about them. Source paths are relative to
`src/`; `M` is `internal/features/memories`.

## The system

| part | state | operations | interacts with |
|---|---|---|---|
| memories: aggregate, use-cases, repository (`M/domain`, `M/application`, `M/adapters/sqlite`) | rows, keyword mirror, full-text postings | Store (with Supersedes), Rate, Delete, Get, Search, Recall | SQLite: one write lock, transactions, triggers |
| storage (`internal/shared/infra/storage`) | the files, their schema version | Open + Migrate, OpenServer, ExportSnapshot | concurrent openers of one file |
| TUI list (`M/adapters/tui/list.go`, `query.go`) | query, sequence number, rows, paging guards | search, debounce, page, deepen, delete | Service calls that answer as messages, in any order |
| TUI screens (`M/adapters/tui/app.go`, `form.go`, `remote.go`) | mode, sub-models, service handle | open, follow, edit, confirm, reconnect | same; the endpoint configuration |
| API keys (`internal/features/apikeys`) | keys, their hashes and revocation | Create, Revoke, List, Authenticate | the gRPC interceptor |
| hosted server (`internal/server`) | one open database per space | ServiceFor, Close, Run | handler, API keys, storage |
| gRPC wire (`M/adapters/grpc`) | none | a Service over RPC, error mapping | client and server Service |
| endpoint configuration (`internal/shared/infra/remotecfg`) | `remote.json`, environment | Load, Save, Remove, Resolve | CLI and TUI |
| faces (`M/adapters/mcp`, `M/adapters/cli`, `cmd/recall`) | none | batches of get and rate, connect | Service |

What is hard here: processes that share a file and die at any point; an index kept by hand beside one kept by
triggers; pks that SQLite assigns again; a UI whose calls answer after the screen has moved on; overlapping
reconnects. What makes each part correct:

* memories: a call is atomic and isolated (it happens at one instant or not at all), indexes agree with the
  rows, a memory is corrected at most once and then frozen, corrections never form a cycle, nobody waits for ever;
* TUI list: it settles on the answer to the query on screen, shows no row twice, skips none, and says "no more" only
  when that is so; the spinner and the fetch guard end with what they count;
* TUI screens: no handler meets a missing sub-model, unsaved edits are not lost silently, no call goes to a
  service that is closed or absent;
* API keys: a command is whole or nothing, a revocation that was answered is for ever, with its first timestamp;
* hosted server: a memory lies in the space, and carries the name, of the key it came with; a request that comes after
  its key's revocation gets nothing; one database is open per space; every request is answered;
* storage: whatever releases opened, migrated, used and copied a file, its indexes follow its rows and nothing stored is lost;
* endpoint configuration: a process never calls a mixture of two endpoints, and never takes half a file for no endpoint;
* faces: pages put together are the whole answer, a pack is what was there and fits, a batch stops where it says.

The hazards, each at its line of code, with the properties that cover it, are listed in `PROJECT.json`.

## Modules

| module | models | extends / instantiates |
|---|---|---|
| `MemoryService` | the abstract service: a map from ids to memories, calls atomic | |
| `MemoryStore` | the same calls as SQL statements in transactions, with failures and crashes | `MemoryService` by refinement mapping |
| `MemoryStoreProofs` | theorems about `MemoryStore`: its indexes and links, what a transaction amounts to, the refinement of `MemoryService` | `MemoryStore`, TLAPS |
| `TuiList` | the list screen and its outstanding commands | |
| `TuiListProofs` | theorems about `TuiList` | `TuiList`, TLAPS |
| `TuiApp` | the screen machine and the connection | |
| `TuiAppProofs` | theorems about `TuiApp` | `TuiApp`, TLAPS |
| `KeyRing` | keys and spaces, created and revoked in one step; who is authenticated | |
| `ApiKeys` | the same commands as SQL statements of several admins | `KeyRing` (and implements it) |
| `KeyRingProofs` | what a step of the key ring keeps | `KeyRing`, TLAPS |
| `ApiKeysProofs` | theorems about `ApiKeys` | `ApiKeys`, `KeyRingProofs` |
| `Hosted` | requests, the space registry, shutdown, crash and restart, over an atomic key ring | `KeyRing` |
| `HostedProofs` | theorems about `Hosted` | `Hosted`, `KeyRingProofs` |
| `Migrations` | migrations 0001-0005 as functions of a database; what a release inserts and deletes | |
| `Startup` | processes that read the endpoint, open and migrate files, use and export them; `remote set` and `unset` | `Migrations` |
| `StartupProofs` | what each migration, insertion and deletion keeps of a database; theorems about `Startup` | `Startup`, TLAPS |
| `Search` | search and recall as functions of the rows; the limits and conversions on their way | |
| `Faces` | an agent's commands at the CLI and MCP, beside other agents, over a local or remote service | `Search` |
| `FacesProofs` | what a ranking, a page and a pack hold, for any rows; theorems about `Faces` | `Faces`, TLAPS |
| `MCMemoryStore`, `MCTuiList`, `MCTuiApp`, `MCApiKeys`, `MCHosted`, `MCStartup`, `MCFaces` | small instances | their modules |

Names with an underscore (`Begin_WithoutLock`) are variants of the definition that follows them, each with one
plausible bug; `PROJECT.json` ("mutants") says which property notices it. Nothing else uses them.

### MemoryService and MemoryStore

A caller is anything that makes one call at a time: a CLI one-shot, an MCP server's handler, a TUI command, a server
request. `pc[c]` is the statement it executes next, `req[c]` its arguments, `agg[c]` the aggregate it is about to
save, `reply[c]` its answer. `db` is the committed database: `memories` by pk, `memory_keywords` (the mirror)
and `memories_fts` (the postings). `WithinTx` is BEGIN IMMEDIATE: `Begin` takes `writer`, the one write
lock, and copies `db` to `work`; statements change `work`; `Commit` installs it, `Rollback` drops it.

* `Begin`/`Busy`: the lock is free, or `busy_timeout` runs out. `LoadMissing`, `LoadSuperseded`,
  `LoadForUpdate`, `LoadForDelete`: `GetByID` and the aggregate's refusals (`commands.go`, `memory_aggregate.go`).
* `SaveInsert`/`SaveUpdate`/`SaveKeywords`: the statements of `MemoryRepository.Save`, twice for a correction, the old
  memory first. `RemoveKeywords`/`RemoveMemory`: those of `Delete`. The full-text triggers of migration 0005 are part of
  `InsertRow`, `UpdateRow` and `DeleteRow`; the pk of a new row is one above the largest in use, so it may be
  one that a deleted row had.
* `ReadRow`, then `BumpAccess` or `BumpLost`: `GetFull` reads, then counts outside any transaction and drops the error.
* `StatementFails` at every statement, `Crash` at every moment of a call.

Left out: content, summary, source, lifetime and timestamps (no statement here branches on them; of the validation,
"no keywords" stands for all refusals), and the events (published in the transaction, no subscriber).
Callers in one process also queue for its single pooled connection; the model lets them interleave freely.

`MemoryService` says what callers may rely on: between invocation and answer a call takes effect at one instant,
whole, once, or not at all; a refusal is true at the instant it is decided. `ImplementsService` is that
refinement: the effect is at `Commit`, a refusal at the load.

### TuiList

`list` is `listModel`, `cmds` the commands outstanding with what each has found so far, `timers` the debounce timers.
Keys: `Refresh`, `Toggle` (any filter, the sort order, clearing the box), `Focus`/`Type`/`Submit` (the search box),
`LoadPage`/`LoadDeeper` (`maybeLoadMore`), `Delete`. Runtime: `Debounced`, `Run` (one Service call of a command: a
layered search makes three), `SearchDone`, `Deleted`, `Fail` (the messages, in any order), `Write` (other
clients). A query is a model value; the constant `Asks` says which rows match it and how.
Abstracted: the cursor (a scroll key may always land near the end), the scores inside a layer and the order of the
review preset, optimistic vote counts.

### TuiApp

`mode` and the sub-models `detail`, `form`, `confirm`, `remote` of `App`; `svc`, which is also its `cleanup`;
`cmds`, the outstanding commands, oldest first; `open`, the handles not yet closed. A command runs on the handle it was
given (`Run`: it fails on a closed one and panics on nil) and its message is handled later, on whatever screen is up
(`MemoryLoaded`, `Deleted`, `Stored`, `Reconnected`, `ReconnectFailed`, `Failed`, `Background`). A reconnect closes the
old handle (`CleanUp`), then connects and probes (`Connect`). Abstracted: find boxes, field focus, and whether
the endpoint was edited; quitting ends the model.

### KeyRing, ApiKeys and Hosted

`KeyRing` holds the two tables of `keys.db`: `spaces`, and `keys` by id. A token is told apart by the key it was
minted with, since only its hash is stored and looked up. `ApiKeys` executes `CreateKeyCommand` and `RevokeKeyCommand`
statement by statement: `cmd[a]` is what admin `a`'s process is doing, with the aggregate it holds; `Begin` takes
the write lock and copies the tables to `draft`, `LoadForRevoke` is `GetByID` plus `APIKey.Revoke`, `SaveSpace` and `SaveKey`
are the statements of `Save`, `Fail` and `GiveUp` are failures, kills and `busy_timeout`. `ImplementsKeyRing` lets
`Hosted` use the atomic steps of `KeyRing`.

In `Hosted` a request is a goroutine: `Arrive`; the interceptor (`PassOpenPath`, `Authenticate`, `Refuse`), which leaves
`ident` in its context; `ServiceFor` (`EnterServiceFor` takes `mu`, `FindHandle` or `OpenSpace` then `RegisterHandle`, or
`OpenFails`); and one call of the space's service, `CallStore` being the one that writes. A handle is named by the
request that opened it, so two handles of one space are told apart. `Run` stops, and closes the registry
(`BeginClose`, `CloseHandle`, `EndClose`) and `keys.db` (`CloseKeys`) in whichever order: the code that orders them, and that may
wait for requests in flight, is the kernel's, and nothing is assumed of it. `Exit` is the end of the process, by a crash
or not; `Start` another. `tooLate` remembers the requests that came after their key's revocation. What a call does inside the
space's file is `MemoryStore`'s subject; here a file is the set of memories stored in it, by whom and as whom.

### Migrations and Startup

A database is `version`, `rows`, `mirror` and `fts`: a posting is a rowid with the keywords indexed under it, the part of the
text a migration touches. `IntegerPk` (0003) keeps the rowids and fills the mirror again by pk; `RequireTTL` (0004) is the
arithmetic of its `UPDATE`, whole hours and at least one; `FoldKind` (0005) writes the kind into the column of rows without a
tag and into the mirror of all. Rebuilding the tables leaves the triggers as they were: postings change only by
`FoldKind`'s update and by `Inserted` and `Deleted`.

In `Startup` a process (`proc[p]`) reads `remote.json` and its environment in one step (`Resolve`), then is a client
(`StartRemote`) or opens a file: `StartLocal`, `Migrate` once for each migration its release has, `Opened`. `installed` is
the release a new process runs; it only grows, but processes of older ones may still run. `Export` copies a file at whatever
version it is. `BeginSave` truncates `remote.json`, `EndSave` writes it, `SaveFails` and `Exit` do not; `Remove` may
come in between. `stored`, `bounded`, `renumbered`, `told` and the fields `alone` and `astray` are histories, for the properties.

Assumed, and not shown: one migration and its mark in `schema_migrations` are one transaction that looks the mark up again (the
kernel's code; `storage.go:65` relies on it for concurrent openers); a process of an older release writes no more to a file that
was migrated under it (0002:9-11 asks to restart such servers). Before 0003 the rowid is implicit, and `VACUUM INTO` is free to
number rows anew while the postings keep the old numbers: copies to which that happened are left out of `IndexesFollow`, not of
`NothingLost`.

### Search and Faces

`Search` is `MemoryReader.Search` and `RecallQuery` as functions: `Matches`, `Score` (votes, reads, age, keywords and, with a query,
the text), `Key` and `Before` (the order, ties by pk), `Page`
(limit, offset, and the total that rides on the rows), `Assembled` (the loop that fills the budget, one `Packed` for each
row that is `Surviving`). Times are compared as texts that drop
trailing zeros; the clock ticks in half seconds, so that `Text` orders a whole second after its half. `Narrowed` and
`Int32` are the conversions of the gRPC client. What `-bm25 * 2.0` adds to a score (`memory_reader.go:54`) is a parameter, `TextRank`:
any number for each memory and query, and another one when other memories are in the table (dead ones included), since bm25 counts the words of all of
them. Texts never change, so that it depends on nothing else.

`Faces` composes them with a memory that changes. `task` is what the agent is doing: paging by the hint "page on with
offset=" (`FetchPage`), a batch of get or rate over several ids (`CallSucceeds`, `BumpFails`, `CallFails`, `AnswerLost`), or a pack
(`PackSearches`, then `PackReads`). `Others` are other agents' calls and the clock, each of them atomic (that they are is `MemoryStore`'s
subject). `moved` and `grown` say what has happened since the first page that the order asked for depends on: by relevance with a
query also that a memory was stored (`Weighed`).

Left out: the formula of bm25, snippets, the refusal of an unknown order (local and
remote check it alike before anything else), an error in one of Recall's two reads (the command reports it and packs nothing), the
tool descriptions and the rendering.

## Runs

| run | instance | checks |
|---|---|---|
| `store_writers` | 2 callers, 3 ids, 3 pks, no votes or reads | `LinksForward`, `CorrectionIsWhole`, `OneCorrection` |
| `store_service` | 2 callers, 2 ids, 2 pks, 1 keyword, 2 votes, 1 read | `IndexesInSync`, `IInv` (the invariant of the proofs, which contains `TypeOK`), `SupersededFrozen`, `ImplementsService` |
| `store_liveness` | 2 callers, 2 ids, no votes or reads | `CallsAnswered`, `LockReleased` |
| `apikeys_admin` | 2 admins, 2 keys, 2 names, 2 spaces and a bad one, 2 clock readings | `SpacesHaveKeys`, `RevokeIsKept`, `RevocationSticks`, `ImplementsKeyRing` |
| `hosted_serving` | 2 requests, 2 keys, 2 names, 2 spaces | `Isolation`, `RevokedIsOut`, `HandlesAccounted`, `Answered` |
| `startup` | 2 processes, 2 files, releases 1-5, 2 rowids, 3 endpoints, 2 environments, 3 forms of memory, 2 instants, 2 stores or saves | `IndexesFollow`, `NothingLost`, `EndpointHonest`, `OrderlyConfig` |
| `faces` | 3 memories and one to come, 8 searches, 2 batches, 4 packs, 3 calls of others or ticks, 1 command | `PagesWhole`, `PackTruthful`, `BatchIsPrefix` |
| `tui_paging` | 3 queries, 2 of 3 rows stored, pages of 1, depth 3, 3 sequence numbers, 2 commands, 1 failure, 1 change | `NoDuplicates`, `ShownIsCurrent`, `SpinnerTruthful`, `GuardReleased`, `OrderlyPaging` |
| `tui_exhausted` | 2 timelines, 3 rows, no failures or changes | `ExhaustedIsTrue`: violated |
| `tui_screens` | 2 memories, 3 services, 2 commands | `ScreenPointers`, `SpinnerTruthful`, `ServiceIsLive`, `OrderlyParking`, `OrderlyEditing` |
| `tui_editor` | same | `EditorStays`: violated |
| `tui_parked` | same | `ParkedUntilFixed`: violated |

Bounds. Two callers suffice for every pairwise race, because the write lock admits one transaction at a time: a third
caller can only be waiting or reading. Three ids allow a chain of two corrections, two rivals for one
memory, and the deletion of either end with its pk assigned again; votes and reads are bounded by `MaxVotes` and
`MaxReads`, counting those in flight. Two admins overlap in every way two
transactions can, and two clock readings tell a first revocation from a second. Two requests are two first requests of one space, one of
each, or a late one beside Close; a request is made once, before or after a restart, and liveness is about the one mutex they
and Close share. In `Startup`, two memories leave a gap in the rowids when the first is deleted, and use a rowid again when the last
is; the forms are a kind without a tag, with its own tag and with another's, and with and without a lifetime; two instants,
more than an hour and less than a month apart, make 0004 round; of the two endpoints one is longer, so that a shorter text over it
shows its end; two processes are a migrator with another migrator, an older release, an exporter or a writer, and two savers.
In `Faces`, the constants of the code are scaled down (pages of 2 by default and 3 at most, recalls of 3 memories and 4 characters)
and so is int32, to -4..3, so that limits and budgets lie on both sides of each of them: 0, negative, between, above the maximum,
and wrapping to a smaller, a zero or a negative number; one memory expires while the session runs. `MCTextRank` puts the oldest
memory first by more than the votes one can get while another is rated, and moves one to the front when the fourth memory comes. In `TuiList`, two outstanding commands overtake one another, three
sequence numbers give an old, a current and a typed-over query, a page of one row makes every offset a
page boundary, and depth 3 deepens twice (once clamped). In `TuiApp`, two commands are a late answer plus what the
user does meanwhile, and three handles let two overlapping reconnects both succeed. `CHECK_DEADLOCK` is off
in `TuiApp`, where a panic ends the program, and in `faces`, whose agent stops after its last command.

Fairness. `MemoryStore!FairSpec` asks weak fairness of each caller's own steps: a running goroutine runs, and each
blocking point has a way out in the code (the lock, or `busy_timeout`). Crashes, failures of statements and new calls
are never required. `Hosted!FairSpec` asks the same of each request's goroutine and of Close; stopping, crashing and
restarting are never required. No liveness is claimed of the TUI: its quiescent states are described by invariants instead.

Symmetry is used where callers, ids, keywords, processes and files are interchangeable and no liveness is checked.

### Findings

* `tui_exhausted`: `app.go:172` clears the paging guard before it drops a stale answer. With one older query still out,
  two scroll keys fetch the same page twice; the second copy adds nothing, which `app.go:181-182` takes for the end
  of the store: rows are missing and scrolling loads no more until the next query.
* `tui_editor`: `app.go:203-213` changes the screen whenever a memory arrives. Follow a link, open the editor,
  type, and the followed memory takes the editor off the screen, unsaved work included.
* `tui_parked`: any message but a search's or a rating's leaves the endpoint screen after a failed reconnect; a key there
  calls a nil service. `OrderlyEditing` and `OrderlyParking` show that a user who waits for answers is safe from both.

### Observed, and in no run of its own

* `ports.go:32` says pages "never duplicate or drop rows". They do not if nothing changes that the order depends on, which is what
  `PagesWhole` says. By relevance and by reads an agent's own get of a memory it was just shown is such a change
  (`memory_reader.go:166`), and so is its vote by relevance and rating, and a memory that is stored by relevance with a query.
* A page past the end has no row, so its total is 0 (`memory_reader.go:93`), where `read_models.go:21` counts "regardless of
  limit/offset". Paging by the hint gets there only if rows leave between two pages, and then ends.
* The client narrows a lifetime to int32 before the server validates it (`client.go:37`): one of 2^32 + 24 hours is refused
  locally and stored for a day remotely, where `errors.go:14` has remote mode "behaviorally identical to local".
* After 0005 a row whose tag named another kind has its old kind in the mirror and not in the column, so the mirror is not
  "rebuildable from that column" (0002:5). `IndexesFollow` states exactly that exception; searches read the mirror, so nothing is lost.
* Within one second, comparisons of times by their text may go either way (`memory_repository.go:34`); `Sure` and `Possible` in
  `Faces` bound what that may do to a search.
* Of two overlapping reconnects that succeed the first service is never closed (`app.go:247`).

## Proofs

`MemoryStoreProofs` proves, for every set of callers, ids, keywords and pks and every bound, from `PksAssumption` (pks
are natural numbers), `NoneAssumption` (the null values are not ids or callers) and `BoundAssumption`:

* `Inductive`: `Spec => []IInv`
* `TypeCorrect`, `IndexesCorrect` (`IndexesInSync`), `LinksAscend` (`LinksForward`).

Why `IInv` is needed: that mirror and rows agree in `db` is not inductive, since `Commit` installs `work`. So `IInv` says
what `work` is like before each statement: ids unique, links ascending and postings exact throughout (`Sound`), the
mirror exact except between a Save's or Delete's two statements, when it lags by the keywords of that one
memory (`Lagging`); that `work` belongs to the caller that holds the lock (`LockInv`); and that the aggregate about to be
saved is the row it will update, but for link and votes (`AggregateOK`), which keeps `UpdateRow` from changing keywords.
`LinksForward` rests on fresh ids (`FreshIds`): a link is set to an id that no row has yet, so the row that gets it
receives a larger pk. One lemma per action or per group of similar actions shows that it preserves `IInv`;
lemmas about `InsertRow`, `UpdateRow` and `DeleteRow` are shared.

The last part of the module goes on from there, with the same assumptions:

* `EffectInductive`: `Spec => [](IInv /\ EInv)`
* `CorrectionsWhole` (`CorrectionIsWhole`), `CorrectedOnce` (`OneCorrection`), `FrozenOnceSuperseded` (`SupersededFrozen`, an action
  property)
* `Refinement` (`ImplementsService`).

`IInv` says that `work` is a sound database at every statement, not that it is the right one. `EInv` adds what the transaction has
done so far (`EffectOK`): before each statement, `work` is a function of the committed rows and the request, half-way at the second
statement of a Save, and `Done` before the commit. Since the writer holds the lock, the committed rows do not move under it, but for
reads counted outside any transaction; `Frame` shows that nobody else's step matters. Then a commit is one step of `MemoryService`, a refusal another,
and every other statement, failure or crash before the commit a stutter. The histories of corrections are related to the rows (`HistoryOK`) with the ids not yet issued.

`ApiKeysProofs` proves, for every set of admins, ids, names and spaces and every number of clock readings, from
`KeyRingAssumption` (`NoKey` is not a key, there is at least one clock reading) and `AdminsAssumption`:

* `Implementation` (`ImplementsKeyRing`): a commit is one step of `KeyRing`, everything else a stutter
* `TypeCorrect`, `SpacesUnlocked` (`SpacesHaveKeys`), `RevocationIsFinal` (`RevocationSticks`)
* `RevokesAreKept` (`RevokeIsKept`).

`Save` upserts the whole row it loaded, so the refinement needs to know that the row has not moved since. The invariant
says what a pending command knows (`PendingOK`: the id of a create is in nobody else's hands, a loaded revocation is of
the row as it still is, because the lock is held since before the load) and that the draft differs from the tables by
exactly the statements done (`DraftOK`). `RevocationIsFinal` then needs only the key ring: `RingStepSticks`. `RevokesAreKept` adds that no row and no loaded
aggregate is revoked at a time the clock has not shown (`Timely`), so that an answered revocation is in the past for good.

`HostedProofs` proves, for every set of requests, ids, names and spaces, from `HostedAssumption` (the server is not a request,
`None` is nothing else) and `KeyRingAssumption`:

* `TypeCorrect`, `SpacesIsolated` (`Isolation`), `RevocationTakesEffect` (`RevokedIsOut`), `NoHandleLeaks`
  (`HandlesAccounted`).

What a file holds depends on a token seen several steps before, under keys that admins change meanwhile. So the invariant
says what a request carries at each step (`CarriesOK`: from `Authenticate` on an identity that still is the key's, from
`OpenSpace` on a handle of that identity's space), that the request behind a memory is over, hence no longer changing
(`MemoriesOK`), that a late request is at its start or its end (`TooLateOK`), and that an open handle is registered or in
the hands of the one request between open and register (`HandlesOK`). A step of one request leaves the others alone
(`OneRequest`), an admin's step keeps every row (`RingStepSticks`), a step of the process keeps requests (`ProcessStep`).

`StartupProofs` proves, for every set of processes, files, memories and endpoints, any environments, forms, instants and
releases, and any lengths of the hour and the month, from `MigrationsAssumption` (a month is no shorter than an hour;
`Null` is neither a time nor a kind) and `StartupAssumption` (the newest release is among the releases, a saved endpoint has an
address, rowids and instants are numbers):

* `Inductive`: `Spec => []IInv`
* `TypeCorrect`, `IndexesCorrect` (`IndexesFollow`), `NothingIsLost` (`NothingLost`), `EndpointIsHonest` (`EndpointHonest`),
  `ConfigIsOrderly` (`OrderlyConfig`).

What a migration makes of a database depends on all that earlier releases put there. So the invariant says of each file,
whatever its version, that it is sound and that postings and mirror follow its rows (`FileOK`, with `Follows` not asked of a
renumbered copy), that none of its rows is younger than the clock, and that every stored memory is carried by a row
(`Kept`: with its kind as long as there is a column for it and as a tag of the mirror after, with its lifetime or, from 0004
on, one of a month from then). The first half of the module shows of each migration, insertion and deletion
that it keeps these for any rows; the second applies that to whichever process takes the step. The rest of the invariant is about
`remote.json`: a process that saves alone holds the file empty and under its name, and when several save nothing is
promised of it (`SaverOK`), from which it follows that only whole endpoints are ever read.

`TuiListProofs` proves, for any rows, queries, initial store, page size, depth and bounds, from `AsksAssumption` (every query asks
something), `StoredAssumption` (the store starts without repetitions) and `LimitAssumption` (a page has a row and is no larger than the pool):

* `Inductive`: `Spec => []IInv`
* `TypeCorrect`, `RowsOnce` (`NoDuplicates`), `LatestQueryShown` (`ShownIsCurrent`), `SpinnerCounts` (`SpinnerTruthful`), `GuardFreed`
  (`GuardReleased`), `PagesInOrder` (`OrderlyPaging`).

`ShownIsCurrent` and `OrderlyPaging` speak of a list at rest; the invariant says what holds on the way there. A query that is not
answered has its timer running, its fetch outstanding or its failure reported (`OnItsWay`; `Guarded` says the like of `pendingMore`), which
needs to be known of every outstanding command which query its number stands for (`Fetching`). That no row is listed twice needs it of the store, of every
answer under way and of the list at once (`Distinct`). For paging, as long as the user waits and nobody else writes (`Calm`), the listed rows, without those whose deletion is
done but not yet shown, are a prefix of the timeline (`ListsTimeline`), a page under way was asked for at the end of that prefix, and an answer to
it is the page of the timeline as it is now (`PagesOK`), because a delete is alone while it runs (`DeleteAlone`).

This rests on lemmas about sequences without repetitions: what filtering (`Among`) keeps of a concatenation, a reversal and a
prefix, and that the page at the end of a prefix continues it (`PageContinues`). They are inductions over a sequence. The library's
induction theorems cannot be used, since they take the property as an operator; `SeqInduction` states induction with the property as a
set of sequences, proved from the well-foundedness of the numbers. `Among` is a recursive function rather than `SelectSeq`
for that reason.

`TuiAppProofs` proves, for any memories, services and bound on commands, from `HandlesAssumption` (the app starts with a service;
`None` and the markers of an answer are not handles, memories or sub-models):

* `Inductive`: `Spec => []IInv`
* `TypeCorrect`, `ScreensHaveModels` (`ScreenPointers`), `SpinnerCounts` (`SpinnerTruthful`), `ServiceLives` (`ServiceIsLive`), `ParkedInOrder`
  (`OrderlyParking`), `EditsConfirmed` (`OrderlyEditing`, an action property).

`ServiceIsLive` is about two reconnects that overlap: the invariant says of every outstanding command that a service it
brings is open and in nobody else's hands, neither in use nor to be cleaned up nor in a second answer (`CommandOK`, `AnswersOwn`). `OrderlyParking`
and `OrderlyEditing` are about a user who waits: until the first key pressed too early, at most one answer that changes the screen is
under way, it was asked of a service, and none comes over unsaved work (`OneAtATime`).

`FacesProofs` proves, for any memories, searches, batches, recalls, sizes and limits, from `SearchAssumption` (a page has a row, a recall
asks for no more than a page may have, an entry has a character, the default budget is an int32, `TextRank` gives integers) and `FacesAssumption` (filters name
finitely many keywords, paging starts at offset 0 and asks for the total, a batch has an id, as `cobra.MinimumNArgs` sees to, the session's
memories have pks and ids of their own and are not from its future, and there are never more of them than offsets of an int32):

* `Inductive`: `Spec => []IInv`
* `TypeCorrect` (`TypeOK`), `PagesComplete` (`PagesWhole`), `PacksTruthful` (`PackTruthful`), `BatchPrefix` (`BatchIsPrefix`).

`PagesWhole` compares pages that were cut from different rankings. What they have in common is the `View`: of every memory found its
id, its pk and the key it is ordered by. A memory's `Place` is one more than the number of those ahead of it, the places of a view
are its numbers from 1 on, each taken once (`Taken`), and a page is the memories at the places that follow its offset (`PageIs`).
So the invariant can say what a paging knows (`Paged`): what surely matches is found, and is shown already or has a place behind the offset.
A read, a vote or a tick leaves the view alone if the order does not depend on it (`ReadIs`, `VoteIs`, `TickIs`). Where texts are not weighed,
keys do not depend on which other memories there are (`Unweighed`), so a memory that is stored moves places only away from the front
(`PlaceGrows`), and the next page may repeat but not skip. That the offset survives int32
needs the bound on the memories, and that it lies within the view: past it the paging has ended. `SureFound` relates the times by which
memories are found to their texts, and `NotWorse` the keys to what they are made of, the text's rank and the division of the freshness included.

A pack is a loop, hence a recursive function: `AssembledFits` says what it returns by induction over its passes (`PackOK`), with the property
as a set of numbers, since the library's induction takes an operator. For a batch, `CallingIs` says that the calls that took effect are
those answered, as long as none has failed.

Model-checked only:

* Liveness (`CallsAnswered`, `LockReleased`, `Answered`), which the prover does not handle.

## Plan

What would come next: that a step of `Faces` by another agent is one of `MemoryService`, so that what `Others` may do follows from the store
instead of being stated again; find boxes and error texts in `TuiApp` (a refused save is reported on whatever form is up, `app.go:270`).

## Not modelled

* Rendering, key bindings and highlighting of the TUI; flags, prompts and output of the CLIs; tool descriptions of the MCP server: no
  state a property is about.
* Listing keys and spaces (they only read), and opening `keys.db`, which has a single migration.
* The mapping of gRPC error codes one by one: what an agent does next does not depend on the code.
* The go-kernel dependency (transactions, clock, migration runner, server life cycle), which is not in the repository and is modelled
  from how the code uses it, and the domain events, which have no subscriber here.
* Generated protobuf code.
