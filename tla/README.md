# datagrep in TLA+

This directory holds TLA+ specifications of datagrep, a database client, the
TLC configurations that model-check them, and TLAPS proofs about each component that is modelled.
All paths below are relative to the repository's root unless they start with a
module's name. `core/` stands for `crates/datagrep-core/src/`, `ffi/` for
`crates/datagrep-ffi/src/`, `drv-x/` for `crates/datagrep-drv-x/src/`.

* [Inventory of the system](#inventory-of-the-system)
* [The modules and the code](#the-modules-and-the-code)
* [The runs](#the-runs)
* [Fairness](#fairness)
* [What is proved](#what-is-proved)
* [Where code and comments disagree](#where-code-and-comments-disagree)
* [What else was found by reading](#what-else-was-found-by-reading)
* [What is not modelled](#what-is-not-modelled)
* [What would come next](#what-would-come-next)

## Inventory of the system

datagrep is a Rust workspace. A frontend (Swift, GTK, Qt or the command line)
talks to `datagrep-core`, mostly through the C interface in `datagrep-ffi`; the core
talks to databases through the traits of `datagrep-api`, which the drivers
implement. A query crosses the system like this:

    frontend -> api.run_query -> session.acquire ---- a leased connection
                              -> gate.admit ---------- may the statement run at this rung?
                              -> QueryMgr.run -------- feeder task, store task, supervisor task

    driver cursor --next_batch--> feeder --channel of 14--> store --snapshots--> frontend
                                     ^---- park / resume / stop ------'  |
                                                                        v
                                                  one memory budget for all results

    store phases --> supervisor --> events to the frontend; drops the connection lease
    dropped lease --> session's idle stack, with a timer that closes the connection later

| part | state it keeps | operations | what makes it hard | what makes it correct |
|---|---|---|---|---|
| row feeder, `core/feeder.rs` | park flag and its `Notify`, rows fed, last state | pull, send, park, resume, stop | it waits in four places (park flag, channel slot, driver, `close`) and is parked, woken or stopped in each | rows in order and none lost; parked means at most one more batch; stopping ends it |
| result store, `core/store.rs` | chunks, resident bytes, phase | receive, admit, publish, spill, evict, stop, drop | await points between looking and acting; a final state in a different channel than the data | phases tell the truth; a result that can go on does |
| memory budget, `core/store.rs` | bytes in use, who waits | reserve, release | all results share it without a lock | exact, never over, no release unheard |
| query manager, `core/query.rs` | the table of queries, their supervisors, events | run, cancel, close, shutdown | three tasks per query; supervisors are aborted; cancel goes on in the background | one owner per connection; every end announced once, as it was |
| session pool, `core/session.rs`, `core/timer.rs` | permits, idle stack, poisoned flags, a queue of keyed timers | acquire, release, reap, shutdown | release is three steps; reap events come late; timer keys are used again | a connection has one owner, none broken is handed out, none outlives the session |
| safety gate, `core/safety.rs` | the rung, open challenges, grants | admit, plan, satisfy, set_level | locks are released between the look at the rung and the grant; both lists are bounded | one confirmation clears one request |
| profiles and sessions, `core/api.rs`, `core/registry.rs`, `ffi/core.rs` | saved profiles, registered ids, sessions, forwards | open, run, edit, disconnect | a profile is edited while it is opened; nothing is locked over an await | one session per profile; an edit takes effect |
| SSH host keys, `crates/datagrep-tunnel/src/host_key.rs`, `ffi/ssh.rs` | the file of pins, what is being reviewed | review, trust, check | each user of the file opens it anew; it is truncated and written whole | what is pinned was shown to a user and trusted |
| tunnels, `crates/datagrep-tunnel/src/pool.rs` | shared SSH sessions, their counters | checkout, clone, drop, linger | the last user leaves while the next arrives | whoever holds a tunnel holds the one in the pool |
| export, `core/export.rs`, `ffi/export.rs` | partial file, its task | start, write, cancel, free, rename | stopped, freed and cut off between any two file operations | the target is the old file or a whole new one |
| query handle, `ffi/query.rs` | the script's task, cancel request, callback context | start, drive, supervise, cancel, detach, free | stop races with the server's acceptance; a callback may run while it is taken away | a stop is kept; no callback without its context |
| sidecar host, `crates/datagrep-drv-sidecar`, and its child, `sidecar/common/rpc` | requests in flight, cursors, the process | call, cancel, fetch, close, kill | two processes and a pipe each way; callers give up, the child stalls or dies | every request gets one answer; what is let go is closed |
| Postgres driver, `drv-postgres/` | sessions with their mutex, pinned ones with an actor each | acquire, statement, cursor, batch, read-only, close | sessions are shared by queries, batches and the catalog; any await may be dropped | never more than the cap; a batch is whole; read-only reaches all |
| Elasticsearch driver, `drv-elasticsearch/` | scroll or point-in-time, page size, documents' sequence numbers | search, page, release, mutate | requests are lost or late; pages vary in size; a release is itself a request that can be given up | pages are whole; no context is forgotten; no blind overwrite |
| SQLite driver, `drv-sqlite/` | one thread with a channel of jobs, open scans, the transaction | all calls of a connection | callers leave their jobs behind; an interrupt hits what happens to run | a batch is whole |
| MySQL driver, `drv-mysql/` | one connection behind a lock, an actor for a script or a batch | script, cursor, batch, close | the asker is dropped between any two commands; a `KILL QUERY` comes any time | a batch is whole, and the next request finds the connection clean |
| MongoDB and Redis drivers | one library connection | execute, next_batch, cancel | what is delicate happens on the server | see [below](#what-else-was-found-by-reading) |
| GTK window, `ui/gtk4/src/ui/window.rs`, `model/result.rs`, `model/editing.rs` | what is in the grid, parked results of other tabs, staged edits | run, sort, filter, change tab, stage, commit, review | one thread, but answers and dialogs come after the tab has changed | results and edits stay with their tab and connection |
| languages, formats, profile and secret files, CLI | files and text | parse, render, save | nothing concurrent | not modelled |
| other user interfaces, `ui/`, tooling | | | | not modelled |

`PROJECT.json` lists the same parts under `components`, with what is left out
of each, and under `hazards` the places where this code can go wrong in a way
a unit test would hardly reach, with the line and the properties that watch it.

## The modules and the code

| module | models | checked by |
|---|---|---|
| `ResultStream` | what a running query promises to everybody outside it | implemented by `Pipeline`, extended by `QueryMgr` |
| `Leases` | what the pool of a session promises whoever leases connections | implemented by `SessionPool` and `QueryMgr` |
| `MutationBatch` | what a connection with `ATOMIC_BATCH` promises whoever applies edits | implemented by `PgPool`, `MySqlActor`, `SqliteWorker` |
| `Pipeline` | `feeder.rs`, `store.rs`: feeder, writer, budget, frontend | `MCPipeline`: `PipelineOne`, `PipelineTwo`; `Pipeline_proofs` |
| `QueryMgr` | `query.rs` of the core, on top of `ResultStream` | `MCQueryMgr`: `QueryMgr`, `QueryMgrPull`, `QueryMgrKill`; `QueryMgr_proofs` |
| `SessionPool` | `session.rs` (acquire, lease, release, reap, shutdown), `timer.rs` | `MCDesk`: `Desk`; `Frontend_proofs` |
| `SafetyGate` | `safety.rs`, with the rungs of `datagrep-api` | `MCDesk`: `Desk`; `Frontend_proofs` |
| `Profiles` | opening, running and editing a saved profile | `MCDesk`: `Desk`; `Interface_proofs` |
| `HostKeys` | review, trust and check of SSH host keys | `MCDesk`: `Desk`; `Interface_proofs` |
| `TunnelPool` | the pool of shared SSH sessions | `MCDesk`: `Desk`; `Interface_proofs` |
| `Export` | an export and its files | `MCDesk`: `Desk`; `Interface_proofs` |
| `QueryHandle` | a script's handle in the C interface | `MCDesk`: `Desk`; `Interface_proofs` |
| `Sidecar` | the host of an engine that runs as a child process, and the child's server | `MCSidecar`: `Sidecar`, `SidecarCancel`; `Sidecar_proofs` |
| `PgPool` | a Postgres connection: pool, actor, cursor, requests | `MCPgPool`: `PgPool`, `PgReadOnly`; `PgPool_proofs` |
| `EsSearch` | a search in Elasticsearch and what the server does for it | `MCDesk`: `Desk`; `MCEsSearch`: `EsShortPage`; `Drivers_proofs` |
| `EsMutate` | edits of documents with optimistic guards | `MCDesk`: `Desk`; `Drivers_proofs` |
| `SqliteWorker` | the thread that owns a SQLite connection | `MCDesk`: `Desk`; `Drivers_proofs` |
| `MySqlActor` | a MySQL connection and the actor that holds it | `MCDesk`: `Desk`; `Drivers_proofs` |
| `ResultTabs` | the GTK window: tabs, runs, staged edits | `MCDesk`: `Desk`; `MCResultTabs`: `TabsProfile`; `Frontend_proofs` |
| `MCDesk` | all that `Desk` checks, side by side | `Desk`; `Desk_proofs` |

In all of them a program counter has one value for each await point of its task (and
for each place where another thread can come between), so that an action is what the
code does from one such point to the next. Every variable's comment names its
field. A `history:` variable is not in the code; it remembers something for a property.

**Pipeline.** One program counter per task: `fpc` for the feeder, whose values
are the await points and the looks at shared state of `pull_loop`; `spc` for the
writer, whose values are those of `run_store`, `admit` and `enforce_hot_window`.
Code between two await points that no other task can come between is one
action. Three things are split although the code has no await there, because
another thread can see the middle: the gate's look at the park flag and the
wait that follows it, a failed reservation and the wait for memory, and a
release that has left the lease but not the budget (`releasing`). A `Notified` is a
boolean per waiter (`woken`, `freed`) that the code's `enable` clears and a
notification sets. `select!` is a disjunction, with negated guards where it is
`biased`. The cursor is the environment: it hands out batches of sizes in
`BatchRows`, empty ones up to `MaxBlank`, and ends, fails, is cancelled by the
driver or panics as `CursorMay` allows. A row weighs one unit, so bytes and rows
are one measure and the two hot limits are one. `GlobalBudget::release` reads
the counter and subtracts the minimum in two steps; `Minus` does it in one, and
`BudgetExact` shows that the minimum never bites.

**ResultStream.** A result is a number of visible rows, a phase and the fact
that its feeder still uses the connection. Load, park, let go, cancel and end
are its steps. `Pipeline` implements it under the mapping in its last
definitions: `shown` is the number of published rows, both parked phases are
`Parked`, and the feeder is feeding until its cursor is closed. What the mapping does not cover is a driver
that panics: then the feeder is gone without a last word and the store calls
the result complete, so `PipelineOne`, which checks the mapping, has no panics.

**Leases.** A pool as its users see it: open a connection, take an idle one, give it back, give it up;
the reaper closes idle ones. `SessionPool` implements it with `holds` being the connection of each
caller from the dial until it is back on the stack, so that neither the permits nor a timer that
fires late can be seen from outside. `QueryMgr`, which is built on a pool, implements it with its queries
as the users: what the manager does with connections is something the pool lets its users do.

**MutationBatch.** A batch of edits is saved in one step or never, and is answered once; one that
is answered as refused is not saved later, one that is answered as applied was saved before. The three SQL drivers
implement it with what each has in its database and has told its caller (`PgBatches`,
`MySqlBatches`, `SqliteBatches`). SQLite does so only until a transaction cannot be ended, which
the property names (`stuck'`); see [below](#what-else-was-found-by-reading) for what happens then.

**QueryMgr.** Its queries are streams of `ResultStream`, so the manager is
checked against everything a stream may do and not against one implementation
of it. `Run` is the part of `run` before the query can be found, `Register` the
rest. A supervisor is where it waits (`watch`), about to drop its lease
(`release`) or gone. `ServerCancel` is the detached task of `cancel`; what it kills
is what runs on the connection at that moment, since the drivers address the
connection and not the statement. Events that only repeat the stream's state
(first batch, progress, parked) are left out.

**SessionPool.** A caller's place (`pc`) is its place in `acquire` or in the drop
of its lease: the reap timer is scheduled, then the connection is pushed, then
the permit returned, and other tasks run in between. A timer key is a slot, as
in tokio's `DelayQueue`; a slot is free as soon as its entry is gone, and any free one
may be given next. `Abandon` and `ActorDone` are the connection's own task finishing a
command after its caller has left, which is how a connection is poisoned while it
is idle. A connection is `closed` from when its task has been told to end: by a fatal command,
by whoever drops it from the pool, or by `Shutdown`, which cancels the session's token and
with it the token of every connection that was ever spawned, leased or idle. A caller
between its permit and `take_idle`, or at the end of its dial, may still be given one of
these; the first command on it fails.

**SafetyGate.** A call of `admit` or `plan` is a record that goes through the
sections of the code that hold the lock, one action each; `set_level` and
`satisfy` come between them. A statement is a read or is not; a text is a sequence
of statements. Time is left out: `EntryExpires` drops the oldest challenge or grant
at any moment, which covers every TTL, as entries are kept in the order of their age.

**Profiles.** `open_profile` and `run_request` as the threads of the user interface go
through them (look up the registered id, tunnel, register, session, connection), `forget_profile` and the
disconnect it spawns, and the version of the profile that each id was made
from. A LocalForward is up as long as an id's configuration is kept.

**HostKeys.** The file is the only thing that reviews, trusts and connects share. A
trust reads it, truncates it and writes it, in steps; a window shows what its review
found; the host may offer another key next time. The user's own `known_hosts` is `System`: a
lookup finds the key there, a conflicting one of the same `Algorithm`, or nothing, and it
may find nothing because the file cannot be read (`Readings`). `granted` are the pins
for which a trust has returned `Ok`; for a key the system vouches for, no pin is made.

**TunnelPool.** `refs` and `generation` of an entry as the atomics they are, the
map's lock as the unit of a step, and a timer per handle that looks at both when it
fires.

**Export.** The file system is the state: what is at a path, what is beside it, and
what each export wrote since it was truncated. Two exports to one path share the
name of their partial file. `Die` is the end of the application.

**QueryHandle.** `drive` with its statements one after the other, the streamed one at the end,
`supervise`, and the calls from outside: cancel (which may come while the server
still is accepting), detach of the callback and free, which aborts the task at its
next await.

**Sidecar.** The host's table of requests and its supervisor, the two pipes as
sequences of frames, the child's reading loop and one goroutine per request with the
stages at which a cancel does or does not reach it. A crash, a stall and an engine
that never answers are the environment. A cancel names a connection; the host
waits until the connection's requests are settled, and kills the child otherwise.

**PgPool.** A session is its client (live or dead), the mode the pool recorded and
the mode the server is in. Requests go through `acquire` (look, dial, wait, reconcile) and
what they do with the session; a cursor or a batch hands its session to an actor, whose
channel of commands is in `actor`. Whether a batch's rows are in the database, and
what its caller was told, are in `ledger` and `told`.

**EsSearch**, **EsMutate.** Both sides: the cursor or `execute_mutate`, and the server as
the requests use it, which is external. A search gets pages of any size of `Hints`;
the server may cut a page short, lose an answer or the context. It is a point-in-time or a
scroll, each with or without async search; of a scroll only the first page is searched
that way. The cursor forgets the id of its context before it awaits the request that
releases it (`Release`, then `ending` or `closing`): the request may be answered
(`Freed`) or refused (`FreeFails`), and the cursor goes on (`Released`) or is given up at
that await (`GiveUpRelease`), with the last page if there was one. A cursor that is dropped
outside a runtime sends nothing (`DropCursor`). `leaked` says that such a request was
lost, so that only `keep_alive` ends the context. A mutation goes to the
server with the sequence number its row was loaded with, several as one `_bulk` that
is worked off item by item; its answer may be lost, and the user tries again.

**SqliteWorker.** The channel and the thread behind it: one job is done after the
other, a statement at a time, so that an interrupt can fall between any two. A caller
that has left leaves its job in the channel. What SQLite does with an interrupt, an
open scan and a failed write is external and said in the module's head.

**MySqlActor.** A request is a script, a batch or direct; the first two give the
lock to an actor and send it commands, of which the last says how it ends. An asker
that is dropped closes the channel and the actor rolls back. A deadline the user
asked for has to be reset before the lock is let go.

**ResultTabs.** The window has one grid (`screen`); the results of other tabs are parked
with what is staged on them (`results`). A handler is one action, as all of it runs on one
thread; what goes on in between is a pre-flight (`gating`), dialogs (`ceremonies`, and
commits `at` "confirm" or "refused"), a batch that was sent, and a re-read. The user changes
tabs, connections and edits meanwhile. The engine and the gate answer as they like.
`CloseTab` is two handlers of one signal chain: the tab that comes to the front is announced,
then what is not open is forgotten.

Operators whose comment starts with "Fault:" are not the code. Each is a bug that could
be made in the definition right after it (a lost notification, a dropped guard, a
lease that keeps its bytes). `PROJECT.json` pairs each with a property under
`mutants`: put in place of the definition it makes TLC find that property
violated, so no property holds for want of a way to break it.

## The runs

Run with `tlc -config <cfg> <module>`. States are distinct states, on two cores.

| configuration | bounds | shows | states, time |
|---|---|---|---|
| `PipelineOne` | one table, up to 5 rows in batches of 1 or 2, channel of 2, cap 4, hot window 1, budget 3, spill file that works or fails each time, errors and cancels from the driver | `BudgetExact`, `PublishedInOrder`, `ParkHolds`, `StopTakesEffect`, `DropReturnsMemory`, `ReaderReachesTheEnd`, `ImplementsStream` | 137,000, 25 s |
| `PipelineTwo` | a table and a document, one row each, budget for one, spilling fails, cursors panic | `FreedIsNotLost`, `DroppingOthersResumes` | 395,000, 65 s |
| `QueryMgr` | two queries, one connection, one cancel each | `OneOwner`, `QuietEndIsHonest`, `EndIsAnnounced`, `StoppedQueryLetsGo` | 286,000, 49 s |
| `Sidecar` | one connection, three requests, one cancel | `TableIsTrue`, `CancelEndsTheCall`, `LetGoCursorsClose`, `UnheldProcessEnds` | 415,000, 172 s |
| `PgPool` | two sessions at a time and three in all, a batch of two, a browser of the catalog, three events from outside | `CapIsKept`, `ReadOnlyReachesEverySession`, `RequestsEnd`, `LetGoSessionsComeBack`, `PgImplementsBatch` | 543,000, 163 s |
| `Desk` | see below | `DeskTypeOK` and seventeen more | 2,363,000, 205 s |
| `QueryMgrPull`, `QueryMgrKill`, `SidecarCancel`, `PgReadOnly`, `EsShortPage`, `TabsProfile` | as their components' | what a comment or document says and the code does not do | |

`Desk` holds several components that share no state. One of them moves in a
behaviour (`moves`) while the others stand still, so the run is the sum of what each would be
alone and not the product. What `Desk` checks, by component:

| component | bounds | property | in words |
|---|---|---|---|
| `Profiles` | two threads opening twice, one edit | `RaceHasOneWinner` | who opens at the same time ends up with one id, one session, one forward |
| | | `QuietEditTakesEffect` | an edit made while nothing was being opened is in force for all that is asked for later, and the badge is about what is open |
| `HostKeys` | two hosts, three keys of two algorithms, one of them known to the system, two windows, two reviews, one mishap | `PinsAreTheUsers` | what is pinned was shown and trusted, and a pin stays |
| `TunnelPool` | three handles | `HeldTunnelIsPooled` | no late timer takes a tunnel from who holds it |
| `Export` | two exports, two paths, two batches | `TargetIsWhole` | the target is the old file or one whole export, and no partial file is left |
| `QueryHandle` | three statements | `StopIsHonoured` | once stop has returned nothing of the script goes on |
| | | `CallbackHasItsContext` | free and detach wait for a running callback |
| `EsSearch` | four documents, pages of 1 to 3, limits none, 0, 2, 3 | `PagesAreWhole` | no match twice, none missing, never more than the limit |
| | | `ContextsGoBack` | however the result ends, the server's context is known, being released, or one release of it was lost; none is released in use |
| `EsMutate` | two documents, two tries, one write of others | `GuardHolds` | no write replaces what its user has not seen, and none is done twice |
| | | `ReportIsTrue` | applied means stored, failed means not, item by item |
| `SqliteWorker` | three calls of any kind, one interrupt, batches of two | `PromisesAreKept` | a batch is saved in one step or never, and what its caller is told fits |
| `MySqlActor` | three requests, batches of two | `MySqlBatchIsWhole` | all mutations of a batch or none, and the next request finds a clean connection |
| | | `PromisesAreKept` | as in SQLite |
| `SessionPool` | two callers, two permits, three connections, three timer slots, two mishaps at a time (a command left behind, a late reap event, a closed connection) | `PoolIsExclusive` | a connection is in one place, never more than the permits allow, closed under its user only by its own failure or with the session, and with the session always |
| | | `HandsOutUsable` | what is handed out is not broken, nor closed before a shutdown |
| | | `PromisesAreKept` | to its callers, taking a connection and giving it back are single steps |
| `SafetyGate` | two callers, two rungs, texts of one or two statements, one challenge and two grants kept | `ClearsOnce` | one confirmation clears one request |
| `ResultTabs` | two tabs, two connections, one of them gated, one document; with runs and tabs first, then with two runs and all that is done to edits | `TabsAreHonest` | the grid shows what the tab in front ran on its connection, nothing is lost to another tab, edits stay with their result, a batch goes where its rows came from |

Why these bounds are enough to be interesting. In `PipelineOne` five rows in
uneven batches end before the cap, reach it exactly or overshoot it; three resident rows fill
the budget and two exceed the hot window, so a result parks, is resumed by the
reader, spills, fails to spill and waits for memory, all in one behaviour; a
channel of two lets the feeder be ahead while it is parked. `PipelineTwo` needs
no more than one row per result: the question is who holds the budget's only
place and who hears that it is free, and there are two results, so each waits for
the other in some behaviour. A queue of waiters longer than one behaves no
differently, since a release notifies all of them. With one
connection and two queries `QueryMgr` has every order of one query's end and the
next one's start. In `SessionPool` two callers with two
permits and three connections have one leased, one idle and one dialled while a reap event is late,
and a timer slot is used again while its old key is remembered; in `SafetyGate` two tickets
overflow a list of one challenge, and a plan of two statements overflows the grants. Both
instances are small because their properties are also proved, for every size. In `ResultTabs` two tabs and two
connections are what can be mistaken for each other; the three runs allow two results to be parked
and a third to be made. Three requests of `Sidecar` are an execute, a fetch or close of its
cursor and one more that is in flight when the cancel or the crash comes; a second
connection adds only requests that the first never meets, since the table, the cancel
and the contexts are per request or per connection. `PgPool` has a pinned
session, a second one that is taken or has died, and a third dialled in its place.
Three handles of `TunnelPool` are one that leaves, one that comes and one whose timer
is still under way from an earlier idle time. Three calls of `SqliteWorker` are a scan, a
batch and something between them; three requests of `MySqlActor` a script that leaves
the connection in some state, a batch, and one that finds what is left.

Bounds are in the guards: `MaxBlank` (empty batches), `MaxConns` (connections dialled),
`MaxCancels`, `MaxTickets` (challenges minted), `MaxChanges` (of the rung),
`MaxRequests`, `MaxCalls`, `MaxInterrupts`, `MaxOpens`, `MaxEdits`, `MaxReviews`,
`MaxMishaps`, `MaxAttempts`, `MaxOthers`, `MaxSids` (sessions dialled), `MaxEvents`,
`MaxLooks` (of the catalog), `MaxAsked` and `MaxRan` (statements resolved for and run), `MaxOpen`
(commits, or ceremonies of runs, open at a time). All configurations say
`CHECK_DEADLOCK FALSE`: behaviours end where the program has nothing left to do, or
where a bound is used up.

`Desk` uses symmetry in the two callers, windows, exports or tabs of one component; it checks no
liveness.

## Fairness

A tokio task that can run is run, so every task of the program has weak fairness
(`TaskFairness` in `Pipeline`: feeder, writer and memory on its way back; in `QueryMgr`
registration, supervisor, release). Nothing is assumed of a user, and nothing of
a driver's answers: `StopTakesEffect` holds although `next_batch` may hang for
ever, because the feeder races it with the token. `cursor.close()` is assumed to
return. `ServerCancel` is fair because drivers bound it by a timeout, and
`StopsWhenCancelled` because `Pipeline` shows it (`StopTakesEffect`).

`ReaderReachesTheEnd` carries its own assumptions (`Reader`): the driver answers
and the reader keeps asking. It also needs strong fairness of `TakeSlot`: each
resume wakes the feeder out of the select where it waits for a channel slot and
sends it to the head of its loop, so a reader who always asks at that moment
would hold it up for ever.

In `Sidecar` the host's tasks and the child's goroutines run, the host's timers fire,
a process that is killed dies, and an engine honours a context that is *cancelled*
(`Returns`); nothing is assumed of an engine whose context is alive, so a call may
wait for ever until it is cancelled. In `PgPool` tasks run, timers fire and the server
answers (with an error, if it likes) what it is asked; nobody has to read, close or
drop a cursor. The other modules are checked for safety only.

## What is proved

The proof modules are checked by tlapm; each theorem holds for every value of the
constants that the named assumptions allow. Every module that models code has one
inductive invariant (some have several, for separate questions), a conjunction of named
parts with one lemma per action or group of actions; only `ResultStream`, `Leases` and
`MutationBatch`, which are themselves specifications, have none. Proofs of modules that lie together in the code are in one file.

### `Pipeline_proofs`

Under `QueriesAssumption`, `SizesAssumption` and `OutcomesAssumption` (finitely many
queries, sizes are naturals, batches have a row, the channel has a place):

* `TypeCorrect`: `Spec => []TypeOK`, which no run repeats. One lemma per process, one step per action;
  a lemma says once for all that variables a step does not touch keep their
  types. No counter needs an invariant to stay natural because the code
  subtracts with saturation, which is itself a thing to justify: `BudgetIsExact`.
* `NoReleaseIsLost`: `Spec => []FreedIsNotLost`, a writer that waits for memory
  while its chunk fits has been notified. It is inductive together with the
  types: a failed reservation means the chunk does not fit, only a release can
  change that, and a release notifies every listener. That the code enables its
  `Notified` before it tries is what the argument rests on.
* `NeverOverTheLimit`: `Spec => []WithinLimit`, the first part of `BudgetExact`.
* `BudgetIsExact`: `Spec => []BudgetExact`. `BudgetInv` says of each query that its resident
  bytes are those of the chunks it has in memory (`Covered`) and that its lease holds them and
  what is about to be published, or is gone (`Leased`); and that the shared counter is the sum
  of all leases and of what is on its way back (`Sums`). By it a subtraction never saturates.
  `Bytes` and `Sums` are sums over sets; see [below](#induction-over-data) for how they are proved.
* `ParkedFeederStops`: `Spec => []ParkHolds`, a parked feeder feeds one more
  batch at most. `ParkHolds` is not inductive: a feeder past the gate that had fed
  already while parked would feed a second time. `ParkInv` says there is none:
  past the gate, or not parked, nothing has been fed since the park.
* `RowsInOrder`: `Spec => []PublishedInOrder`, what is
  published is a prefix of the source in its order. The invariant `OrderInv` follows
  the rows backwards: each published chunk begins where the one before it ends, the
  batch the writer carries where the chunks end, each batch in the channel where
  the one before it ends (`Edge`), the last ends at what was fed, and as long as the
  feeder can send again that is what was pulled. The last part is why a batch cut at
  the cap must be the last, and why the whole chain needs one invariant. Every part speaks
  of one query, so `OthersStand` and `OwnKeepsOrder` deal with the steps of others.
* `PipelineImplementsStream`: `NoPanics => (Spec => ImplementsStream)`. The initial states map
  to an initial state, and each step of feeder, writer, memory or user maps to a step of
  `ResultStream` or to a stutter. That more is shown only up to source and cap follows from
  `Counted`; that `Complete`, `Capped` and `Failed` are said only when they are true, from
  `LastWord`: what `pull_loop` returned is so, and the writer concludes when the channel is empty
  and its sender gone. The hypothesis is needed, not a convenience: a feeder that panics leaves no
  last word, and the store calls what it has complete ([see](#what-else-was-found-by-reading)).

### `QueryMgr_proofs`

Under `ConnAssumption` and `StreamAssumption`:

* `ConnectionsHaveOneOwner` (`OneOwner`) and `EndsAreHonest` (`QuietEndIsHonest`). A lease lives
  exactly as long as its supervisor (`MgrPlace`), each connection is idle or with one query
  (`Owners`), a phase other than `Cancelled` is final only when the feeder has let go (`EndPlace`), and
  what was announced fits the phase (`EventsTellThePhase`). As the manager runs on
  `ResultStream`, and `Pipeline` implements that, the two results compose.
* `QueriesUseLeases` (`MgrImplementsLeases`), from `Owners`: a query takes its connection from those that
  are idle and puts it back among them, whether it is released, closed or shut down.

### `Frontend_proofs`

The session pool, under `PoolAssumption` and `SlotAssumption`:

* `PoolTypes`, `PoolStaysExclusive` (`PoolIsExclusive`) and `UsableOnly` (`HandsOutUsable`).
  The inductive invariant `PoolInv` has one part per question: ids in use have been
  dialled (`IdsDialled`), a connection is in one place, be it a caller's hand or
  one position of the idle stack (`OnePlace`), poisoned and closed are said only of dialled
  connections, and until the session is shut down of a leased one only when it has failed (`Marks`);
  from then on all are closed (`NoneOutlivesSession`); a key is in hand only between
  scheduling and pushing (`KeyInHand`), and permits, holders and idle connections add up
  (`Counts`). Without `OnePlace` a reap event that comes late could close what somebody
  else has leased; with it, the event finds its id on the stack or does nothing.
* `PoolIsLeases` (`PoolImplementsLeases`): each step maps to a step of `Leases` or to a stutter. That a
  dial keeps the connections under the limit is `Counts`, seen from outside: permits bound the holders, and
  who dials has found nothing idle. `OnePlace` is what makes taking one from the stack leave it nowhere else.

The safety gate, under `GateAssumption`:

* `GateTypes` and `OneConfirmationOneRequest` (`ClearsOnce`). `GateInv` adds that the numbers of
  open challenges are distinct and have been minted (`Numbered`), that a grant's number and
  position name it uniquely and have not been spent (`GrantsOnce`), and that an open challenge
  has no grants and none that was spent (`OpenIsUngranted`), which is why it must be
  removed when it is satisfied. That the lists forget entries in bulk, at their limit or when
  they expire, is one relation, `Thinned`: what is left is some of what was, in distinct places.

The window, under `TabsAssumption`:

* `TabTypes` and `TabsStayHonest` (`TabsAreHonest`). `TabsInv` says of the grid, of each parked result
  and of each batch what it has to do with the history of runs: a result has run where it says, in
  the tab it is parked under, and everything staged on it was staged on its own rows (`Sound`, `RanIn`);
  every document of a batch is from a run on the connection it goes to (`BatchInv`). As the history only
  grows (`Remembered`), a launch disturbs nothing but the grid (`StillSound`). The types need it too: that
  an edit expects the version of some connection holds only because what can be edited has run somewhere.

### `Interface_proofs`

The pool of tunnels, under `HandlesAreNumbers`:

* `TunnelTypes` and `HoldersShareTheTunnel` (`HeldTunnelIsPooled`). `TunnelInv` says that `refs` of
  the pooled tunnel counts its holders, and that a timer that still expects the current
  generation belongs to a time when nobody has come since.

Query handles, under `LastAssumption`:

* `StopIsKept` (`StopIsHonoured`) and `ContextOutlivesCallback` (`CallbackHasItsContext`), from
  `HandleInv`: where the script is fits where its statements are (`LaunchPlace`), an accepted
  stop is on record wherever the task can be (`StopPlace`), and the context lives as
  long as the hook can be called (`HookPlace`). `HandleTypes` follows from the same invariant.

Profiles, under `ProfilesBounds`:

* `OneOpenerWins` (`RaceHasOneWinner`) and `QuietEditsHold` (`QuietEditTakesEffect`). An id is the
  thread's that made it until its forward is kept (`OwnIds`), so what a loser drops is never the
  winner's; what is registered has its forward up (`RegisteredTunnelIsUp`); before the first edit nothing
  registered ever leaves (`Unedited`); and as long as no edit met a thread at work, each thread
  began after the last step of an edit and has what is saved (`Undisturbed`).
* `ProfilesKeepTypes`: `ProfilesSpec => []ProfilesTypeOK`.

Host keys, under `HostKeysAssumption`:

* `PinsStayTheUsers` (`PinsAreTheUsers`). A window that is trusting carries a key that was compared
  and accepted (`KnowWhatTheyPin`). On days without a disturbance one window at most is trusting, so
  the store it is about to write holds all the file held when it read it (`QuietPins`); the file is
  empty in between, which is why that part speaks of the window's store too. A window pins only where
  its store has no pin for the host, so whatever the lookup in `known_hosts` says, no pin is replaced:
  the theorem is for any `System` and `Algorithm`.
* `HostKeysKeepTypes`: `HostKeysSpec => []HostKeysTypeOK`.

Exports, under `ExportBounds`:

* `NoTargetIsTorn` (`TargetIsWhole`). The files at a path are of exports to that path, so nothing done
  for one path touches another (`FilesOfThePath`); an export by itself on its path has the partial
  file open that it created, and that holds what it has written and nothing else (`Uncrossed`).
* `ExportsKeepTypes`: `ExportSpec => []ExportTypeOK`.

### `Sidecar_proofs`

Under `SidecarBounds`:

* `TableStaysTrue` (`TableIsTrue`). A request of the table is to be written, on its way down, with
  a goroutine or on its way up, and never in two of these places (`OnePlace`); so a reply that is
  read is in the table. That holds only as long as the host has not given the process up, so
  `TheDead` says what is left then: nothing in the table, and nobody who waits. `AskedFor` keeps a
  request that was not made from turning up anywhere.

### `PgPool_proofs`

Under `PgBounds`. `PgInv` has one part per question, and all three theorems rest on it:

* `CapStays` (`CapIsKept`): as long as the pool is open, a session that is locked or has a client is in
  a slot (`SlotPlace`, `LockPlace`), and the slots are counted before one is added.
* `BatchStaysWhole` (`MutationIsWhole`): request and actor have one command between them at most, and a
  cursor's commands are never a commit (`ActorPlace`); what an actor has written is what its request has had
  answered (`Written`), so a commit is asked for only after all mutations hit their row; and what the
  caller was told is what the database has (`LedgerPlace`).
* `PromiseReachesEverySession` (`ReadOnlyReachesEverySession`): a recorded mode is the server's, a
  promise stands only while read-only is wanted, and a request finds its session in the mode that
  is wanted (`ModePlace`).
* `PgBatchesAreAtomic` (`PgImplementsBatch`): the latest batch implements `MutationBatch` until the next is asked
  for. An actor that is still at the commit of an earlier batch could save it under the next one; by
  `CommitIsDue` an actor has a commit to work on only for the request that is under way, and only while nothing is
  saved and nobody has an answer. `LedgerPlace` says that answers fit.

That a step of one task leaves the others alone rests on `TaskPlace`: who has a session holds
its lock, so no two tasks have the same one.

### `Drivers_proofs`

Elasticsearch edits, under `MutateBounds`:

* `NoClobber` (`GuardHolds`) and `ReportsAreTrue` (`ReportIsTrue`). Sequence numbers only go
  up (`SeqNosGoUp`), so a document that was written is never again as it was loaded
  (`OnceOnly`); what is still to do stands under the guard of the row that was loaded
  (`UnderGuard`). As long as no answer about an edit was lost, only the request its user waits
  for can have it to do (`Told`), and that is why a failed edit has changed nothing.
* `EditsKeepTypes`: `MutateSpec => []MutateTypeOK`. That sequence numbers stay within their bound is
  `NumbersLast`: each item that is still to be carried out, in any request there may be, leaves one number
  free for it (`Undone`); the documents are assumed to be finitely many, so that these items can be counted.

Elasticsearch searches, under `SearchAssumption`:

* `PagesAddUp` (`PagesAreWhole`) and `ContextsAreReleased` (`ContextsGoBack`). While a result goes on,
  the place the next page is taken from, be it `search_after` or the scroll itself, is the number of rows
  handed out and of those on their way, and a page holds what was asked for or all there are (`RowsInOrder`);
  a context that is open is known to the cursor, being released, or named by the answer it waits for,
  or its one release was lost, and one that is being released is not known any more, which is why
  it is not released twice (`PagesInTurn`). A page that was read and waits behind the release is counted
  with the rows (`RowsInOrder`). A server that leaves hits out, and a scroll whose page size was raised, are
  excepted in the property and in the invariant alike (`cut`, `grew`).
* `SearchesKeepTypes`: `SearchSpec => []SearchTypeOK`.

SQLite, under `SqliteAssumption`:

* `SqliteTypes` and `SqliteBatchesAreWhole` (`BatchIsWhole`). Jobs in the channel are each there once and have written
  nothing (`ChannelInOrder`, `NothingAhead`); the worker begins a batch only outside of a
  transaction and writes it mutation by mutation (`WorkInTurn`, `BatchUnderWay`); of one that is over
  nothing is left in an open transaction (`BatchesBefore`), so that what others commit or roll back
  later does not touch it. A transaction that SQLite did not end when told to (`stuck`) is excepted.
* `SqliteBatchesAreAtomic` (`SqliteImplementsBatch`): until a transaction is stuck, a step of the worker saves
  one batch, answers one, or does neither, and what it says fits. It is the order of COMMIT, answer and the next
  job that counts: by `BatchesBefore` the only batch that a commit can save is the one at work.
* `ReadOnlyStays`: `WorkerSpec => []ReadOnlyIsKept`, a session that was answered to be read-only has
  the pragma set. With the types it is inductive as it stands, and no run repeats it.

MySQL, under `MySqlAssumption`:

* `MySqlTypes` and `BatchesAreWhole` (`MySqlBatchIsWhole`). Asker and actor have one command between
  them at most, so the invariant is a table of what the asker waits for, where the actor is and
  which command is on its way (`ScriptPlace`, `BatchPlace`). By it a COMMIT is sent, or worked on,
  only when the transaction holds all mutations of the batch (`TxPlace`); what is left open on the
  connection belongs to whoever holds the lock (`LinkPlace`); and each batch is committed as
  a whole or not at all (`AllWhole`).
* `MySqlBatchesAreAtomic` (`MySqlImplementsBatch`): only the actor's COMMIT saves, it saves the batch of the
  holder of the lock, and the holder has not been answered by then, or has gone (`TxPlace`, `AllWhole`).

### `Desk_proofs`

* `DeskIsItsParts`: `Spec` of `MCDesk` implies the specifications of all twelve parts. The run of `Desk` adds who moves, and
  bounds for the pool and the window; this says that it adds no behaviour, so a theorem about a part by itself
  speaks of what `Desk` runs, and a part's properties can be listed for `Desk`.
* `DeskTypes` (`DeskTypeOK`) and `DeskKeepsPromises` (`PromisesAreKept`), from it and the theorems about the
  parts' types and about what they implement.

### Induction over data

The library's induction theorems take an operator and cannot be used, but two facts need an
induction: what a sum over a set is (`BudgetIsExact`), and which slots are left when some are
taken out of a list (`Without` in `CapStays`). Both are first-order when the statement is made a
set, of numbers or of subsets: if an element were missing from it, there would be a least one
(`LeastElement`, from the library's theorem that a set of naturals has a minimal element), and that
one the induction step puts in (`SubsetInduction`).
`SumSplits`, `SumMoves` and `WithoutKeeps` are what the rest of the proofs cite.

### Proved, and repeated by no run

`TypeCorrect`, `ReadOnlyStays` and `QueriesUseLeases`; and `BatchStaysWhole` and `SqliteBatchesAreWhole`, whose
runs check the refinement of `MutationBatch` instead, which says the same of what is saved and answered,
and in which order. TLC found all five formulas to hold on the bounds of the runs before they were proved.

### Only model-checked, and why

* Liveness, which is out of the prover's reach: `StopTakesEffect`, `ReaderReachesTheEnd` and the others
  under [Fairness](#fairness).
* `ImplementsStream` needs no fairness and is proved; with drivers that panic it does not hold. The same goes for
  `SqliteImplementsBatch` and transactions that SQLite does not end.
* The properties of the violation runs, which do not hold.

## Where code and comments disagree

Each of these has a run that TLC must find violated, and an entry under
`findings` that quotes the line.

* `SocketFreeMeansNobodyPulls`: a cancelled query's connection is back in the
  pool while its feeder may still be in `next_batch` or `close`, since `Cancelled`
  is announced without waiting for it (`core/query.rs:359`). `QuietEndIsHonest` is the part
  that holds: a query that ends by itself has let go.
* `CancelKillsOnlyItsOwn`: the server half of a cancel is tied to the connection
  and not to the query, and can come after the connection has a new user.
* `CancelReachesWhatIsInFlight`: the sidecar's loop may handle a cancel before the
  goroutine of the execute in front of it has registered its context
  (`sidecar/common/rpc/serve.go:75`). The execute runs on, and the host kills the whole child
  when its grace is over; `CancelEndsTheCall` holds because of that.
* `ReadOnlyRefusesWrites`: a batch of mutations opens its transaction READ WRITE in a
  session that was answered to be read-only by the server
  (`drv-postgres/connection.rs:121`).
* `ShortPageIsTheEnd`: a scroll keeps the page size of its first request, while the
  feeder asks for more as it goes; a full page then looks short, and the result ends
  early and without a word (`drv-elasticsearch/cursor.rs:654`).
* `StatementRunsWhereItResolved`: `run_profile` is one for the window. When a tab comes back
  with its result, its statement and its filters, `run_profile` is still that of the last run, and a header
  click, a filter or Reload sends the statement there (`ui/gtk4/src/ui/window.rs:953`).

## What else was found by reading

Behaviours that earlier or smaller instances of these models show, or that were met in the
code while it was modelled, and that no run of this directory is about:

* Pool: an idle connection may never be reaped. The timer is scheduled before the
  connection is on the stack (`core/session.rs:508`), and cancelled by a key that may
  be another's by then (`core/timer.rs:47`).
* Gate: a change of rung between two sections of `admit` leaves a challenge for the old
  rung (`core/safety.rs:242`); a confirmed script with more statements than the gate
  keeps grants has lost the first at once (`core/safety.rs:214`).
* Feeder and store: a result of exactly the cap's rows ends as `Capped`
  (`core/feeder.rs:378`); a driver that panics in `next_batch` does not poison its connection
  (`core/feeder.rs:342`), and its result is called complete (`core/store.rs:677`); a spilled chunk
  that cannot be read back is left out of the window (`core/store.rs:494`); `run` may insert a query after
  `shutdown` has drained the table (`core/query.rs:217`).
* SQLite: a batch whose COMMIT fails while its transaction stays open, as when the database is busy, is answered
  with the error and without a ROLLBACK (`drv-sqlite/connection.rs:464`). The window says that nothing was
  written (`ui/gtk4/src/ui/window.rs:664`) and keeps the edits staged; later batches are acknowledged into the open
  transaction, and the next COMMIT that is typed writes them all. A ROLLBACK that is interrupted leaves a
  prefix. `SqliteImplementsBatch` and `BatchIsWhole` exempt both (`stuck`). An export that is cancelled
  leaves its scan in the worker's table, so that the interrupt stays and later
  statements fail as cancelled; finished scans are never removed; after an error the
  next fetch answers a quiet end.
* MySQL: `KILL QUERY` by connection id may hit a later statement, the reset of the
  deadline included, and then the deadline stays.
* Session pool: a caller that is between its permit and `take_idle` when the session is shut down is
  handed a connection that is closing (`core/session.rs:455`, `:481`); its first command fails.
* Host keys: a host the system knows by one key is `Unknown` when it offers one of another algorithm, and
  when `known_hosts` cannot be read (`crates/datagrep-tunnel/src/host_key.rs:144`); the key that is pinned then
  decides, and the one the system knows is refused from there on.
* Elasticsearch: a scroll may hand out more than its limit; `timed_out` of an answer is never looked at. The
  id of a context is taken before its release is awaited (`drv-elasticsearch/cursor.rs:413`), so that a
  `next_batch` or `close` that is dropped there loses the release, and `close` finds no id to try again; with a
  `next_batch` the last page is lost too, read but not returned. A release that fails is only logged (`:427`).
* Redis: in a MULTI/EXEC batch a command that fails leaves the others
  applied, although the driver declares atomic batches; a canceller made before the
  statement runs has a copy of an old flag.
* MongoDB: a canceller made before the statement runs finds no comment, so that its `killOp` finds no
  operation; `last_id` runs ahead of a batch that is lost.
* GTK window: a run whose pre-flight or ceremony is answered after the tab has changed launches what
  is in front by then (`ui/gtk4/src/ui/window.rs:1228`); so do a report and a re-read, which are applied to
  whichever result is in the grid and may mark another tab's edit of the same document as applied, or
  give it another connection's version (`model/editing.rs:294`, `:317`). An edit that is typed while its commit
  is in flight is marked as applied with it. A batch that was refused is sent again after its
  ceremony, although its edits may have been discarded.
* Transactions: a BEGIN typed by the user is joined by a batch in SQLite, and committed
  by the batch's START TRANSACTION in MySQL. `Connection::begin` has no caller outside the drivers and their tests.

## What is not modelled

* MongoDB and Redis drivers: one command at a time over a library's connection. What can go wrong is in
  the list above, and is about what the server does.
* Catalogs of all drivers (queries and their rows), statement classification, completion, formatting,
  values and their conversion, result formats: functions on text and data without
  control state. They are most of the drivers' lines.
* Of the modelled components: the adaptive fetch size of the feeder (a batch has any
  size), cell conversion and the contents of spilled chunks; `set_safety` of the facade, which only
  tests call, and
  the command channel between a session and its connection's task (the models of
  the drivers begin behind it); the bytes a forward copies, and authentication; formats of
  an export; interactive transactions.
* In `EsMutate` a row is read again only when no request about its document is under way: what a request whose
  answer was lost does to a document after a later reread is left out. The guards decide it, as they decide
  what it does before; but which edit the row's outcome would then be about is no longer one question.
* Profiles, history, secrets: files and keychains around plain data.
* Of the user interfaces all but the tabs, runs and staging of the GTK window; command line, packaging and
  experiments. The interfaces are views over the C interface, and the models take its calls in any order.
* Of the GTK window: the clauses that headers and filters add, the values of edits, what a row shows, and the
  text of a batch.

The models cover the code that has control to speak of: tasks, threads, locks, channels,
timers, processes, transactions and files that several writers share. Most lines of the repository are
not of that kind: they are user interface code, text processing, catalogs, plain data and tests.

## What would come next

1. The command channel of a connection (`core/session.rs`, `run_connection`) between `SessionPool` and a driver.
2. `QueryMgr` on top of `Leases` instead of beside it, so that its connections are dialled and reaped under it.
3. The MongoDB canceller with its comments, which needs a model of the server's operations.
