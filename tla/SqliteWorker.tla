---------------------------- MODULE SqliteWorker -----------------------------
(***************************************************************************)
(* One SQLite connection (drv-sqlite): a thread that owns it and works off *)
(* a channel of jobs, one after the other.  A caller that goes away leaves *)
(* its job in the channel.  A canceller interrupts the connection, that    *)
(* is, whatever it happens to run.                                         *)
(*                                                                         *)
(* What SQLite does is external.  An interrupt fails every statement that  *)
(* is begun while a scan is under way, and is forgotten when a statement   *)
(* begins and none is.  A write that is interrupted rolls back the whole   *)
(* transaction.  BEGIN, COMMIT and ROLLBACK may be typed by the user as    *)
(* well; what they do is the same.                                         *)
(***************************************************************************)
EXTENDS Integers, Sequences

CONSTANTS
    Asks,           \* what is asked of the connection: a subset of WorkerOps
    MaxCalls,       \* bound: calls in all
    MaxInterrupts,  \* bound: cancels
    BatchLen        \* mutations in a batch

WorkerOps == {"scan", "fetch", "close", "write", "mutate", "begin", "begin_read_only",
              "commit", "rollback", "read_only", "look", "shutdown"}

ASSUME SqliteAssumption ==
    /\ Asks \subseteq WorkerOps
    /\ MaxCalls \in Nat /\ MaxInterrupts \in Nat /\ BatchLen \in Nat \ {0}

CallIds == 1 .. MaxCalls
Changes == CallIds \X (1 .. BatchLen)

VARIABLES
    asked,        \* the calls: what each asks for, and the scan it is about
    answer,       \* what each caller got
    jobs,         \* the channel of the worker
    doing,        \* the statement the worker runs, and whether it is bound to fail
    scans,        \* the worker's open scans: "new", "under_way" or "over"
    inTx,         \* SQLite is not in autocommit mode
    unsaved,      \* changes of the open transaction
    durable,      \* changes that are committed
    interrupted,  \* sqlite3.isInterrupted
    cancels,      \* how many there were
    readOnly,     \* session_read_only, tx_forced_read_only and PRAGMA query_only
    managed,      \* history: batches that began their own transaction
    stuck         \* history: a transaction could not be ended

workerVars == <<asked, answer, jobs, doing, scans, inTx, unsaved, durable, interrupted,
                cancels, readOnly, managed, stuck>>

NoJob == [call |-> 0, at |-> "idle", part |-> 0, doomed |-> FALSE]
Over == [call |-> 0, at |-> "ended", part |-> 0, doomed |-> FALSE]
Unasked == [op |-> "none", scan |-> 0]
Labels == {"idle", "ended", "statement", "begin", "mutation", "commit", "rollback"}

WorkerInit ==
    /\ asked = [n \in CallIds |-> Unasked]
    /\ answer = [n \in CallIds |-> "none"]
    /\ jobs = <<>> /\ doing = NoJob
    /\ scans = [n \in CallIds |-> "none"]
    /\ inTx = FALSE /\ unsaved = {} /\ durable = {}
    /\ interrupted = FALSE /\ cancels = 0
    /\ readOnly = [session |-> FALSE, forced |-> FALSE, pragma |-> FALSE]
    /\ managed = {} /\ stuck = FALSE

storeVars == <<inTx, unsaved, durable>>
historyVars == <<managed, stuck>>
----------------------------------------------------------------------------
(* The callers.  The connection is leased to one at a time, who asks for   *)
(* one thing at a time; what it let go of may still be in the channel.     *)

Waiting == \E n \in CallIds : answer[n] = "awaited"

\* A cursor that was closed, or has said that it is at its end, sends no more jobs.
Enqueue(n) ==
    /\ asked[n] = Unasked /\ \A m \in CallIds : m < n => asked[m] # Unasked
    /\ ~Waiting
    /\ \E op \in Asks, s \in CallIds \cup {0} :
        /\ IF op \in {"fetch", "close"} THEN s # 0 /\ answer[s] = "cursor" ELSE s = 0
        /\ asked' = [asked EXCEPT ![n] = [op |-> op, scan |-> s]]
        /\ answer' = [m \in CallIds |->
                        IF m = n THEN IF doing = Over THEN "failed" ELSE "awaited"
                        ELSE IF m = s /\ op = "close" THEN "ok" ELSE answer[m]]
    /\ jobs' = IF doing = Over THEN jobs ELSE Append(jobs, n)
    /\ UNCHANGED <<doing, scans, storeVars, interrupted, cancels, readOnly, historyVars>>

\* The caller is dropped: its job stays in the channel, and a cursor it has is not closed.
LetGoOfJob(n) ==
    /\ answer[n] \in {"awaited", "cursor"}
    /\ answer' = [answer EXCEPT ![n] = "let_go"]
    /\ UNCHANGED <<asked, jobs, doing, scans, storeVars, interrupted, cancels, readOnly, historyVars>>

\* SqliteCanceller::cancel
Interrupt ==
    /\ cancels < MaxInterrupts /\ doing # Over
    /\ cancels' = cancels + 1 /\ interrupted' = TRUE
    /\ UNCHANGED <<asked, answer, jobs, doing, scans, storeVars, readOnly, historyVars>>
----------------------------------------------------------------------------
(* The worker *)

Job == doing.call
OpOf(n) == asked[n].op
ScanOf(n) == asked[n].scan

\* Nobody may be left to hear it.
Tell(a) == answer' = [answer EXCEPT ![Job] = IF @ = "awaited" THEN a ELSE @]
Rest == doing' = NoJob /\ UNCHANGED interrupted
Done(a) == Tell(a) /\ Rest

\* The next statement of job n begins; of a batch, the next mutation.
GoTo(n, at, k) ==
    LET doomed == interrupted /\ \E s \in CallIds : scans[s] = "under_way"
    IN  doing' = [call |-> n, at |-> at, part |-> k, doomed |-> doomed] /\ interrupted' = doomed

Take ==
    /\ doing = NoJob /\ jobs # <<>>
    /\ jobs' = Tail(jobs)
    /\ LET n == Head(jobs)
           at == IF OpOf(n) # "mutate" THEN "statement" ELSE IF inTx THEN "mutation" ELSE "begin"
       IN  /\ OpOf(n) # "shutdown"
           /\ GoTo(n, at, IF at = "mutation" THEN 1 ELSE 0)
           /\ managed' = IF at = "begin" THEN managed \cup {n} ELSE managed
    /\ UNCHANGED <<asked, answer, scans, storeVars, cancels, readOnly, stuck>>

\* The connection is dropped with what is open, and the channel with the jobs in it.
CloseConn ==
    /\ doing = NoJob /\ jobs # <<>> /\ OpOf(Head(jobs)) = "shutdown"
    /\ doing' = Over /\ jobs' = <<>>
    /\ answer' = [n \in CallIds |->
                    IF answer[n] # "awaited" THEN answer[n] ELSE IF n = Head(jobs) THEN "ok" ELSE "failed"]
    /\ scans' = [n \in CallIds |-> "none"]
    /\ inTx' = FALSE /\ unsaved' = {}
    /\ UNCHANGED <<asked, durable, interrupted, cancels, readOnly, historyVars>>

\* What a statement comes to: it runs, is refused or is cut short.
Comes(how) ==
    \/ how \in {"ok", "failed"} /\ ~doing.doomed
    \/ how = "cut" /\ interrupted

Begins == ~inTx /\ inTx' = TRUE /\ UNCHANGED <<unsaved, durable>>
Commits == inTx /\ inTx' = FALSE /\ durable' = durable \cup unsaved /\ unsaved' = {}
RollsBack == inTx /\ inTx' = FALSE /\ unsaved' = {} /\ UNCHANGED durable

Writes(c) ==
    /\ ~readOnly.pragma
    /\ IF inTx THEN unsaved' = unsaved \cup {c} /\ UNCHANGED <<inTx, durable>>
               ELSE durable' = durable \cup {c} /\ UNCHANGED <<inTx, unsaved>>

\* A write that is cut short takes the transaction with it, unless it was not even prepared.
ExecuteFails ==
    \/ (Comes("failed") \/ Comes("cut")) /\ UNCHANGED storeVars
    \/ Comes("cut") /\ ~doing.doomed /\ RollsBack

RunsStatement(ops) == doing.at = "statement" /\ OpOf(Job) \in ops
----------------------------------------------------------------------------
(* Requests that need one statement *)

\* handle_execute prepares a scan and puts it in the table; fetch_batch steps it.
Prepare ==
    /\ RunsStatement({"scan"})
    /\ \/ Comes("ok") /\ scans' = [scans EXCEPT ![Job] = "new"] /\ Done("cursor")
       \/ (Comes("failed") \/ Comes("cut")) /\ Done("failed") /\ UNCHANGED scans
    /\ UNCHANGED <<asked, jobs, storeVars, cancels, readOnly, historyVars>>

FetchBatch ==
    LET s == ScanOf(Job)
        Becomes(state, a) ==
            /\ scans' = [scans EXCEPT ![s] = state]
            /\ answer' = [n \in CallIds |->
                            IF n = Job /\ answer[n] = "awaited" THEN a
                            ELSE IF n = s /\ a = "end" /\ answer[n] = "cursor" /\ answer[Job] = "awaited" THEN "ok"
                            ELSE answer[n]]
    IN  /\ RunsStatement({"fetch"})
        /\ \/ scans[s] \in {"new", "under_way"} /\ Comes("ok")
              /\ (Becomes("under_way", "ok") \/ Becomes("over", "ok") \/ Becomes("over", "end"))
           \/ scans[s] \in {"new", "under_way"} /\ (Comes("failed") \/ Comes("cut")) /\ Becomes("over", "failed")
           \/ scans[s] = "over" /\ Becomes("over", "end")
           \/ scans[s] = "none" /\ Becomes("none", "failed")
        /\ Rest
        /\ UNCHANGED <<asked, jobs, storeVars, cancels, readOnly, historyVars>>

CloseScan ==
    /\ RunsStatement({"close"})
    /\ scans' = [scans EXCEPT ![ScanOf(Job)] = "none"]
    /\ Done("ok")
    /\ UNCHANGED <<asked, jobs, storeVars, cancels, readOnly, historyVars>>

\* A ping, a look into the catalog.
Look ==
    /\ RunsStatement({"look"})
    /\ \E how \in {"ok", "failed", "cut"} : Comes(how) /\ Done(IF how = "ok" THEN "ok" ELSE "failed")
    /\ UNCHANGED <<asked, jobs, scans, storeVars, cancels, readOnly, historyVars>>

\* A statement that returns no rows.
Execute ==
    /\ RunsStatement({"write"})
    /\ \/ Comes("ok") /\ Writes(<<Job, 1>>) /\ Done("ok")
       \/ ExecuteFails /\ Done("failed")
    /\ UNCHANGED <<asked, jobs, scans, cancels, readOnly, historyVars>>

SetReadOnly ==
    /\ RunsStatement({"read_only"})
    /\ \/ /\ Comes("ok") /\ Done("ok")
          /\ readOnly' = [readOnly EXCEPT !.session = TRUE, !.pragma = TRUE]
       \/ (Comes("failed") \/ Comes("cut")) /\ Done("failed") /\ UNCHANGED readOnly
    /\ UNCHANGED <<asked, jobs, scans, storeVars, cancels, historyVars>>

\* handle_begin; its PRAGMA may be cut short after the BEGIN has run.
Begin ==
    LET forces == OpOf(Job) = "begin_read_only" /\ ~readOnly.session
    IN  /\ RunsStatement({"begin", "begin_read_only"})
        /\ \/ /\ Comes("ok") /\ Begins /\ Done("ok") /\ UNCHANGED stuck
              /\ readOnly' = IF forces THEN [readOnly EXCEPT !.forced = TRUE, !.pragma = TRUE] ELSE readOnly
           \/ /\ Comes("ok") /\ interrupted /\ forces /\ Begins /\ Done("failed")
              /\ stuck' = TRUE /\ UNCHANGED readOnly
           \/ (Comes("failed") \/ Comes("cut")) /\ Done("failed") /\ UNCHANGED <<storeVars, readOnly, stuck>>
        /\ UNCHANGED <<asked, jobs, scans, cancels, managed>>

\* handle_end_tx
EndTx ==
    LET Ends == IF OpOf(Job) = "commit" THEN Commits ELSE RollsBack
        lifts == readOnly.forced /\ ~readOnly.session
    IN  /\ RunsStatement({"commit", "rollback"})
        /\ \/ /\ Comes("ok") /\ Ends /\ Done("ok")
              /\ readOnly' = [readOnly EXCEPT !.forced = FALSE, !.pragma = IF lifts THEN FALSE ELSE @]
           \/ Comes("ok") /\ interrupted /\ lifts /\ Ends /\ Done("failed") /\ UNCHANGED readOnly
           \/ (Comes("failed") \/ Comes("cut")) /\ Done("failed") /\ UNCHANGED <<storeVars, readOnly>>
        /\ UNCHANGED <<asked, jobs, scans, cancels, historyVars>>
----------------------------------------------------------------------------
(* handle_mutate: a batch begins a transaction of its own unless one is open. *)

Manages == Job \in managed

MutateBegins ==
    /\ doing.at = "begin"
    /\ \/ Comes("ok") /\ Begins /\ GoTo(Job, "mutation", 1) /\ UNCHANGED answer
       \/ (Comes("failed") \/ Comes("cut")) /\ Done("failed") /\ UNCHANGED storeVars
    /\ UNCHANGED <<asked, jobs, scans, cancels, readOnly, historyVars>>

\* Fault: a batch whose mutation fails answers without a ROLLBACK.
MutationGivesUp ==
    /\ doing.at = "mutation"
    /\ \/ /\ Comes("ok") /\ Writes(<<Job, doing.part>>)
          /\ IF doing.part < BatchLen THEN GoTo(Job, "mutation", doing.part + 1) /\ UNCHANGED answer
             ELSE IF Manages THEN GoTo(Job, "commit", 0) /\ UNCHANGED answer
             ELSE Done("ok")
       \/ (ExecuteFails \/ (Comes("failed") /\ Writes(<<Job, doing.part>>))) /\ Done("failed")
    /\ UNCHANGED <<asked, jobs, scans, cancels, readOnly, historyVars>>

\* One that changes more or fewer rows than one has failed, and has changed them.
Mutation ==
    LET k == doing.part
    IN  /\ doing.at = "mutation"
        /\ \/ /\ Comes("ok") /\ Writes(<<Job, k>>)
              /\ IF k < BatchLen THEN GoTo(Job, "mutation", k + 1) /\ UNCHANGED answer
                 ELSE IF Manages THEN GoTo(Job, "commit", 0) /\ UNCHANGED answer
                 ELSE Done("ok")
           \/ /\ ExecuteFails \/ (Comes("failed") /\ Writes(<<Job, k>>))
              /\ IF Manages THEN GoTo(Job, "rollback", 0) /\ UNCHANGED answer ELSE Done("failed")
        /\ UNCHANGED <<asked, jobs, scans, cancels, readOnly, historyVars>>

\* Its outcome is not looked at.
MutateRollsBack ==
    /\ doing.at = "rollback"
    /\ \/ ~doing.doomed /\ RollsBack /\ UNCHANGED stuck
       \/ ~inTx /\ UNCHANGED <<storeVars, stuck>>
       \/ Comes("cut") /\ inTx /\ UNCHANGED storeVars /\ stuck' = TRUE
    /\ Done("failed")
    /\ UNCHANGED <<asked, jobs, scans, cancels, readOnly, managed>>

\* A COMMIT that fails (busy, a deferred foreign key, an interrupt) leaves the transaction open.
MutateCommits ==
    /\ doing.at = "commit"
    /\ \/ Comes("ok") /\ Commits /\ Done("ok") /\ UNCHANGED stuck
       \/ (Comes("failed") \/ Comes("cut")) /\ Done("failed") /\ UNCHANGED storeVars /\ stuck' = TRUE
    /\ UNCHANGED <<asked, jobs, scans, cancels, readOnly, managed>>

Serves ==
    \/ Take \/ CloseConn
    \/ Prepare \/ FetchBatch \/ CloseScan \/ Look \/ Execute \/ SetReadOnly \/ Begin \/ EndTx
    \/ MutateBegins \/ Mutation \/ MutateRollsBack \/ MutateCommits

WorkerNext ==
    \/ \E n \in CallIds : Enqueue(n) \/ LetGoOfJob(n)
    \/ Interrupt
    \/ Serves

WorkerSpec == WorkerInit /\ [][WorkerNext]_workerVars
----------------------------------------------------------------------------
WorkerTypeOK ==
    /\ asked \in [CallIds -> [op : WorkerOps \cup {"none"}, scan : CallIds \cup {0}]]
    /\ answer \in [CallIds -> {"none", "awaited", "cursor", "ok", "end", "failed", "let_go"}]
    /\ jobs \in Seq(CallIds)
    /\ doing \in [call : CallIds \cup {0}, at : Labels, part : 0 .. BatchLen, doomed : BOOLEAN]
    /\ scans \in [CallIds -> {"none", "new", "under_way", "over"}]
    /\ unsaved \subseteq Changes /\ durable \subseteq Changes /\ (unsaved # {} => inTx)
    /\ inTx \in BOOLEAN /\ interrupted \in BOOLEAN /\ cancels \in 0 .. MaxInterrupts
    /\ readOnly \in [session : BOOLEAN, forced : BOOLEAN, pragma : BOOLEAN]
    /\ managed \subseteq CallIds /\ stuck \in BOOLEAN

Of(n) == {n} \X (1 .. BatchLen)

\* Either all mutations of a batch are written or none are: all, if it was answered
\* with success, and none, not even in a transaction that is still open, if it was
\* answered with a failure.  This is so whatever is cancelled and whoever let go of
\* what, as long as SQLite ends the transactions it is told to end.
BatchIsWhole ==
    ~stuck => \A n \in managed :
        /\ Of(n) \cap durable \in {{}, Of(n)}
        /\ Job # n => Of(n) \cap unsaved = {}
        /\ answer[n] = "ok" => Of(n) \subseteq durable
        /\ answer[n] = "failed" => Of(n) \cap durable = {}

\* A session that was answered that it is read-only writes nothing any more, whatever
\* transactions of whatever kind begin and end around that answer.
ReadOnlyIsKept == readOnly.session => readOnly.pragma

\* Nothing is promised of a batch that runs in a transaction of somebody else.
SqliteSaved(n) == IF n \notin managed \/ Of(n) \cap durable = {} THEN "nothing"
                  ELSE IF Of(n) \subseteq durable THEN "all" ELSE "part"
SqliteTold(n) == IF n \notin managed \/ answer[n] = "awaited" THEN "none"
                 ELSE IF answer[n] = "ok" THEN "applied"
                 ELSE IF answer[n] = "failed" THEN "refused" ELSE "unknown"

SqliteBatches == INSTANCE MutationBatch WITH
    Batches <- CallIds,
    saved   <- [n \in CallIds |-> SqliteSaved(n)],
    told    <- [n \in CallIds |-> SqliteTold(n)]

\* Batches are saved in one step and for good, a refused one never and an applied one
\* before the answer, as long as SQLite ends the transactions it is told to end.
SqliteImplementsBatch ==
    SqliteBatches!BatchInit /\ [][SqliteBatches!BatchNext \/ stuck']_(SqliteBatches!batchVars)

=============================================================================
