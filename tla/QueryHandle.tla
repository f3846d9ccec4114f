---------------------------- MODULE QueryHandle ----------------------------
(***************************************************************************)
(* The handle of a run in the C interface (ffi/query.rs): a script of      *)
(* statements of which all but the last are run to their end one by one,   *)
(* and the last is streamed to the user interface.  The task of the handle *)
(* (drive, run_to_completion, supervise), the calls that stop and free it, *)
(* and the callback it tells of progress.                                  *)
(*                                                                         *)
(* A statement stands for a query of the query manager.  An abort of the   *)
(* task strikes where it awaits; from the answer of execute to the next    *)
(* await it runs through.  One thread of the user interface calls.         *)
(***************************************************************************)
EXTENDS Integers

CONSTANT LastStatement     \* the number of statements

ASSUME LastAssumption == LastStatement \in Nat \ {0}

Stmts == 1 .. LastStatement
Nothing == 0

VARIABLES
    task,       \* the task: where it is
    stmt,       \* the statement it has come to
    query,      \* each statement as a query of the core
    qid,        \* QueryInner.qid
    wanted,     \* QueryInner.cancel_requested
    report,     \* QueryInner.cancel_report
    server,     \* the server half of the core's cancel, for the last statement
    caller,     \* what the user interface is doing
    freed,      \* the handle is freed
    abort,      \* the task is to end where it next awaits
    toClose,    \* the query a spawned close_query is about
    hook,       \* ProgressHook: none, or a callback with its context
    ctx,        \* whether that context is alive
    calling     \* the task is in the callback

handleVars == <<task, stmt, query, qid, wanted, report, server, caller, freed, abort, toClose, hook, ctx, calling>>

HandleInit ==
    /\ task = "open" /\ stmt = 1
    /\ query = [s \in Stmts |-> "unsent"]
    /\ qid = Nothing /\ wanted = FALSE /\ report = "none"
    /\ server = "unasked"
    /\ caller = "idle" /\ freed = FALSE /\ abort = FALSE /\ toClose = Nothing
    /\ hook = FALSE /\ ctx = FALSE /\ calling = FALSE

Live(s) == query[s] \in {"running", "parked"}

\* QueryMgr::close: the query leaves the table and its feeder stops.
Gone(s) == query' = [query EXCEPT ![s] = IF @ = "unsent" THEN @ ELSE "closed"]

\* QueryMgr::cancel: the feeder stops; the query stays until it is closed.
Stopped(s) == query' = [query EXCEPT ![s] = IF Live(s) THEN "cancelled" ELSE @]

CallerVars == <<caller, freed, abort, toClose>>
HookVars == <<hook, ctx, calling>>

----------------------------------------------------------------------------
(* The task *)

Goes(at) == task' = at

\* notify: the callback runs under the lock that detaching it takes.
Notify == calling' = hook /\ UNCHANGED <<hook, ctx>>
CallbackReturns ==
    /\ calling /\ calling' = FALSE
    /\ UNCHANGED <<task, stmt, query, qid, wanted, report, server, hook, ctx>> /\ UNCHANGED CallerVars

At(place) == task = place /\ ~calling

\* Nothing is left to do, or an error is told.
Fail == Goes("over") /\ Notify

\* open_profile, the statements, and what a read-only profile refuses.
Opened ==
    /\ At("open") /\ ~abort
    /\ \/ Goes("next") /\ UNCHANGED HookVars
       \/ Fail
    /\ UNCHANGED <<stmt, query, qid, wanted, report, server>> /\ UNCHANGED CallerVars

\* The stop button is asked about before every statement.
Ask ==
    /\ At("next")
    /\ \/ wanted /\ Fail
       \/ ~wanted /\ Goes("asking") /\ UNCHANGED HookVars
    /\ UNCHANGED <<stmt, query, qid, wanted, report, server>> /\ UNCHANGED CallerVars

\* Fault: the handle owns the leading statements as well.
AcceptedOwnsEach ==
    /\ At("asking") /\ ~abort
    /\ query' = [query EXCEPT ![stmt] = "running"]
    /\ Goes("accepted")
    /\ UNCHANGED <<stmt, qid, wanted, report, server>> /\ UNCHANGED CallerVars /\ UNCHANGED HookVars

\* run_request has answered.
Accepted ==
    /\ At("asking") /\ ~abort
    /\ \/ /\ query' = [query EXCEPT ![stmt] = "running"]
          /\ Goes(IF stmt = LastStatement THEN "accepted" ELSE "waiting") /\ UNCHANGED HookVars
       \/ Fail /\ UNCHANGED query
    /\ UNCHANGED <<stmt, qid, wanted, report, server>> /\ UNCHANGED CallerVars

\* run_to_completion: a leading statement is closed when it has ended.
LeadingEnds ==
    /\ At("waiting") /\ ~abort
    /\ ~Live(stmt)
    /\ Gone(stmt)
    /\ \/ query[stmt] # "failed" /\ Goes("next") /\ stmt' = stmt + 1 /\ UNCHANGED HookVars
       \/ query[stmt] = "failed" /\ Fail /\ UNCHANGED stmt
    /\ UNCHANGED <<qid, wanted, report, server>> /\ UNCHANGED CallerVars

\* Fault: a stop that came while the server was still accepting is overlooked.
OwnRegardless ==
    /\ At("accepted")
    /\ qid' = stmt
    /\ Goes("notified") /\ Notify
    /\ UNCHANGED <<stmt, query, wanted, report, server>> /\ UNCHANGED CallerVars

\* The handle learns which query it has; a stop that came before is carried out now.
Own ==
    /\ At("accepted")
    /\ qid' = stmt
    /\ Goes(IF wanted THEN "cancelling" ELSE "notified")
    /\ Notify
    /\ UNCHANGED <<stmt, query, wanted, report, server>> /\ UNCHANGED CallerVars

OwnCancel ==
    /\ At("cancelling")
    /\ Goes("notified")
    /\ Stopped(stmt)
    /\ IF query[stmt] = "closed"
       THEN UNCHANGED <<report, server>>
       ELSE report' = "pending" /\ server' = "asked"
    /\ UNCHANGED <<stmt, qid, wanted>> /\ UNCHANGED CallerVars /\ UNCHANGED HookVars

\* A turn of supervise looks at the store; a terminal phase ends the loop.
Turn ==
    /\ At("notified")
    /\ Goes(IF Live(stmt) THEN "watching" ELSE "draining")
    /\ Notify
    /\ UNCHANGED <<stmt, query, qid, wanted, report, server>> /\ UNCHANGED CallerVars

Changed ==
    /\ At("watching") /\ ~abort
    /\ Goes("notified")
    /\ UNCHANGED <<stmt, query, qid, wanted, report, server>> /\ UNCHANGED CallerVars /\ UNCHANGED HookVars

\* The outcome of the cancel, in the loop or after it.
Outcome ==
    /\ At("watching") \/ At("draining")
    /\ ~abort /\ server = "answered"
    /\ server' = "told" /\ report' = "resolved"
    /\ Goes(IF task = "draining" THEN "over" ELSE "notified")
    /\ Notify
    /\ UNCHANGED <<stmt, query, qid, wanted>> /\ UNCHANGED CallerVars

\* After the loop only a cancel without an outcome is waited for.
Drained ==
    /\ At("draining") /\ ~(wanted /\ report # "resolved")
    /\ Goes("over")
    /\ UNCHANGED <<stmt, query, qid, wanted, report, server>> /\ UNCHANGED CallerVars /\ UNCHANGED HookVars

Aborted ==
    /\ abort /\ \E at \in {"open", "asking", "waiting", "watching", "draining"} : At(at)
    /\ Goes("over")
    /\ UNCHANGED <<stmt, query, qid, wanted, report, server>> /\ UNCHANGED CallerVars /\ UNCHANGED HookVars

Drive ==
    \/ CallbackReturns \/ Opened \/ Ask \/ Accepted \/ LeadingEnds \/ Own \/ OwnCancel
    \/ Turn \/ Changed \/ Outcome \/ Drained \/ Aborted

----------------------------------------------------------------------------
(* The core *)

\* A query ends by itself, or parks until somebody reads on.
QueryMoves(s) ==
    /\ Live(s)
    /\ \E at \in {"running", "parked", "complete", "failed"} : query' = [query EXCEPT ![s] = at]
    /\ UNCHANGED <<task, stmt, qid, wanted, report, server>> /\ UNCHANGED CallerVars /\ UNCHANGED HookVars

\* The canceller answers within its time; the event may be lost to a receiver that lags.
ServerAnswers ==
    /\ server = "asked"
    /\ server' \in {"answered", "lost"}
    /\ UNCHANGED <<task, stmt, query, qid, wanted, report>> /\ UNCHANGED CallerVars /\ UNCHANGED HookVars

CloseRuns ==
    /\ toClose # Nothing
    /\ Gone(toClose) /\ toClose' = Nothing
    /\ UNCHANGED <<task, stmt, qid, wanted, report, server, caller, freed, abort>> /\ UNCHANGED HookVars

----------------------------------------------------------------------------
(* The user interface *)

TaskVars == <<task, stmt>>

\* datagrep_query_cancel
Cancel ==
    /\ caller = "idle" /\ ~freed
    /\ wanted' = TRUE
    /\ caller' = IF wanted \/ qid = Nothing THEN "idle" ELSE "cancelling"
    /\ UNCHANGED <<query, qid, report, server, freed, abort, toClose>> /\ UNCHANGED TaskVars /\ UNCHANGED HookVars

CancelCore ==
    /\ caller = "cancelling"
    /\ Stopped(qid)
    /\ IF query[qid] = "closed"
       THEN caller' = "idle" /\ UNCHANGED server
       ELSE /\ caller' = "reporting"
            /\ server' = "asked"
    /\ UNCHANGED <<qid, wanted, report, freed, abort, toClose>> /\ UNCHANGED TaskVars /\ UNCHANGED HookVars

\* The report the core gave at once is written down, whatever has been written meanwhile.
CancelReports ==
    /\ caller = "reporting"
    /\ report' = "pending" /\ caller' = "idle"
    /\ UNCHANGED <<query, qid, wanted, server, freed, abort, toClose>> /\ UNCHANGED TaskVars /\ UNCHANGED HookVars

\* datagrep_query_on_progress: a callback is attached, replaced or detached.
OnProgress ==
    /\ caller = "idle" /\ ~freed /\ ~calling
    /\ hook' \in BOOLEAN
    /\ ctx' = hook'
    /\ UNCHANGED <<query, qid, wanted, report, server, calling>> /\ UNCHANGED CallerVars /\ UNCHANGED TaskVars

\* Fault: the callback is left attached.
FreeLeavesHook ==
    /\ caller = "idle" /\ ~freed
    /\ caller' = "freeing" /\ freed' = TRUE
    /\ UNCHANGED <<query, qid, wanted, report, server, abort, toClose>> /\ UNCHANGED TaskVars /\ UNCHANGED HookVars

\* datagrep_query_free: first the callback goes, under its lock.
Free ==
    /\ caller = "idle" /\ ~freed /\ ~calling
    /\ caller' = "freeing" /\ freed' = TRUE
    /\ hook' = FALSE
    /\ UNCHANGED <<query, qid, wanted, report, server, abort, toClose, ctx, calling>> /\ UNCHANGED TaskVars

FreeAborts ==
    /\ caller = "freeing"
    /\ abort' = TRUE /\ caller' = "closing"
    /\ UNCHANGED <<query, qid, wanted, report, server, freed, toClose>> /\ UNCHANGED TaskVars /\ UNCHANGED HookVars

\* The query the handle knows of is closed, and the context let go.
FreeCloses ==
    /\ caller = "closing"
    /\ toClose' = qid /\ caller' = "gone"
    /\ ctx' = FALSE
    /\ UNCHANGED <<query, qid, wanted, report, server, freed, abort, hook, calling>> /\ UNCHANGED TaskVars

FreeHandle == Free \/ FreeAborts \/ FreeCloses
CancelQuery == Cancel \/ CancelCore \/ CancelReports

HandleNext ==
    \/ Drive
    \/ \E s \in Stmts : QueryMoves(s)
    \/ ServerAnswers \/ CloseRuns
    \/ CancelQuery \/ OnProgress \/ FreeHandle

HandleSpec == HandleInit /\ [][HandleNext]_handleVars

----------------------------------------------------------------------------
TaskPlaces == {"open", "next", "asking", "waiting", "accepted", "cancelling", "notified", "watching", "draining", "over"}

HandleTypeOK ==
    /\ task \in TaskPlaces /\ stmt \in Stmts
    /\ query \in [Stmts -> {"unsent", "running", "parked", "complete", "failed", "cancelled", "closed"}]
    /\ qid \in {Nothing, LastStatement} /\ toClose \in {Nothing, LastStatement}
    /\ report \in {"none", "pending", "resolved"}
    /\ server \in {"unasked", "asked", "answered", "lost", "told"}
    /\ caller \in {"idle", "cancelling", "reporting", "freeing", "closing", "gone"}
    /\ {wanted, freed, abort, hook, ctx, calling} \subseteq BOOLEAN

\* The statements of a script run one after the other: none is sent before all in front
\* of it have ended and left the core, whatever is stopped or freed in between.
OneAtATime ==
    \A s \in Stmts : query[s] # "unsent" => \A r \in 1 .. s - 1 : query[r] = "closed"

\* Once stop has been pressed and has returned, the streamed statement is stopped as soon
\* as the task is back to watching it, even if it was pressed while the server was still
\* accepting (ffi/query.rs:235).  As the statements in front of it run one at a time, no
\* statement of the script is left running then.
StopIsHonoured ==
    /\ OneAtATime
    /\ (wanted /\ caller = "idle" /\ task \in {"notified", "watching", "draining"}) => ~Live(LastStatement)
    /\ (wanted /\ caller = "idle" /\ task = "over") => \A s \in Stmts : ~Live(s)

\* No callback runs without its context: free and detach wait for one that runs, and
\* none begins afterwards (Query.swift:70).
CallbackHasItsContext == calling => ctx
=============================================================================
