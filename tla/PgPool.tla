------------------------------- MODULE PgPool -------------------------------
(***************************************************************************)
(* One Postgres connection of datagrep: up to MaxSessions server sessions  *)
(* (pool.rs), the actor task that pins a session for a cursor or for a     *)
(* batch of mutations (actor.rs), the cursor (cursor.rs) and the requests  *)
(* that need a session (connection.rs, catalog.rs).                        *)
(*                                                                         *)
(* The connection's own task serves one request after the other; catalog   *)
(* callers and cursors run beside it.  A request runs in a task of its own *)
(* (`guarded' in session.rs) and is never abandoned half way; next_batch   *)
(* and close of a cursor may be.                                           *)
(***************************************************************************)
EXTENDS Integers, Sequences, FiniteSets, SequencesExt

CONSTANTS
    Browsers,    \* tasks that look at the catalog
    MaxSessions, \* MAX_SESSIONS
    MaxSids,     \* bound: names for sessions; a name is used again
    BatchSize,   \* mutations of one Op::Mutate
    MaxEvents,   \* bound: requests of the connection's task and sessions the server ends
    MaxLooks     \* bound: requests of a catalog task

Conn == "connection"
Tasks == {Conn} \cup Browsers
Sids == 1 .. MaxSids

ASSUME PgBounds ==
    /\ {MaxSessions, BatchSize, MaxEvents, MaxLooks} \subseteq Nat \ {0}
    /\ MaxSids \in Nat /\ MaxSids > MaxSessions
    /\ Tasks \cap {"free", "actor"} = {} /\ Conn \notin Browsers

VARIABLES
    slots,     \* PgPool.slots
    sess,      \* the sessions: the client, the recorded mode, the server's mode
    lock,      \* who holds the session's mutex
    actor,     \* the actor task of a pinned session
    cursor,    \* the PgCursor on it
    task,      \* the requests
    want,      \* PgPool.read_only
    closed,    \* PgPool.closed
    promised,  \* whether set_read_only(true) has been answered Server, and is still wanted
    ledger,    \* history: what the latest batch of mutations left in the database
    told,      \* history: what its caller was told
    breaches,  \* history: the requests that wrote although read-only was promised
    deaths

pgVars == <<slots, sess, lock, actor, cursor, task, want, closed,
            promised, ledger, told, breaches, deaths>>

Modes == {"unset", "ro", "rw"}
NoSession == [client |-> "none", set |-> "unset", mode |-> "rw"]
NoActor == [pc |-> "none", kind |-> "none", queue |-> <<>>, wrote |-> 0, good |-> TRUE]
Idle == [pc |-> "idle", op |-> "none", sid |-> 0, snap |-> {}, asked |-> 0,
         answer |-> "none", sure |-> FALSE, ops |-> 0]

\* with_primary: one session is there from the start.
PgInit ==
    /\ slots = <<1>>
    /\ sess = [s \in Sids |-> IF s = 1 THEN [NoSession EXCEPT !.client = "live"] ELSE NoSession]
    /\ lock = [s \in Sids |-> "free"]
    /\ actor = [s \in Sids |-> NoActor]
    /\ cursor = [s \in Sids |-> "none"]
    /\ task = [t \in Tasks |-> Idle]
    /\ want = "unset"
    /\ closed = FALSE
    /\ promised = FALSE
    /\ ledger = "none"
    /\ told = "none"
    /\ breaches = {}
    /\ deaths = 0

----------------------------------------------------------------------------
(* Sessions *)

InPool(s) == s \in ToSet(slots)

\* An Arc of the session is left somewhere.
Referenced(s) == InPool(s) \/ lock[s] # "free" \/ \E t \in Tasks : s \in task[t].snap

\* Dropping the guard: nobody refers to a session that is no longer in the pool, so
\* its client goes too and the server ends it.
GiveBack(s) ==
    /\ lock' = [lock EXCEPT ![s] = "free"]
    /\ sess' = IF InPool(s) \/ \E t \in Tasks : s \in task[t].snap THEN sess
               ELSE [sess EXCEPT ![s] = NoSession]

More == task[Conn].ops + deaths < MaxEvents

Steps(t, pc) == task' = [task EXCEPT ![t].pc = pc]

\* A request ends; what is left of it is forgotten.
Ends(t) == task' = [task EXCEPT ![t] = [Idle EXCEPT !.ops = task[t].ops]]

----------------------------------------------------------------------------
(* acquire *)

Idles == {s \in ToSet(slots) : lock[s] = "free"}
Usable == {s \in Idles : sess[s].client = "live"}

\* take_idle takes the first usable session and throws out the dead ones in front of it.
UsableSlots == {i \in DOMAIN slots : slots[i] \in Usable}
Found == CHOOSE i \in UsableSlots : \A j \in UsableSlots : i <= j
First == slots[Found]
Passed == {slots[i] : i \in 1 .. Found - 1} \cap Idles
Without(gone) == FoldLeft(LAMBDA kept, s : IF s \in gone THEN kept ELSE Append(kept, s), <<>>, slots)

Discard(gone) == sess' = [s \in Sids |-> IF s \in gone THEN NoSession ELSE sess[s]]

TakeIdle(t, otherwise) ==
    IF Usable # {}
    THEN /\ slots' = Without(Passed)
         /\ Discard(Passed)
         /\ lock' = [lock EXCEPT ![First] = t]
         /\ task' = [task EXCEPT ![t].pc = "found", ![t].sid = First]
    ELSE /\ slots' = Without(Idles)
         /\ Discard(Idles)
         /\ Steps(t, otherwise)
         /\ UNCHANGED lock

\* What a task may ask for.  The connection's task is gone once it has closed.
Ops(t) == IF t = Conn THEN {"statement", "scan", "mutate", "readonly", "readwrite"}
          ELSE {"browse"}

\* A pool that is closed refuses at once; the look at `closed' is the only one.
Ask(t, op) ==
    /\ task[t].pc = "idle" /\ ~closed
    /\ IF t = Conn THEN More ELSE task[t].ops < MaxLooks
    /\ task' = [task EXCEPT ![t].pc = "asked", ![t].op = op, ![t].sure = promised, ![t].ops = @ + 1]
    /\ CASE op = "readonly" -> want' = "ro" /\ UNCHANGED promised
         [] op = "readwrite" -> want' = "rw" /\ promised' = FALSE
         [] OTHER -> UNCHANGED <<want, promised>>
    /\ IF op = "mutate" THEN ledger' = "none" /\ told' = "none" ELSE UNCHANGED <<ledger, told>>
    /\ UNCHANGED <<slots, sess, lock, actor, cursor, closed, breaches, deaths>>

Look(t) ==
    /\ \/ task[t].pc = "asked" /\ TakeIdle(t, "again")
       \/ task[t].pc = "again" /\ TakeIdle(t, "dial")
    /\ UNCHANGED <<actor, cursor, want, closed, promised, ledger, told, breaches, deaths>>

\* Fault: the cap is off by one.
DialOneTooMany(t) ==
    /\ task[t].pc = "dial"
    /\ IF Len(slots) > MaxSessions
       THEN Steps(t, "full") /\ UNCHANGED <<slots, sess, lock>>
       ELSE \E s \in Sids :
              /\ ~Referenced(s) /\ \A r \in Sids : r < s => Referenced(r)
              /\ slots' = Append(slots, s)
              /\ sess' = [sess EXCEPT ![s] = NoSession]
              /\ lock' = [lock EXCEPT ![s] = t]
              /\ task' = [task EXCEPT ![t].pc = "dialling", ![t].sid = s]
    /\ UNCHANGED <<actor, cursor, want, closed, promised, ledger, told, breaches, deaths>>

\* dial: a placeholder takes the slot, unless all are taken.
Dial(t) ==
    /\ task[t].pc = "dial"
    /\ IF Len(slots) >= MaxSessions
       THEN Steps(t, "full") /\ UNCHANGED <<slots, sess, lock>>
       ELSE \E s \in Sids :
              /\ ~Referenced(s) /\ \A r \in Sids : r < s => Referenced(r)
              /\ slots' = Append(slots, s)
              /\ sess' = [sess EXCEPT ![s] = NoSession]
              /\ lock' = [lock EXCEPT ![s] = t]
              /\ task' = [task EXCEPT ![t].pc = "dialling", ![t].sid = s]
    /\ UNCHANGED <<actor, cursor, want, closed, promised, ledger, told, breaches, deaths>>

Dialled(t) ==
    /\ task[t].pc = "dialling"
    /\ sess' = [sess EXCEPT ![task[t].sid].client = "live"]
    /\ Steps(t, "found")
    /\ UNCHANGED <<slots, lock, actor, cursor, want, closed, promised, ledger, told, breaches, deaths>>

DialFails(t) ==
    /\ task[t].pc = "dialling"
    /\ slots' = Without({task[t].sid})
    /\ lock' = [lock EXCEPT ![task[t].sid] = "free"]
    /\ Ends(t)
    /\ UNCHANGED <<sess, actor, cursor, want, closed, promised, ledger, told, breaches, deaths>>

\* The bounded wait, on the sessions that are there now.
Wait(t) ==
    /\ task[t].pc = "full"
    /\ IF slots = <<>> THEN Ends(t)
       ELSE task' = [task EXCEPT ![t].pc = "waiting", ![t].snap = ToSet(slots)]
    /\ UNCHANGED <<slots, sess, lock, actor, cursor, want, closed, promised, ledger, told, breaches, deaths>>

\* A slot whose client is gone (a dial that failed, a close) is reported as Closed.
Served(t) ==
    /\ task[t].pc = "waiting"
    /\ \E s \in task[t].snap :
         /\ lock[s] = "free"
         /\ IF sess[s].client = "none"
            THEN Ends(t) /\ UNCHANGED lock
            ELSE /\ lock' = [lock EXCEPT ![s] = t]
                 /\ task' = [task EXCEPT ![t].pc = "found", ![t].sid = s, ![t].snap = {}]
    /\ UNCHANGED <<slots, sess, actor, cursor, want, closed, promised, ledger, told, breaches, deaths>>

\* Fault: the wait has no deadline.
WaitsForEver(t) == task[t].pc = "waiting" /\ UNCHANGED pgVars

WaitTimesOut(t) ==
    /\ task[t].pc = "waiting"
    /\ Ends(t)
    /\ UNCHANGED <<slots, sess, lock, actor, cursor, want, closed, promised, ledger, told, breaches, deaths>>

\* Fault: only a session that has never been given a mode is given one.
ReconcileFreshOnly(t) ==
    /\ task[t].pc = "found"
    /\ LET s == task[t].sid IN
          /\ sess' = IF want # "unset" /\ sess[s].set = "unset" /\ sess[s].client = "live"
                     THEN [sess EXCEPT ![s].set = want, ![s].mode = want] ELSE sess
          /\ Steps(t, "has")
    /\ UNCHANGED <<slots, lock, actor, cursor, want, closed, promised, ledger, told, breaches, deaths>>

\* reconcile: the session is put into the mode that is wanted, if its record differs.
Reconcile(t) ==
    /\ task[t].pc = "found"
    /\ LET s == task[t].sid
           current == want = "unset" \/ sess[s].set = want
           sent == sess[s].client = "live"
       IN \/ /\ current
             /\ Steps(t, "has")
             /\ UNCHANGED <<sess, lock>>
          \/ /\ ~current /\ sent
             /\ sess' = [sess EXCEPT ![s].set = want, ![s].mode = want]
             /\ Steps(t, "has")
             /\ UNCHANGED lock
          \/ ~current /\ GiveBack(s) /\ Ends(t)
    /\ UNCHANGED <<slots, actor, cursor, want, closed, promised, ledger, told, breaches, deaths>>

----------------------------------------------------------------------------
(* Requests *)

\* set_read_only gives the session it reconciled straight back.
ModeSet(t) ==
    /\ task[t].pc = "has" /\ task[t].op \in {"readonly", "readwrite"}
    /\ GiveBack(task[t].sid)
    /\ Ends(t)
    /\ promised' = (task[t].op = "readonly")
    /\ UNCHANGED <<slots, actor, cursor, want, closed, ledger, told, breaches, deaths>>

\* A statement without columns runs on the pooled session; the server refuses it in
\* a session that is read-only.
Statement(t) ==
    /\ task[t].pc = "has" /\ task[t].op = "statement"
    /\ LET s == task[t].sid IN
         /\ \/ UNCHANGED breaches
            \/ /\ sess[s].client = "live" /\ sess[s].mode = "rw"
               /\ breaches' = IF task[t].sure THEN breaches \cup {"statement"} ELSE breaches
         /\ GiveBack(s)
    /\ Ends(t)
    /\ UNCHANGED <<slots, actor, cursor, want, closed, promised, ledger, told, deaths>>

\* ping, a catalog query, or a scan whose text does not prepare.
Browse(t) ==
    /\ task[t].pc = "has" /\ task[t].op \in {"browse", "scan"}
    /\ GiveBack(task[t].sid)
    /\ Ends(t)
    /\ UNCHANGED <<slots, actor, cursor, want, closed, promised, ledger, told, breaches, deaths>>

\* actor::spawn takes the guard over; the first Execute is in its channel.
Spawn(t) ==
    /\ task[t].pc = "has" /\ task[t].op \in {"scan", "mutate"}
    /\ LET s == task[t].sid IN
         /\ lock' = [lock EXCEPT ![s] = "actor"]
         /\ actor' = [actor EXCEPT ![s] = [NoActor EXCEPT !.pc = "begin", !.kind = task[t].op,
                                                          !.queue = <<"execute">>]]
    /\ Steps(t, "executing")
    /\ UNCHANGED <<slots, sess, cursor, want, closed, promised, ledger, told, breaches, deaths>>

\* execute_native_or_scan: the cursor owns the session from now on.
CursorOpens(t) ==
    /\ task[t].pc = "executing" /\ task[t].op = "scan" /\ task[t].answer # "none"
    /\ cursor' = IF task[t].answer = "error" THEN cursor ELSE [cursor EXCEPT ![task[t].sid] = "open"]
    /\ Ends(t)
    /\ UNCHANGED <<slots, sess, lock, actor, want, closed, promised, ledger, told, breaches, deaths>>

Sends(t, cmd) ==
    /\ actor' = [actor EXCEPT ![task[t].sid].queue = Append(@, cmd)]
    /\ UNCHANGED <<slots, sess, lock, cursor, want, closed, promised, ledger, breaches, deaths>>

\* Fault: the number of rows a mutation hit is not looked at.
MutateAnyway(t) ==
    /\ task[t].pc = "executing" /\ task[t].op = "mutate" /\ task[t].answer \in {"one", "other"}
    /\ LET n == task[t].asked + 1 IN
         /\ Sends(t, IF n < BatchSize THEN "execute" ELSE "commit")
         /\ task' = [task EXCEPT ![t].asked = n, ![t].answer = "none",
                                 ![t].pc = IF n < BatchSize THEN @ ELSE "committing"]
    /\ UNCHANGED told

\* execute_mutate: the next mutation once the last one hit exactly its row; the
\* commit after the last; a rollback otherwise.
MutateNext(t) ==
    /\ task[t].pc = "executing" /\ task[t].op = "mutate" /\ task[t].answer = "one"
    /\ LET n == task[t].asked + 1 IN
         IF n < BatchSize
         THEN /\ Sends(t, "execute")
              /\ task' = [task EXCEPT ![t].asked = n, ![t].answer = "none"]
         ELSE /\ Sends(t, "commit")
              /\ task' = [task EXCEPT ![t].asked = n, ![t].answer = "none", ![t].pc = "committing"]
    /\ UNCHANGED told

MutateStops(t) ==
    /\ task[t].pc = "executing" /\ task[t].op = "mutate" /\ task[t].answer \in {"other", "error"}
    /\ Sends(t, "rollback")
    /\ task' = [task EXCEPT ![t].answer = "none", ![t].pc = "undoing"]
    /\ UNCHANGED told

\* compile_mutation fails half way through the batch: the channel is simply dropped.
MutateGivesUp(t) ==
    /\ task[t].pc = "executing" /\ task[t].op = "mutate" /\ task[t].answer = "one"
    /\ task[t].asked + 1 < BatchSize
    /\ told' = "refused"
    /\ Ends(t)
    /\ UNCHANGED <<slots, sess, lock, actor, cursor, want, closed, promised, ledger, breaches, deaths>>

\* A commit that fails may have happened.
MutateEnds(t) ==
    /\ task[t].pc \in {"committing", "undoing"} /\ task[t].answer # "none"
    /\ told' = CASE task[t].pc = "undoing" -> "refused"
                 [] task[t].pc = "committing" /\ task[t].answer = "ok" -> "done"
                 [] OTHER -> "unknown"
    /\ Ends(t)
    /\ UNCHANGED <<slots, sess, lock, actor, cursor, want, closed, promised, ledger, breaches, deaths>>

\* run_connection closes when its loop ends.  Sessions that are pinned stay.
Close ==
    /\ ~closed /\ task[Conn].pc = "idle"
    /\ closed' = TRUE
    /\ slots' = <<>>
    /\ Discard(Idles)
    /\ UNCHANGED <<lock, actor, cursor, task, want, promised, ledger, told, breaches, deaths>>

----------------------------------------------------------------------------
(* The cursor, in the hands of a feeder *)

CursorSends(s, state, cmd) ==
    /\ cursor' = [cursor EXCEPT ![s] = state]
    /\ actor' = [actor EXCEPT ![s].queue = Append(@, cmd)]
    /\ UNCHANGED <<slots, sess, lock, task, want, closed, promised, ledger, told, breaches, deaths>>

NextBatch(s) == cursor[s] = "open" /\ CursorSends(s, "fetching", "fetch")

\* A cancelled feeder drops next_batch and goes on to close.
Abandon(s) ==
    /\ cursor[s] = "fetching"
    /\ cursor' = [cursor EXCEPT ![s] = "over"]
    /\ UNCHANGED <<slots, sess, lock, actor, task, want, closed, promised, ledger, told, breaches, deaths>>

\* release_session, from close or because the last rows have come.
CloseCursor(s) == cursor[s] \in {"open", "over"} /\ CursorSends(s, "closing", "rollback")
Exhausted(s) == cursor[s] = "last" /\ CursorSends(s, "closing", "rollback")

\* The cursor, or the future of its close, is dropped; or the close has its answer.
DropCursor(s) ==
    /\ cursor[s] # "none"
    /\ cursor' = [cursor EXCEPT ![s] = "none"]
    /\ UNCHANGED <<slots, sess, lock, actor, task, want, closed, promised, ledger, told, breaches, deaths>>

----------------------------------------------------------------------------
(* The actor *)

\* Somebody still has a sender of the actor's channel.
Held(s) == cursor[s] # "none" \/ \E t \in Tasks : task[t].sid = s /\ lock[s] = "actor"

Waits(s) == {t \in Tasks : task[t].sid = s /\ task[t].pc \in {"executing", "committing", "undoing"}}

\* The answer goes to whoever waits for it: the request, or the cursor.
Answers(s, word) ==
    /\ task' = [t \in Tasks |-> IF t \in Waits(s) THEN [task[t] EXCEPT !.answer = word] ELSE task[t]]
    /\ cursor' = [cursor EXCEPT ![s] =
                    CASE @ = "fetching" /\ word \in {"rows", "error"} -> "open"
                      [] @ = "fetching" /\ word = "last" -> "last"
                      [] @ = "closing" /\ Head(actor[s].queue) = "rollback" -> "none"
                      [] OTHER -> @]

\* BEGIN, in the mode the transaction asks for whatever the session's mode is.
Begin(s) ==
    /\ actor[s].pc = "begin"
    /\ \/ sess[s].client = "live" /\ actor' = [actor EXCEPT ![s].pc = "run"]
       \/ actor' = [actor EXCEPT ![s].pc = "broken"]
    /\ UNCHANGED <<slots, sess, lock, cursor, task, want, closed, promised, ledger, told, breaches, deaths>>

Pop(s) == [actor[s] EXCEPT !.queue = Tail(@)]

\* An Execute of a mutation; another one than exactly one row is a row that changed.
ActorWrites(s) ==
    /\ actor[s].kind = "mutate" /\ sess[s].client = "live"
    /\ \E hit \in {"one", "other"} :
         /\ Answers(s, hit)
         /\ actor' = [actor EXCEPT ![s] = [Pop(s) EXCEPT !.wrote = @ + 1, !.good = @ /\ hit = "one"]]

ActorReads(s) ==
    /\ sess[s].client = "live"
    /\ \/ actor[s].kind = "scan" /\ Head(actor[s].queue) = "execute" /\ Answers(s, "portal")
       \/ Head(actor[s].queue) = "fetch" /\ \E word \in {"rows", "last"} : Answers(s, word)
    /\ actor' = [actor EXCEPT ![s] = Pop(s)]

\* The server, the connection or a cancel refuses any command.
ActorFails(s) ==
    /\ Answers(s, "error")
    /\ actor' = [actor EXCEPT ![s] = Pop(s)]

Execute(s) ==
    /\ actor[s].pc = "run" /\ actor[s].queue # <<>>
    /\ Head(actor[s].queue) \in {"execute", "fetch"}
    /\ \/ Head(actor[s].queue) = "execute" /\ ActorWrites(s)
       \/ ActorReads(s)
       \/ ActorFails(s)
    /\ UNCHANGED <<slots, sess, lock, want, closed, promised, ledger, told, breaches, deaths>>

Broken(s) ==
    /\ actor[s].pc = "broken" /\ actor[s].queue # <<>>
    /\ ActorFails(s)
    /\ UNCHANGED <<slots, sess, lock, want, closed, promised, ledger, told, breaches, deaths>>

Saved(s) == IF actor[s].wrote = BatchSize /\ actor[s].good THEN "whole" ELSE "partial"

\* The request that commits is the only one of the connection's task.
Commit(s) ==
    /\ actor[s].pc = "run" /\ actor[s].queue # <<>> /\ Head(actor[s].queue) = "commit"
    /\ \/ /\ sess[s].client = "live"
          /\ ledger' = Saved(s)
          /\ breaches' = IF task[Conn].sure THEN breaches \cup {"mutate"} ELSE breaches
          /\ Answers(s, "ok") \/ Answers(s, "error")
       \/ Answers(s, "error") /\ UNCHANGED <<ledger, breaches>>
    /\ actor' = [actor EXCEPT ![s] = [NoActor EXCEPT !.pc = "leave"]]
    /\ UNCHANGED <<slots, sess, lock, want, closed, promised, told, deaths>>

Rollback(s) ==
    /\ actor[s].pc = "run" /\ actor[s].queue # <<>> /\ Head(actor[s].queue) = "rollback"
    /\ Answers(s, "ok")
    /\ actor' = [actor EXCEPT ![s] = [NoActor EXCEPT !.pc = "leave"]]
    /\ UNCHANGED <<slots, sess, lock, want, closed, promised, ledger, told, breaches, deaths>>

\* Fault: the actor keeps a sender of its own, so its channel never closes.
HangUpNever(s) == actor[s].pc = "run" /\ UNCHANGED pgVars

\* recv finds the channel closed: roll back and leave.
HangUp(s) ==
    /\ actor[s].pc \in {"run", "broken"} /\ actor[s].queue = <<>> /\ ~Held(s)
    /\ actor' = [actor EXCEPT ![s] = [NoActor EXCEPT !.pc = "leave"]]
    /\ UNCHANGED <<slots, sess, lock, cursor, task, want, closed, promised, ledger, told, breaches, deaths>>

\* The guard is dropped after the answer has gone out.
Leave(s) ==
    /\ actor[s].pc = "leave"
    /\ GiveBack(s)
    /\ actor' = [actor EXCEPT ![s] = NoActor]
    /\ UNCHANGED <<slots, cursor, task, want, closed, promised, ledger, told, breaches, deaths>>

\* The server ends a session.
Die(s) ==
    /\ More /\ sess[s].client = "live" /\ Referenced(s)
    /\ sess' = [sess EXCEPT ![s].client = "dead"]
    /\ deaths' = deaths + 1
    /\ UNCHANGED <<slots, lock, actor, cursor, task, want, closed, promised, ledger, told, breaches>>

----------------------------------------------------------------------------
Acquire(t) == Look(t) \/ Dial(t) \/ Dialled(t) \/ DialFails(t) \/ Wait(t)
              \/ WaitTimesOut(t) \/ Reconcile(t)
Request(t) == ModeSet(t) \/ Statement(t) \/ Browse(t) \/ Spawn(t) \/ CursorOpens(t)
              \/ MutateNext(t) \/ MutateStops(t) \/ MutateGivesUp(t) \/ MutateEnds(t)
Actor(s) == Begin(s) \/ Execute(s) \/ Broken(s) \/ Commit(s) \/ Rollback(s) \/ HangUp(s) \/ Leave(s)
Reader(s) == NextBatch(s) \/ Abandon(s) \/ CloseCursor(s) \/ DropCursor(s)

PgNext ==
    \/ \E t \in Tasks : Acquire(t) \/ Served(t) \/ Request(t) \/ \E op \in Ops(t) : Ask(t, op)
    \/ \E s \in Sids : Actor(s) \/ Reader(s) \/ Exhausted(s) \/ Die(s)
    \/ Close

\* Tasks are scheduled, timers fire and the server answers.  Nobody has to read or
\* close a cursor, to ask for anything, or to close the connection.
PgSpec ==
    /\ PgInit /\ [][PgNext]_pgVars
    /\ \A t \in Tasks : WF_pgVars(Acquire(t) \/ Request(t))
    /\ \A s \in Sids : WF_pgVars(Actor(s) \/ Exhausted(s))

----------------------------------------------------------------------------
(* Properties *)

PgTypeOK ==
    /\ slots \in Seq(Sids)
    /\ sess \in [Sids -> [client : {"none", "live", "dead"}, set : Modes, mode : {"ro", "rw"}]]
    /\ lock \in [Sids -> Tasks \cup {"free", "actor"}]
    /\ \A s \in Sids :
         /\ actor[s].pc \in {"none", "begin", "run", "broken", "leave"}
         /\ actor[s].queue \in Seq({"execute", "fetch", "rollback", "commit"})
         /\ actor[s].wrote \in 0 .. BatchSize
         /\ lock[s] = "actor" <=> actor[s].pc # "none"
    /\ cursor \in [Sids -> {"none", "open", "fetching", "last", "over", "closing"}]
    /\ want \in Modes
    /\ ledger \in {"none", "whole", "partial"}
    /\ told \in {"none", "refused", "done", "unknown"}

\* Types, and there are never more sessions than the cap while the pool is open, those that are
\* being dialled included (two requests that both see the last free slot: pool.rs:160).
LiveSessions == {s \in Sids : sess[s].client # "none" \/ lock[s] # "free"}
CapIsKept == PgTypeOK /\ (~closed => Cardinality(LiveSessions) <= MaxSessions)

\* What the caller of a batch is told is so: done means saved, refused means that
\* nothing was and nothing will be.
AnswerIsTrue ==
    /\ told = "done" => ledger = "whole"
    /\ told = "refused" => ledger = "none"

\* A batch of mutations is in the database as a whole or not at all, whatever fails,
\* dies, is given up or finds a row changed on the way (connection.rs:117), and its
\* caller is told which.
MutationIsWhole == ledger # "partial" /\ AnswerIsTrue

\* Once set_read_only(true) has been answered, the server refuses the statements that
\* are asked for after it on whatever session they get: an old one, one that was
\* pinned at the time, one dialled since (reconcile, pool.rs:201).
ReadOnlyReachesEverySession == "statement" \notin breaches

\* The same of everything that writes (README.md:151).
ReadOnlyRefusesWrites == breaches = {}

\* Every request ends: acquire never hangs behind cursors that nobody closes (pool.rs:112),
\* and the actor answers whatever it is sent.  (Requests are bounded, so it is enough
\* that none is under way for good.)
RequestsEnd == (\E t \in Tasks : task[t].pc # "idle") ~> (\A t \in Tasks : task[t].pc = "idle")

\* A session whose cursor or batch is gone goes back to the pool, however it went:
\* closed, dropped, abandoned in the middle of a fetch or of its own close.
LetGo(s) == lock[s] = "actor" /\ ~Held(s)
LetGoSessionsComeBack == (\E s \in Sids : LetGo(s)) ~> (\A s \in Sids : ~LetGo(s))

\* The latest batch.
PgBatches == INSTANCE MutationBatch WITH
    Batches <- {Conn},
    saved   <- [b \in {Conn} |-> CASE ledger = "none" -> "nothing" [] ledger = "whole" -> "all" [] OTHER -> "part"],
    told    <- [b \in {Conn} |-> IF told = "done" THEN "applied" ELSE told]

\* It is saved in one step and for good, and only before its caller has an answer, until
\* the next one is asked for: no actor of an earlier batch still commits by then.
PgImplementsBatch ==
    PgBatches!BatchInit /\ [][PgBatches!BatchNext \/ Ask(Conn, "mutate")]_(PgBatches!batchVars)

=============================================================================
