------------------------------ MODULE Sidecar ------------------------------
(***************************************************************************)
(* An engine that runs as a child process.  The host keeps a table of      *)
(* requests it has sent (process.rs), the child answers each in a          *)
(* goroutine of its own (sidecar/common/rpc/serve.go), and the two share   *)
(* nothing but a pair of pipes.  A caller may give up at any moment, the   *)
(* child may stall, exit or be killed, and a cancel names a connection and *)
(* not a request.                                                          *)
(*                                                                         *)
(* A cursor is named by the execute that opened it.  The handshake and     *)
(* connect have been made.                                                 *)
(***************************************************************************)
EXTENDS Naturals, Sequences, FiniteSets, SequencesExt

CONSTANTS Conns,        \* connections inside the process
          MaxRequests,  \* bound on the requests sent
          MaxCancels    \* bound on the cancels sent

ASSUME SidecarBounds == MaxRequests \in Nat /\ MaxCancels \in Nat

VARIABLES
    asked,      \* the requests made, in order: connection, kind and cursor
    call,       \* where each request's caller is
    pending,    \* State::pending
    dead,       \* State::dead is set
    stdin,      \* the host's end of the child's stdin is open
    down, up,   \* the pipes to and from the child
    supervisor, \* the task that reads replies and reaps the child
    killing,    \* the permit of Shared::kill
    holds,      \* the cursor each connection's caller holds, 0 for none
    held,       \* connections whose Link somebody holds
    canceller,  \* the canceller of each connection
    cancels,    \* how many cancels were asked for
    child,      \* the process: "up", "stopping" or "down"
    known,      \* server.conns
    stage,      \* the goroutine of each request
    live,       \* contexts a cancel reaches (conn.live)
    cancelled,  \* contexts that are cancelled
    open        \* server.cursors

hostVars   == <<asked, call, pending, dead, stdin, supervisor, killing,
                holds, held, canceller, cancels>>
serverVars == <<child, known, stage, live, cancelled, open>>
vars       == <<hostVars, down, up, serverVars>>

Ids   == 1..MaxRequests
Kinds == {"execute", "fetch", "close", "release", "disconnect"}
Made  == DOMAIN asked

Conn(i)   == asked[i].conn
Kind(i)   == asked[i].kind
Cursor(i) == asked[i].cursor
Of(c)     == {i \in Made : Conn(i) = c}

Request(i) == [type |-> "request", id |-> i]
Cancel(c)  == [type |-> "cancel", conn |-> c]
Torn       == [type |-> "torn"]
\* The requests that are on the way down, in a goroutine, or on the way up.
Queued    == {i \in Made : Request(i) \in ToSet(down)}
Handled   == {i \in Made : stage[i] # "none"}
Answered  == {i \in Made : \E r \in ToSet(up) : r.id = i}

SidecarTypeOK ==
    /\ asked \in Seq([conn : Conns, kind : Kinds, cursor : {0} \cup Ids])
    /\ call \in [Ids -> {"none", "send", "wait", "gone", "ok", "err"}]
    /\ pending \subseteq Made
    /\ dead \in BOOLEAN /\ stdin \in BOOLEAN /\ killing \in BOOLEAN
    /\ supervisor \in {"reading", "ending", "over"}
    /\ holds \in [Conns -> {0} \cup Ids] /\ held \subseteq Conns
    /\ canceller \in [Conns -> {"idle", "settling"}]
    /\ cancels \in 0..MaxCancels
    /\ child \in {"up", "stopping", "down"} /\ known \subseteq Conns
    /\ stage \in [Ids -> {"none", "read", "engine", "opened", "locking", "fetching"}]
    /\ live \subseteq Made /\ cancelled \subseteq Made /\ open \subseteq Made
    /\ \A k \in 1..Len(down) : down[k] = Torn
                            \/ down[k] \in {Request(i) : i \in Made}
                            \/ down[k] \in {Cancel(c) : c \in Conns}
    /\ up \in Seq([id : Ids, cursor : {0} \cup Ids])

Init ==
    /\ asked = <<>> /\ call = [i \in Ids |-> "none"] /\ pending = {}
    /\ dead = FALSE /\ stdin = TRUE /\ supervisor = "reading" /\ killing = FALSE
    /\ holds = [c \in Conns |-> 0] /\ held = Conns
    /\ canceller = [c \in Conns |-> "idle"] /\ cancels = 0
    /\ down = <<>> /\ up = <<>>
    /\ child = "up" /\ known = Conns /\ stage = [i \in Ids |-> "none"]
    /\ live = {} /\ cancelled = {} /\ open = {}

-----------------------------------------------------------------------------
(* The host: callers.                                                      *)

Busy(c) == \E i \in Of(c) : call[i] \in {"send", "wait"} /\ Kind(i) # "release"

\* Process::call up to the send: the request is in the table before it is on
\* the wire.
Issue(c, kind) ==
    /\ Len(asked) < MaxRequests /\ ~dead
    /\ asked' = Append(asked, [conn |-> c, kind |-> kind, cursor |-> holds[c]])
    /\ call' = [call EXCEPT ![Len(asked)'] = "send"]
    /\ pending' = pending \cup {Len(asked)'}
    /\ UNCHANGED <<dead, stdin, supervisor, killing, held, canceller, cancels,
                   down, up, serverVars>>

Parted(c)  == \E i \in Of(c) : Kind(i) = "disconnect"
Execute(c) == /\ c \in held /\ holds[c] = 0 /\ ~Busy(c) /\ ~Parted(c)
              /\ Issue(c, "execute") /\ UNCHANGED holds
Fetch(c)   == /\ holds[c] # 0 /\ ~Busy(c)
              /\ Issue(c, "fetch") /\ UNCHANGED holds
\* SidecarCursor::close, and its drop, which asks in a detached task.
CloseCursor(c) == /\ holds[c] # 0 /\ ~Busy(c)
                  /\ \E kind \in {"close", "release"} : Issue(c, kind)
                  /\ holds' = [holds EXCEPT ![c] = 0]
\* SidecarConnection::close.
Disconnect(c)  == /\ c \in held /\ holds[c] = 0 /\ ~Busy(c) /\ ~Parted(c)
                  /\ Issue(c, "disconnect") /\ UNCHANGED holds

\* Process::kill: a permit for the supervisor, if it still looks for one.
Stop == killing' = (supervisor = "reading")

\* fail_all: everything in the table is answered with the reason.
FailAll ==
    /\ dead' = TRUE /\ pending' = {}
    /\ call' = [i \in Ids |-> IF i \in pending /\ call[i] = "wait"
                              THEN "err" ELSE call[i]]

\* Process::send with stdin open.  A write to a child that is gone fails, and
\* that is the end for everybody.
Send(i) ==
    /\ call[i] = "send" /\ stdin
    /\ \/ /\ child # "down"
          /\ down' = Append(down, Request(i))
          /\ call' = [call EXCEPT ![i] = "wait"]
          /\ UNCHANGED <<dead, pending, stdin, killing>>
       \/ /\ child = "down"
          /\ FailAll /\ stdin' = FALSE /\ Stop
          /\ UNCHANGED down
    /\ UNCHANGED <<asked, supervisor, holds, held, canceller, cancels, up, serverVars>>

SendNowhere(i) ==
    /\ call[i] = "send" /\ ~stdin
    /\ call' = [call EXCEPT ![i] = "err"]
    /\ UNCHANGED <<asked, pending, dead, stdin, supervisor, killing, holds, held,
                   canceller, cancels, down, up, serverVars>>

\* Fault: a caller that gives up takes its request out of the table.
AbandonForgets(i) ==
    /\ Kind(i) # "release" /\ call[i] \in {"send", "wait"}
    /\ call' = [call EXCEPT ![i] = "gone"] /\ pending' = pending \ {i}
    /\ UNCHANGED <<asked, dead, stdin, supervisor, killing, holds, held,
                   canceller, cancels, down, up, serverVars>>
\* A caller's future is dropped: before its request is written, in the middle
\* of the write, or while it waits.  The request stays in the table.
Abandon(i) ==
    /\ Kind(i) # "release"
    /\ \/ call[i] \in {"send", "wait"} /\ UNCHANGED down
       \/ call[i] = "send" /\ stdin /\ child # "down" /\ down' = Append(down, Torn)
    /\ call' = [call EXCEPT ![i] = "gone"]
    /\ UNCHANGED <<asked, pending, dead, stdin, supervisor, killing, holds, held,
                   canceller, cancels, up, serverVars>>

\* A close or disconnect that takes longer than KILL_GRACE kills the process.
CloseGraceOver(i) ==
    /\ call[i] \in {"send", "wait"} /\ Kind(i) \in {"close", "disconnect"}
    /\ call' = [call EXCEPT ![i] = "gone"] /\ Stop
    /\ UNCHANGED <<asked, pending, dead, stdin, supervisor, holds, held,
                   canceller, cancels, down, up, serverVars>>

-----------------------------------------------------------------------------
(* The host: cancelling, dropping, reading.                                *)

\* SidecarCanceller::cancel, Link::cancel: a notification without an id.
CancelConn(c) ==
    /\ c \in held /\ canceller[c] = "idle" /\ cancels < MaxCancels /\ stdin
    /\ cancels' = cancels + 1
    /\ \/ /\ child # "down"
          /\ down' = Append(down, Cancel(c))
          /\ canceller' = [canceller EXCEPT ![c] = "settling"]
          /\ UNCHANGED <<call, dead, pending, stdin, killing>>
       \/ /\ child = "down"
          /\ FailAll /\ stdin' = FALSE /\ Stop /\ UNCHANGED <<canceller, down>>
    /\ UNCHANGED <<asked, supervisor, holds, held, up, serverVars>>

\* Process::settled, raced by KILL_GRACE.
Settled(c) == dead \/ pending \cap Of(c) = {}
Settle(c) ==
    /\ canceller[c] = "settling" /\ Settled(c)
    /\ canceller' = [canceller EXCEPT ![c] = "idle"]
    /\ UNCHANGED <<asked, call, pending, dead, stdin, supervisor, killing, holds,
                   held, cancels, down, up, serverVars>>
\* Fault: the grace period ends and nothing is killed.
GraceOverPatiently(c) ==
    /\ canceller[c] = "settling" /\ ~Settled(c)
    /\ canceller' = [canceller EXCEPT ![c] = "idle"]
    /\ UNCHANGED <<asked, call, pending, dead, stdin, supervisor, killing, holds, held,
                   cancels, down, up, serverVars>>
GraceOver(c) ==
    /\ canceller[c] = "settling" /\ ~Settled(c)
    /\ canceller' = [canceller EXCEPT ![c] = "idle"] /\ Stop
    /\ UNCHANGED <<asked, call, pending, dead, stdin, supervisor, holds, held,
                   cancels, down, up, serverVars>>

\* A connection is let go; a task that still waits for a reply holds the
\* process too.  Its cursor is dropped with it.
DropConn(c) ==
    /\ c \in held /\ ~Busy(c) /\ canceller[c] = "idle" /\ holds[c] = 0
    /\ held' = held \ {c}
    /\ UNCHANGED <<asked, call, pending, dead, stdin, supervisor, killing, holds,
                   canceller, cancels, down, up, serverVars>>

Unheld == held = {} /\ \A i \in Made : call[i] \notin {"send", "wait"}

\* Fault: the stdin of a process nobody holds stays open.
DropProcessKeepsStdin == Unheld /\ stdin /\ UNCHANGED vars
\* Process::drop: closing stdin is the request to stop, the kill the backstop.
DropProcess ==
    /\ Unheld /\ stdin /\ stdin' = FALSE
    /\ UNCHANGED <<asked, call, pending, dead, supervisor, killing, holds, held,
                   canceller, cancels, down, up, serverVars>>
DropGraceOver ==
    /\ Unheld /\ ~stdin /\ Stop
    /\ UNCHANGED <<asked, call, pending, dead, stdin, supervisor, holds, held,
                   canceller, cancels, down, up, serverVars>>

\* read_replies: a reply settles its request whether or not anybody waits; a
\* reply to something that is not in the table ends the process.
Read ==
    /\ supervisor = "reading" /\ up # <<>> /\ up' = Tail(up)
    /\ LET r == Head(up) IN
       IF r.id \in pending
       THEN /\ pending' = pending \ {r.id}
            /\ call' = [call EXCEPT ![r.id] = IF @ = "wait" THEN "ok" ELSE @]
            /\ holds' = IF call[r.id] = "wait" /\ Kind(r.id) = "execute"
                        THEN [holds EXCEPT ![Conn(r.id)] = r.cursor] ELSE holds
            /\ UNCHANGED supervisor
       ELSE supervisor' = "ending" /\ UNCHANGED <<pending, call, holds>>
    /\ UNCHANGED <<asked, dead, stdin, killing, held, canceller, cancels, down, serverVars>>

ReadEnd ==
    /\ supervisor = "reading"
    /\ killing \/ (child = "down" /\ up = <<>>)
    /\ supervisor' = "ending"
    /\ UNCHANGED <<asked, call, pending, dead, stdin, killing, holds, held, canceller,
                   cancels, down, up, serverVars>>

\* The process is no more: its memory and what it had not read are gone, what
\* it has written can still be read.
Gone == /\ child' = "down" /\ down' = <<>> /\ known' = {} /\ open' = {}
        /\ stage' = [i \in Ids |-> "none"] /\ live' = {} /\ cancelled' = {}

\* supervise after the loop: kill, reap, and only then tell the callers.
Kill ==
    /\ supervisor = "ending" /\ child # "down" /\ Gone
    /\ UNCHANGED <<hostVars, up>>
Bury ==
    /\ supervisor = "ending" /\ child = "down" /\ supervisor' = "over"
    /\ FailAll /\ up' = <<>>
    /\ UNCHANGED <<asked, stdin, killing, holds, held, canceller, cancels, down, serverVars>>

-----------------------------------------------------------------------------
(* The child: one reader, one goroutine per request.                       *)

Serving == child # "down"

\* Serve: the reader starts a goroutine and goes on; it does not wait until
\* the goroutine is known to anybody.
Serve ==
    /\ child = "up" /\ down # <<>> /\ Head(down).type = "request"
    /\ stage' = [stage EXCEPT ![Head(down).id] = "read"]
    /\ down' = Tail(down)
    /\ UNCHANGED <<hostVars, up, child, known, live, cancelled, open>>

Reached(c) == IF c \in known THEN live \cap Of(c) ELSE {}
ServeCancel ==
    /\ child = "up" /\ down # <<>> /\ Head(down).type = "cancel"
    /\ cancelled' = cancelled \cup Reached(Head(down).conn)
    /\ down' = Tail(down)
    /\ UNCHANGED <<hostVars, up, child, known, stage, live, open>>

\* The end of stdin, or a frame that runs into the next one: shutdown cancels
\* everything and the process goes.
ServeEnd ==
    /\ child = "up"
    /\ \/ down = <<>> /\ ~stdin
       \/ down # <<>> /\ Head(down) = Torn /\ (Len(down) > 1 \/ ~stdin)
    /\ child' = "stopping" /\ open' = {} /\ known' = {}
    /\ cancelled' = cancelled \cup open \cup {i \in live : Conn(i) \in known}
    /\ UNCHANGED <<hostVars, down, up, stage, live>>
Exit ==
    /\ child = "stopping" /\ Gone /\ UNCHANGED <<hostVars, up>>
Crash ==
    /\ child = "up" /\ Gone /\ UNCHANGED <<hostVars, up>>

Goto(i, s) == stage' = [stage EXCEPT ![i] = s] /\ UNCHANGED up
\* The goroutine's last step: its reply, on the one pipe they all share.
Reply(i, k) == /\ stage' = [stage EXCEPT ![i] = "none"]
               /\ up' = Append(up, [id |-> i, cursor |-> k])

\* track: from here on a cancel reaches this execute.
Track(i) ==
    /\ Serving /\ stage[i] = "read" /\ Kind(i) = "execute"
    /\ IF Conn(i) \in known THEN live' = live \cup {i} /\ Goto(i, "engine")
                            ELSE UNCHANGED live /\ Reply(i, 0)
    /\ UNCHANGED <<hostVars, down, child, known, cancelled, open>>

\* The statement's own timeout: the context is released, which cancels it.
StatementTimeout(i) ==
    /\ Serving /\ stage[i] \in {"engine", "opened"} /\ i \notin cancelled
    /\ live' = live \ {i} /\ cancelled' = cancelled \cup {i}
    /\ UNCHANGED <<hostVars, down, up, child, known, stage, open>>

\* The engine's Execute returns a cursor; or an error, an ack, or a cursor
\* whose context is gone and which is closed again.
Executed(i) ==
    /\ Serving /\ stage[i] = "engine"
    /\ \/ i \notin cancelled /\ Goto(i, "opened") /\ UNCHANGED <<live, cancelled>>
       \/ live' = live \ {i} /\ cancelled' = cancelled \cup {i} /\ Reply(i, 0)
    /\ UNCHANGED <<hostVars, down, child, known, open>>

Register(i) ==
    /\ Serving /\ stage[i] = "opened"
    /\ open' = open \cup {i} /\ Reply(i, i)
    /\ UNCHANGED <<hostVars, down, child, known, live, cancelled>>

\* cursor.mu: a fetch holds it while it is in the engine.
Locked(k) == \E i \in Made : stage[i] = "fetching" /\ Cursor(i) = k

StartFetch(i) ==
    /\ Serving /\ stage[i] = "read" /\ Kind(i) = "fetch" /\ ~Locked(Cursor(i))
    /\ IF Cursor(i) \in open /\ Cursor(i) \notin cancelled
       THEN Goto(i, "fetching") ELSE Reply(i, 0)
    /\ UNCHANGED <<hostVars, down, child, known, live, cancelled, open>>

\* Rows or an error; or the end, which closes the cursor.
Fetched(i) ==
    /\ Serving /\ stage[i] = "fetching" /\ Reply(i, 0)
    /\ \/ UNCHANGED <<live, cancelled, open>>
       \/ /\ open' = open \ {Cursor(i)} /\ live' = live \ {Cursor(i)}
          /\ cancelled' = cancelled \cup {Cursor(i)}
    /\ UNCHANGED <<hostVars, down, child, known>>

\* The cursors a close or a disconnect takes out of the table.
Closing(i) == IF Kind(i) = "disconnect" THEN open \cap Of(Conn(i))
                                        ELSE open \cap {Cursor(i)}

\* Fault: closeCursor takes the cursor's lock before it cancels.
StartCloseLocksFirst(i) ==
    /\ Serving /\ stage[i] = "read" /\ Kind(i) \in {"close", "release", "disconnect"}
    /\ \A k \in Closing(i) : ~Locked(k)
    /\ open' = open \ Closing(i) /\ live' = live \ Closing(i)
    /\ cancelled' = cancelled \cup Closing(i)
    /\ known' = IF Kind(i) = "disconnect" THEN known \ {Conn(i)} ELSE known
    /\ Goto(i, "locking")
    /\ UNCHANGED <<hostVars, down, child>>
\* closeCursor and disconnect: cancel first, so that a fetch in the engine
\* lets go of the lock.
StartClose(i) ==
    /\ Serving /\ stage[i] = "read" /\ Kind(i) \in {"close", "release", "disconnect"}
    /\ open' = open \ Closing(i) /\ live' = live \ Closing(i)
    /\ cancelled' = cancelled \cup Closing(i)
    /\ known' = IF Kind(i) = "disconnect" THEN known \ {Conn(i)} ELSE known
    /\ Goto(i, "locking")
    /\ UNCHANGED <<hostVars, down, child>>
\* Every fetch on these cursors is out of the engine; a disconnect then
\* cancels what its connection still runs.
Closed(i) ==
    /\ Serving /\ stage[i] = "locking"
    /\ \A k \in Made : Locked(k) =>
         IF Kind(i) = "disconnect" THEN Conn(k) # Conn(i) ELSE k # Cursor(i)
    /\ cancelled' = cancelled \cup (IF Kind(i) = "disconnect" THEN live \cap Of(Conn(i)) ELSE {})
    /\ Reply(i, 0)
    /\ UNCHANGED <<hostVars, down, child, known, live, open>>

-----------------------------------------------------------------------------

Caller == \E c \in Conns : Execute(c) \/ Fetch(c) \/ CloseCursor(c) \/ Disconnect(c)
                        \/ CancelConn(c) \/ DropConn(c)
Host == \/ \E i \in Made : Send(i) \/ SendNowhere(i) \/ CloseGraceOver(i)
        \/ \E c \in Conns : Settle(c) \/ GraceOver(c)
        \/ DropProcess \/ DropGraceOver \/ Read \/ ReadEnd \/ Kill \/ Bury
Child == \/ Serve \/ ServeCancel \/ ServeEnd \/ Exit
         \/ \E i \in Made : Track(i) \/ Register(i) \/ StartFetch(i) \/ StartClose(i)
                         \/ Closed(i)
Engine == \E i \in Made : Executed(i) \/ Fetched(i)

Next == Caller \/ Host \/ Child \/ Engine \/ Crash
     \/ \E i \in Made : Abandon(i) \/ StatementTimeout(i)

-----------------------------------------------------------------------------
(* Fairness: the host's tasks run, its timers fire, the child's goroutines *)
(* run, and an engine honours a cancelled context.  Nothing is promised of *)
(* an engine whose context is alive.                                       *)

Stopped(i) == i \in cancelled \/ Cursor(i) \in cancelled
Returns(i) == Stopped(i) /\ (Executed(i) \/ Fetched(i))
Goroutine(i) == Track(i) \/ Register(i) \/ StartFetch(i) \/ StartClose(i)
             \/ Closed(i)

Fairness ==
    /\ \A i \in Ids : /\ WF_vars(i \in Made /\ (Send(i) \/ SendNowhere(i)))
                      /\ WF_vars(i \in Made /\ CloseGraceOver(i))
                      /\ WF_vars(i \in Made /\ Goroutine(i))
                      /\ WF_vars(i \in Made /\ Returns(i))
    /\ \A c \in Conns : WF_vars(Settle(c) \/ GraceOver(c))
    /\ WF_vars(Serve \/ ServeCancel \/ ServeEnd) /\ WF_vars(Exit)
    /\ WF_vars(Read \/ ReadEnd) /\ WF_vars(Kill) /\ WF_vars(Bury)
    /\ WF_vars(DropProcess) /\ WF_vars(DropGraceOver)

Spec == Init /\ [][Next]_vars /\ Fairness

-----------------------------------------------------------------------------
(* Properties.                                                             *)

\* A reply on its way to the host settles a request of the table, and no
\* request is answered twice.
RepliesSettle ==
    ~dead => /\ {up[k].id : k \in DOMAIN up} \cup Handled \cup Queued \subseteq pending
             /\ IsInjective([k \in DOMAIN up |-> up[k].id])
             /\ Answered \cap (Handled \cup Queued) = {} /\ Handled \cap Queued = {}

\* Whoever waits is in the table, and a dead process has an empty table.
NobodyWaitsForTheDead ==
    /\ \A i \in Made : call[i] = "wait" => i \in pending
    /\ dead => pending = {}

\* The table of requests is right on both sides of the pipes: read_replies
\* never takes a correct child for one that breaks the protocol, however many
\* callers have given up; no caller waits for a reply that nobody is going to
\* send; and a cancel that finds its connection settled (an empty table) leaves
\* nothing of it running in a child that lives on.
TableIsTrue == SidecarTypeOK /\ RepliesSettle /\ NobodyWaitsForTheDead

\* A call that waits when its connection is cancelled comes back, even when
\* the child has lost the cancel or is stuck.
CancelEndsTheCall ==
    \A c \in Conns, i \in Ids :
        (canceller[c] = "settling" /\ i \in Made /\ Conn(i) = c /\ call[i] = "wait")
            ~> call[i] # "wait"

\* Cursors that their holders have dropped are closed in the child, though a
\* fetch may hold their lock in the engine.
LetGo == {Cursor(i) : i \in {j \in Made : Kind(j) = "release"}}
LetGoCursorsClose == LetGo \cap open # {} ~> LetGo \cap open = {}

\* When the last connection is let go the child ends, whatever it was doing.
UnheldProcessEnds == held = {} ~> child = "down"

\* serve.go: "Every context a cancel for this conn must reach: in-flight
\* executes and open cursors."  The reader may handle a cancel before the
\* goroutine of an execute it has read has said that it is there.
CancelReachesWhatIsInFlight ==
    [][\A c \in Conns : ServeCancel /\ Head(down) = Cancel(c) /\ c \in known =>
        \A i \in Of(c) : Kind(i) = "execute" /\ stage[i] \in {"read", "engine"} => i \in cancelled']_vars

=============================================================================
