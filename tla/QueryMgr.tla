------------------------------ MODULE QueryMgr ------------------------------
(***************************************************************************)
(* The life of queries on a few pooled connections (query.rs).             *)
(*                                                                         *)
(* run() leases a connection, starts the query's stream and hands the      *)
(* lease to a supervisor task, which turns the stream's phases into events *)
(* and gives the lease back when the phase is terminal.  cancel() stops    *)
(* the stream at once and asks the server, in a task of its own, to kill   *)
(* what runs on the connection.  close() forgets the query, stops it and   *)
(* aborts its supervisor.                                                  *)
(*                                                                         *)
(* The streams are those of ResultStream.                                  *)
(***************************************************************************)
EXTENDS ResultStream, FiniteSets

CONSTANTS
    Conns,      \* connections of the pool
    NoConn,     \* a query that has not run yet
    MaxCancels  \* bound: how often one query is cancelled

ASSUME ConnAssumption == IsFiniteSet(Conns) /\ NoConn \notin Conns /\ MaxCancels \in Nat

VARIABLES
    conn,       \* the connection a query runs on; its canceller refers to it for good
    lease,      \* whether the query's supervisor holds the ConnLease
    idle,       \* connections in the pool
    sup,        \* where the supervisor is
    registered, \* QueryMgr.queries
    told,       \* events sent about the query
    asking,     \* server-side cancels under way for the query
    asked,      \* how many there have been
    victims     \* history: <<p, q>>: the cancel for p killed q's statement

mgrVars == <<conn, lease, idle, sup, registered, told, asking, asked, victims>>
vars == <<streamVars, mgrVars>>

\* The events that begin and end a query.  FirstBatch, Progress and Parked repeat
\* what the stream's state says; CancelOutcome is `asking' going down.
Events == {"Accepted", "Capped", "Done", "Failed"}

Init ==
    /\ StreamInit
    /\ phase = [q \in Queries |-> "None"]
    /\ conn = [q \in Queries |-> NoConn]
    /\ lease = [q \in Queries |-> FALSE]
    /\ idle = Conns
    /\ sup = [q \in Queries |-> "none"]
    /\ registered = [q \in Queries |-> FALSE]
    /\ told = [q \in Queries |-> {}]
    /\ asking = [q \in Queries |-> 0]
    /\ asked = [q \in Queries |-> 0]
    /\ victims = {}

Tell(q, es) == told' = [told EXCEPT ![q] = @ \cup es]
-----------------------------------------------------------------------------
\* run, up to spawning the supervisor: everything starts before the query is registered.
Run(q) ==
    /\ Start(q)
    /\ \E c \in idle : conn' = [conn EXCEPT ![q] = c] /\ idle' = idle \ {c}
    /\ lease' = [lease EXCEPT ![q] = TRUE]
    /\ sup' = [sup EXCEPT ![q] = "watch"]
    /\ UNCHANGED <<registered, told, asking, asked, victims>>

\* run, the rest: the query can be found, and Accepted is sent.
Register(q) ==
    /\ phase[q] # "None" /\ "Accepted" \notin told[q]
    /\ registered' = [registered EXCEPT ![q] = TRUE]
    /\ Tell(q, {"Accepted"})
    /\ UNCHANGED <<streamVars, conn, lease, idle, sup, asking, asked, victims>>

\* cancel: the local half at once, the server half in a task of its own.  It
\* does not ask whether the query still runs.
CancelQuery(q) ==
    /\ registered[q] /\ asked[q] < MaxCancels
    /\ Cancel(q)
    /\ asking' = [asking EXCEPT ![q] = @ + 1]
    /\ asked' = [asked EXCEPT ![q] = @ + 1]
    /\ UNCHANGED <<conn, lease, idle, sup, registered, told, victims>>

\* The statements a driver kills that is asked to cancel on connection c.
RunningOn(c) == {p \in Queries : conn[p] = c /\ feeding[p]}

\* The canceller's request reaches the server, or fails or times out; either
\* way CancelOutcome is sent.
ServerCancel(q) ==
    /\ asking[q] > 0
    /\ asking' = [asking EXCEPT ![q] = @ - 1]
    /\ \/ victims' = victims \cup ({q} \X RunningOn(conn[q]))
       \/ UNCHANGED victims
    /\ UNCHANGED <<streamVars, conn, lease, idle, sup, registered, told, asked>>

\* Fault: the aborted supervisor does not give its lease back.
CloseLeaksLease(q) ==
    /\ registered[q]
    /\ registered' = [registered EXCEPT ![q] = FALSE]
    /\ Cancel(q)
    /\ sup' = [sup EXCEPT ![q] = IF @ = "watch" THEN "ended" ELSE @]
    /\ UNCHANGED <<conn, lease, idle, told, asking, asked, victims>>

\* close, or one round of shutdown: stop the query and abort its supervisor,
\* which takes effect where it awaits the next state.
CloseQuery(q) ==
    /\ registered[q]
    /\ registered' = [registered EXCEPT ![q] = FALSE]
    /\ Cancel(q)
    /\ sup' = [sup EXCEPT ![q] = IF @ = "watch" THEN "release" ELSE @]
    /\ UNCHANGED <<conn, lease, idle, told, asking, asked, victims>>

\* The connection's token, of which the query's is a child, is cancelled: the
\* session is disconnected or shut down.
Disconnect(q) == Cancel(q) /\ UNCHANGED mgrVars
-----------------------------------------------------------------------------
\* Fault: a capped query is not announced as done.
LastWordsCapOnly(p) == CASE p = "Capped"    -> {"Capped"}
                         [] p = "Complete"  -> {"Done"}
                         [] p = "Failed"    -> {"Failed"}
                         [] p = "Cancelled" -> {}

\* emit_terminal
LastWords(p) == CASE p = "Capped"    -> {"Capped", "Done"}
                  [] p = "Complete"  -> {"Done"}
                  [] p = "Failed"    -> {"Failed"}
                  [] p = "Cancelled" -> {}

\* The turn of supervise that sees a terminal phase says so and leaves the loop.
Supervise(q) ==
    /\ sup[q] = "watch" /\ phase[q] \in Ended
    /\ Tell(q, LastWords(phase[q]))
    /\ sup' = [sup EXCEPT ![q] = "release"]
    /\ UNCHANGED <<streamVars, conn, lease, idle, registered, asking, asked, victims>>

\* Fault: the connection is returned again and again.
ReleaseAgain(q) ==
    /\ sup[q] = "release"
    /\ lease' = [lease EXCEPT ![q] = FALSE]
    /\ idle' = idle \cup {conn[q]}
    /\ UNCHANGED <<streamVars, conn, sup, registered, told, asking, asked, victims>>

\* The lease is dropped: the connection is idle again.
Release(q) ==
    /\ sup[q] = "release"
    /\ sup' = [sup EXCEPT ![q] = "ended"]
    /\ lease' = [lease EXCEPT ![q] = FALSE]
    /\ idle' = idle \cup {conn[q]}
    /\ UNCHANGED <<streamVars, conn, registered, told, asking, asked, victims>>

\* Everything the streams do by themselves.
StreamRuns(q) ==
    /\ \/ Load(q) \/ ParkOrResume(q) \/ LetGo(q)
       \/ \E p \in Ended : End(q, p)
    /\ UNCHANGED mgrVars

\* A stopped stream ends both its tasks (Pipeline!StopTakesEffect).
StopsWhenCancelled(q) ==
    /\ cancelled[q]
    /\ LetGo(q) \/ End(q, "Cancelled")
    /\ UNCHANGED mgrVars

Next == \E q \in Queries :
    \/ Run(q) \/ Register(q) \/ CancelQuery(q) \/ ServerCancel(q) \/ CloseQuery(q)
    \/ Disconnect(q)
    \/ Supervise(q) \/ Release(q) \/ StreamRuns(q)

Spec == Init /\ [][Next]_vars

\* The tasks of the query manager are scheduled, the server half of a cancel
\* has a timeout, and a stopped stream ends.
FairSpec ==
    /\ Spec
    /\ \A q \in Queries :
        /\ WF_vars(Register(q)) /\ WF_vars(Supervise(q)) /\ WF_vars(Release(q))
        /\ WF_vars(ServerCancel(q)) /\ WF_vars(StopsWhenCancelled(q))
-----------------------------------------------------------------------------
MgrTypeOK ==
    /\ StreamTypeOK
    /\ conn \in [Queries -> Conns \cup {NoConn}]
    /\ lease \in [Queries -> BOOLEAN]
    /\ idle \subseteq Conns
    /\ sup \in [Queries -> {"none", "watch", "release", "ended"}]
    /\ registered \in [Queries -> BOOLEAN]
    /\ told \in [Queries -> SUBSET Events]
    /\ asking \in [Queries -> 0 .. MaxCancels]
    /\ asked \in [Queries -> 0 .. MaxCancels]
    /\ victims \subseteq Queries \X Queries

\* Types, and a connection is idle or leased by one query: whatever the order of a query's
\* end, its cancel and its close, the lease goes back exactly once.
OneOwner ==
    /\ MgrTypeOK
    /\ \A q \in Queries : lease[q] => conn[q] \in Conns \ idle
    /\ \A p, q \in Queries : lease[p] /\ lease[q] /\ conn[p] = conn[q] => p = q
    /\ \A c \in Conns \ idle : \E q \in Queries : lease[q] /\ conn[q] = c

MgrLeases == INSTANCE Leases WITH
    Users   <- Queries,
    Nothing <- NoConn,
    MaxOpen <- Cardinality(Conns),
    holds   <- [q \in Queries |-> IF lease[q] THEN conn[q] ELSE NoConn],
    opened  <- Conns

\* The query manager uses the pool the way SessionPool lets it be used: a query takes a
\* connection when it has none and gives it back once, while it still has it.
MgrImplementsLeases == MgrLeases!LeaseSpec

\* A query that ended by itself gives its connection back only when its
\* feeder has let go of it.
QuietEndFreesTheSocket ==
    \A q \in Queries : sup[q] = "ended" /\ ~cancelled[q] => ~feeding[q]

\* What the events say last is how the result ended.
EventsTellThePhase ==
    \A q \in Queries :
        /\ "Done" \in told[q]   => phase[q] \in {"Complete", "Capped"}
        /\ "Capped" \in told[q] => phase[q] = "Capped" /\ "Done" \in told[q]
        /\ "Failed" \in told[q] => phase[q] = "Failed"

\* A query that ended by itself has let go before its connection goes back, and
\* what was said of its end is so.
QuietEndIsHonest == QuietEndFreesTheSocket /\ EventsTellThePhase

\* Unless it is closed before, a query that ends by itself is announced.
EndIsAnnounced ==
    \A q \in Queries :
        phase[q] \in {"Complete", "Capped", "Failed"} ~>
            \/ told[q] \cap {"Done", "Failed"} # {}
            \/ "Accepted" \in told[q] /\ ~registered[q]

\* A query that is cancelled or closed always gives its connection back, and
\* every cancel is answered.
StoppedQueryLetsGo ==
    \A q \in Queries : cancelled[q] ~> ~lease[q] /\ ~feeding[q] /\ asking[q] = 0

\* query.rs:358 says of the place where the lease is dropped: "The socket is
\* only free once nothing can still pull on it."
SocketFreeMeansNobodyPulls ==
    \A q \in Queries : conn[q] \in idle => ~feeding[q]

\* query.rs:81 reports of a cancelled query "stopped; the server confirmed it
\* killed the query": the cancel kills that query and no other.
CancelKillsOnlyItsOwn == \A pair \in victims : pair[1] = pair[2]
=============================================================================
