---------------------------- MODULE SessionPool -----------------------------
(***************************************************************************)
(* The connection pool of one session (session.rs) and the timer wheel     *)
(* that closes its idle connections (timer.rs).                            *)
(*                                                                         *)
(* A caller takes a permit, then an idle connection or, if it sees none,   *)
(* dials one.  When it drops its lease the connection goes back: a reap    *)
(* timer is scheduled, the connection is pushed on the idle stack and the  *)
(* permit is returned, in that order and not atomically.                   *)
(*                                                                         *)
(* Timer keys are slots of the wheel's queue (tokio's DelayQueue).  A slot *)
(* is free again as soon as its entry has expired or was removed, while    *)
(* the key may still be remembered elsewhere.                              *)
(***************************************************************************)
EXTENDS Naturals, SequencesExt, FiniteSets

CONSTANTS
    Callers,    \* tasks that use the pool
    MaxSize,    \* PoolPolicy.max_size
    MaxConns,   \* bound: connections dialled in all
    NoConn,     \* no connection, or no timer
    Slots       \* slots of the timer queue

ConnIds == 1 .. MaxConns

ASSUME PoolAssumption ==
    /\ IsFiniteSet(Callers)
    /\ MaxSize \in Nat \ {0} /\ MaxConns \in Nat
    /\ NoConn \notin ConnIds \cup Slots
ASSUME SlotAssumption == IsFiniteSet(Slots) /\ Cardinality(Slots) >= MaxConns

VARIABLES
    pc,         \* where each caller is
    mine,       \* the connection it leases, returns or has just been given
    key,        \* the timer key it has just been given
    free,       \* permits left in the semaphore
    idle,       \* Session.idle, a stack
    dialled,    \* Session.next_id
    timers,     \* the wheel's queue: slot -> connection, or NoConn
    fired,      \* reap events taken off the queue that have not run yet
    poisoned,   \* connections whose poisoned flag is set
    closed,     \* connections whose task has ended, or will before it takes a command
    busy,       \* connections still working on a command nobody waits for
    cancelled   \* Session.cancel

connVars == <<poisoned, closed, busy>>
poolVars == <<pc, mine, key, free, idle, dialled, timers, fired, connVars, cancelled>>

CallerPcs == {"out", "wait", "pick", "dial", "lease", "push", "unpermit"}
IdleConn == [id : ConnIds, reap : Slots]

\* A connection a caller has, whoever else knows of it.
Owns(c) == pc[c] \in {"lease", "push"}

\* Callers between acquire_owned and the drop of their permit.
Holders == {c \in Callers : pc[c] \notin {"out", "wait"}}

\* Connections that have a task: dialled, and not only being dialled.
Spawned == (1 .. dialled) \ {mine[c] : c \in {d \in Callers : pc[d] = "dial"}}

PoolInit ==
    /\ pc = [c \in Callers |-> "out"]
    /\ mine = [c \in Callers |-> NoConn]
    /\ key = [c \in Callers |-> NoConn]
    /\ free = MaxSize
    /\ idle = <<>>
    /\ dialled = 0
    /\ timers = [s \in Slots |-> NoConn]
    /\ fired = {}
    /\ poisoned = {} /\ closed = {} /\ busy = {}
    /\ cancelled = FALSE

Goto(c, l) == pc' = [pc EXCEPT ![c] = l]

\* TimerWheel::cancel removes whatever the slot holds now.
CancelTimer(s) == timers' = [timers EXCEPT ![s] = NoConn]
-----------------------------------------------------------------------------
(* acquire *)

Acquire(c) ==
    /\ pc[c] = "out" /\ ~cancelled
    /\ Goto(c, "wait")
    /\ UNCHANGED <<mine, key, free, idle, dialled, timers, fired, connVars, cancelled>>

\* A biased select!: the session's token, then a permit.
Permit(c) ==
    /\ pc[c] = "wait"
    /\ \/ cancelled /\ Goto(c, "out") /\ UNCHANGED free
       \/ ~cancelled /\ free > 0 /\ Goto(c, "pick") /\ free' = free - 1
    /\ UNCHANGED <<mine, key, idle, dialled, timers, fired, connVars, cancelled>>

\* Fault: a connection poisoned while it was idle is handed out.
TakeIdleBlindly(c) ==
    /\ pc[c] = "pick" /\ idle # <<>>
    /\ CancelTimer(idle[Len(idle)].reap)
    /\ Goto(c, "lease") /\ mine' = [mine EXCEPT ![c] = idle[Len(idle)].id]
    /\ idle' = SubSeq(idle, 1, Len(idle) - 1)
    /\ UNCHANGED <<key, free, dialled, fired, connVars, cancelled>>

\* take_idle: the connection returned last; its timer is cancelled by key.
\* A poisoned one is closed and the search goes on.
TakeIdle(c) ==
    /\ pc[c] = "pick" /\ idle # <<>>
    /\ LET top == idle[Len(idle)]
       IN  /\ CancelTimer(top.reap)
           /\ IF top.id \in poisoned
                THEN closed' = closed \cup {top.id} /\ UNCHANGED <<pc, mine>>
                ELSE Goto(c, "lease") /\ mine' = [mine EXCEPT ![c] = top.id] /\ UNCHANGED closed
    /\ idle' = SubSeq(idle, 1, Len(idle) - 1)
    /\ UNCHANGED <<key, free, dialled, fired, poisoned, busy, cancelled>>

\* Fault: a permit is taken for leave to dial.
DialAnyway(c) ==
    /\ pc[c] = "pick" /\ dialled < MaxConns
    /\ Goto(c, "dial")
    /\ dialled' = dialled + 1
    /\ mine' = [mine EXCEPT ![c] = dialled + 1]
    /\ UNCHANGED <<key, free, idle, timers, fired, connVars, cancelled>>

\* connect: nothing was idle.
Dial(c) ==
    /\ pc[c] = "pick" /\ idle = <<>> /\ dialled < MaxConns
    /\ Goto(c, "dial")
    /\ dialled' = dialled + 1
    /\ mine' = [mine EXCEPT ![c] = dialled + 1]
    /\ UNCHANGED <<key, free, idle, timers, fired, connVars, cancelled>>

\* Fault: a connection that was being dialled survives the shutdown.
DialledForItself(c) ==
    /\ pc[c] = "dial"
    /\ Goto(c, "lease")
    /\ UNCHANGED <<mine, key, free, idle, dialled, timers, fired, connVars, cancelled>>

\* The connection's token is a child of the session's: it is cancelled from the start
\* if the session was shut down after the select! had seen the dial succeed.
Dialled(c) ==
    /\ pc[c] = "dial"
    /\ Goto(c, "lease")
    /\ closed' = closed \cup {i \in {mine[c]} : cancelled}
    /\ UNCHANGED <<mine, key, free, idle, dialled, timers, fired, poisoned, busy, cancelled>>

\* The dial fails, times out or is cancelled.  A dial that is left behind runs
\* on by itself; its connection is dropped unused.
DialFails(c) ==
    /\ pc[c] = "dial"
    /\ Goto(c, "unpermit")
    /\ closed' = closed \cup {mine[c]}
    /\ mine' = [mine EXCEPT ![c] = NoConn]
    /\ UNCHANGED <<key, free, idle, dialled, timers, fired, poisoned, busy, cancelled>>
-----------------------------------------------------------------------------
(* Using a connection: run_connection serves it in a task of its own. *)

\* A command fails fatally, or the driver panics in it: the actor poisons the
\* connection and closes it.
Fatal(i) ==
    /\ poisoned' = poisoned \cup {i}
    /\ closed' = closed \cup {i}

UseFails(c) ==
    /\ pc[c] = "lease" /\ mine[c] \notin closed
    /\ Fatal(mine[c])
    /\ UNCHANGED <<pc, mine, key, free, idle, dialled, timers, fired, busy, cancelled>>

\* The caller is done with a command before the actor is: its task is aborted, or
\* it has the reply, which goes out before the poisoned flag is set.
Abandon(c) ==
    /\ pc[c] = "lease" /\ mine[c] \notin closed
    /\ busy' = busy \cup {mine[c]}
    /\ UNCHANGED <<pc, mine, key, free, idle, dialled, timers, fired, poisoned, closed,
                   cancelled>>

\* ... to the end of the command, for better or worse, closed meanwhile or not.
ActorDone(i) ==
    /\ i \in busy
    /\ busy' = busy \ {i}
    /\ Fatal(i) \/ UNCHANGED <<poisoned, closed>>
    /\ UNCHANGED <<pc, mine, key, free, idle, dialled, timers, fired, cancelled>>
-----------------------------------------------------------------------------
(* Drop of a lease: Session::release, then the permit. *)

Evict(c) ==
    /\ pc[c] = "lease" /\ (mine[c] \in poisoned \/ cancelled)
    /\ closed' = closed \cup {mine[c]}
    /\ mine' = [mine EXCEPT ![c] = NoConn]
    /\ Goto(c, "unpermit")
    /\ UNCHANGED <<key, free, idle, dialled, timers, fired, poisoned, busy, cancelled>>

\* The timer is scheduled first ...
Schedule(c) ==
    /\ pc[c] = "lease" /\ mine[c] \notin poisoned /\ ~cancelled
    /\ \E s \in Slots :
        /\ timers[s] = NoConn
        /\ timers' = [timers EXCEPT ![s] = mine[c]]
        /\ key' = [key EXCEPT ![c] = s]
    /\ Goto(c, "push")
    /\ UNCHANGED <<mine, free, idle, dialled, fired, connVars, cancelled>>

\* ... then the connection becomes visible ...
Push(c) ==
    /\ pc[c] = "push"
    /\ idle' = Append(idle, [id |-> mine[c], reap |-> key[c]])
    /\ mine' = [mine EXCEPT ![c] = NoConn]
    /\ key' = [key EXCEPT ![c] = NoConn]
    /\ Goto(c, "unpermit")
    /\ UNCHANGED <<free, dialled, timers, fired, connVars, cancelled>>

\* ... and last the permit goes back.
Unpermit(c) ==
    /\ pc[c] = "unpermit"
    /\ free' = free + 1
    /\ Goto(c, "out")
    /\ UNCHANGED <<mine, key, idle, dialled, timers, fired, connVars, cancelled>>
-----------------------------------------------------------------------------
(* The timer wheel's worker. *)

\* An entry expires: the slot is free before the event runs.
Expire(s) ==
    /\ timers[s] # NoConn
    /\ fired' = fired \cup {timers[s]}
    /\ CancelTimer(s)
    /\ UNCHANGED <<pc, mine, key, free, idle, dialled, connVars, cancelled>>

\* Session::reap: by then the connection may be leased, or idle once more.
Reap(i) ==
    /\ i \in fired
    /\ fired' = fired \ {i}
    /\ \/ \E k \in DOMAIN idle :
            /\ idle[k].id = i /\ \A l \in 1 .. k - 1 : idle[l].id # i
            /\ idle' = RemoveAt(idle, k) /\ closed' = closed \cup {i}
       \/ (\A k \in DOMAIN idle : idle[k].id # i) /\ UNCHANGED <<idle, closed>>
    /\ UNCHANGED <<pc, mine, key, free, dialled, timers, poisoned, busy, cancelled>>
-----------------------------------------------------------------------------
(* shutdown: the token and the semaphore, then what is idle. *)

\* Every connection's task ends by its child of the token, leased or idle; who is about
\* to take an idle one still finds it.
Shutdown ==
    /\ ~cancelled
    /\ cancelled' = TRUE
    /\ closed' = closed \cup Spawned
    /\ UNCHANGED <<pc, mine, key, free, idle, dialled, timers, fired, poisoned, busy>>

Drain ==
    /\ cancelled /\ idle # <<>>
    /\ timers' = [s \in Slots |->
                    IF \E k \in DOMAIN idle : idle[k].reap = s THEN NoConn ELSE timers[s]]
    /\ closed' = closed \cup {idle[k].id : k \in DOMAIN idle}
    /\ idle' = <<>>
    /\ UNCHANGED <<pc, mine, key, free, dialled, fired, poisoned, busy, cancelled>>

PoolNext ==
    \/ \E c \in Callers :
        \/ Acquire(c) \/ Permit(c) \/ TakeIdle(c) \/ Dial(c) \/ Dialled(c) \/ DialFails(c)
        \/ UseFails(c) \/ Abandon(c)
        \/ Evict(c) \/ Schedule(c) \/ Push(c) \/ Unpermit(c)
    \/ \E i \in ConnIds : ActorDone(i) \/ Reap(i)
    \/ \E s \in Slots : Expire(s)
    \/ Shutdown \/ Drain

PoolSpec == PoolInit /\ [][PoolNext]_poolVars
-----------------------------------------------------------------------------
PoolTypeOK ==
    /\ pc \in [Callers -> CallerPcs]
    /\ mine \in [Callers -> ConnIds \cup {NoConn}]
    /\ key \in [Callers -> Slots \cup {NoConn}]
    /\ free \in 0 .. MaxSize
    /\ idle \in Seq(IdleConn)
    /\ dialled \in 0 .. MaxConns
    /\ timers \in [Slots -> ConnIds \cup {NoConn}]
    /\ fired \subseteq ConnIds
    /\ poisoned \subseteq ConnIds /\ closed \subseteq ConnIds
    /\ busy \subseteq ConnIds
    /\ cancelled \in BOOLEAN

\* The pool never has more connections (idle, leased or being dialled) than
\* max_size, although a permit covers only the leased ones: a caller dials
\* only after it has seen nothing idle.  No permit is lost or returned twice.
PoolBounded ==
    /\ Len(idle) + Cardinality({c \in Callers : pc[c] \in {"dial", "lease", "push"}}) <= MaxSize
    /\ free + Cardinality(Holders) = MaxSize

\* A connection has one owner at most, and an owned one is not idle.
OneOwner ==
    /\ \A c, d \in Callers : Owns(c) /\ Owns(d) /\ mine[c] = mine[d] => c = d
    /\ \A k, l \in DOMAIN idle : idle[k].id = idle[l].id => k = l
    /\ \A c \in Callers, k \in DOMAIN idle : Owns(c) => mine[c] # idle[k].id

\* A reap event that comes late closes a connection only while it is idle: a leased one
\* is closed under its user by its own failure or with the whole session, and by
\* nothing else.
ReapSparesLeased ==
    \A c \in Callers :
        pc[c] = "lease" /\ mine[c] \in closed => mine[c] \in poisoned \/ cancelled

\* A session that is shut down leaves no connection open, leased or idle, nor one that
\* was being dialled or put back meanwhile (the test at session.rs:948 has one lease).
NoneOutlivesSession == cancelled => Spawned \subseteq closed

\* All of it: a connection has one owner in a bounded pool until it fails, and ends with
\* its session at the latest.
PoolIsExclusive == PoolBounded /\ OneOwner /\ ReapSparesLeased /\ NoneOutlivesSession

\* A caller is never given a connection known to be poisoned, nor one that is closed,
\* unless its session has been shut down between its permit and its lease.
HandsOutUsable ==
    [][\A c \in Callers :
        pc[c] \in {"pick", "dial"} /\ pc'[c] = "lease" =>
            /\ mine'[c] \notin poisoned
            /\ mine'[c] \in closed' => cancelled]_poolVars

PoolLeases == INSTANCE Leases WITH
    Users   <- Callers,
    Conns   <- ConnIds,
    Nothing <- NoConn,
    MaxOpen <- MaxSize,
    holds   <- [c \in Callers |-> IF pc[c] \in {"dial", "lease", "push"} THEN mine[c] ELSE NoConn],
    idle    <- {idle[k].id : k \in DOMAIN idle},
    opened  <- 1 .. dialled

\* To its callers the pool is one where taking a connection and giving it back are single
\* steps, and there is no reaper but for idle ones: permits, timer keys that are used
\* again and reap events that come late do not show.
PoolImplementsLeases == PoolLeases!LeaseSpec

=============================================================================
