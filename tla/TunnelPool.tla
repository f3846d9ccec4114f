----------------------------- MODULE TunnelPool -----------------------------
(***************************************************************************)
(* The pool of shared SSH sessions (tunnel/pool.rs), for one key of host,  *)
(* port and user; keys do not touch each other.                            *)
(*                                                                         *)
(* A Checkout is a handle; all handles of an entry share its counters.     *)
(* The handle that brings `refs' to zero leaves a timer behind, which      *)
(* takes the entry out of the map after IDLE_GRACE unless it was checked   *)
(* out again.  A handle here is one Checkout with its timer, used once; a  *)
(* tunnel and its counters are named after the handle that connected it.   *)
(*                                                                         *)
(* checkout does its two increments under the map's lock.  clone does them *)
(* without, but while the handle it copies keeps refs above zero, so that  *)
(* nobody can tell them apart.                                             *)
(***************************************************************************)
EXTENDS Integers

CONSTANT Handles

ASSUME HandlesAreNumbers == Handles \subseteq Nat \ {0}

NoTunnel == 0

VARIABLES
    pooled,      \* the entry of the key, NoTunnel if there is none
    refs,        \* Entry.refs of each tunnel
    generation,  \* Entry.generation of each tunnel
    handle,      \* where each handle is
    tunnel,      \* the tunnel a handle holds or held
    expected     \* expected_generation of its timer

tunnelVars == <<pooled, refs, generation, handle, tunnel, expected>>

TunnelInit ==
    /\ pooled = NoTunnel
    /\ refs = [t \in Handles |-> 0]
    /\ generation = [t \in Handles |-> 0]
    /\ handle = [h \in Handles |-> "unborn"]
    /\ tunnel = [h \in Handles |-> NoTunnel]
    /\ expected = [h \in Handles |-> 0]

----------------------------------------------------------------------------
Holds(h) == handle[h] = "held"

\* One more handle on the tunnel in the pool.
Join(h) ==
    /\ refs' = [refs EXCEPT ![pooled] = @ + 1]
    /\ generation' = [generation EXCEPT ![pooled] = @ + 1]
    /\ handle' = [handle EXCEPT ![h] = "held"]
    /\ tunnel' = [tunnel EXCEPT ![h] = pooled]
    /\ UNCHANGED <<pooled, expected>>

Checkout(h) ==
    /\ handle[h] = "unborn"
    /\ \/ pooled # NoTunnel /\ Join(h)
       \/ /\ pooled = NoTunnel
          /\ handle' = [handle EXCEPT ![h] = "connecting"]
          /\ UNCHANGED <<pooled, refs, generation, tunnel, expected>>

\* SshTunnel::connect runs without the lock, and may fail.
Connect(h) ==
    /\ handle[h] = "connecting"
    /\ handle' \in {[handle EXCEPT ![h] = "connected"], [handle EXCEPT ![h] = "done"]}
    /\ UNCHANGED <<pooled, refs, generation, tunnel, expected>>

\* Whoever connects second uses the first one's tunnel and lets its own go.
Insert(h) ==
    /\ handle[h] = "connected"
    /\ \/ pooled # NoTunnel /\ Join(h)
       \/ /\ pooled = NoTunnel
          /\ pooled' = h
          /\ refs' = [refs EXCEPT ![h] = 1]
          /\ handle' = [handle EXCEPT ![h] = "held"]
          /\ tunnel' = [tunnel EXCEPT ![h] = h]
          /\ UNCHANGED <<generation, expected>>

\* Checkout::clone
Clone(h, c) ==
    /\ Holds(h) /\ handle[c] = "unborn"
    /\ refs' = [refs EXCEPT ![tunnel[h]] = @ + 1]
    /\ generation' = [generation EXCEPT ![tunnel[h]] = @ + 1]
    /\ handle' = [handle EXCEPT ![c] = "held"]
    /\ tunnel' = [tunnel EXCEPT ![c] = tunnel[h]]
    /\ UNCHANGED <<pooled, expected>>

----------------------------------------------------------------------------
\* Checkout::drop.  The last one still has to look at the generation.
Drop(h) ==
    /\ Holds(h)
    /\ refs' = [refs EXCEPT ![tunnel[h]] = @ - 1]
    /\ handle' = [handle EXCEPT ![h] = IF refs'[tunnel[h]] = 0 THEN "last" ELSE "done"]
    /\ UNCHANGED <<pooled, generation, tunnel, expected>>

StartTimer(h) ==
    /\ handle[h] = "last"
    /\ expected' = [expected EXCEPT ![h] = generation[tunnel[h]]]
    /\ handle' = [handle EXCEPT ![h] = "asleep"]
    /\ UNCHANGED <<pooled, refs, generation, tunnel>>

\* IDLE_GRACE is over: the timer looks at the counters without the lock.
Wake(h) ==
    /\ handle[h] = "asleep"
    /\ handle' = [handle EXCEPT ![h] =
           IF refs[tunnel[h]] = 0 /\ generation[tunnel[h]] = expected[h] THEN "awake" ELSE "done"]
    /\ UNCHANGED <<pooled, refs, generation, tunnel, expected>>

\* Fault: the counters are not looked at again under the lock.
RemoveEntryAnyway(h) ==
    /\ handle[h] = "awake"
    /\ pooled' = NoTunnel
    /\ handle' = [handle EXCEPT ![h] = "done"]
    /\ UNCHANGED <<refs, generation, tunnel, expected>>

\* Under the lock it looks again, at whatever entry the key has by now.
RemoveEntry(h) ==
    /\ handle[h] = "awake"
    /\ handle' = [handle EXCEPT ![h] = "done"]
    /\ pooled' = IF pooled # NoTunnel /\ refs[pooled] = 0 /\ generation[pooled] = expected[h]
                 THEN NoTunnel ELSE pooled
    /\ UNCHANGED <<refs, generation, tunnel, expected>>

Timer(h) == StartTimer(h) \/ Wake(h) \/ RemoveEntry(h)

TunnelNext ==
    \E h \in Handles :
        \/ Checkout(h) \/ Connect(h) \/ Insert(h) \/ Drop(h) \/ Timer(h)
        \/ \E c \in Handles : Clone(h, c)

TunnelSpec == TunnelInit /\ [][TunnelNext]_tunnelVars

----------------------------------------------------------------------------
HandlePlaces == {"unborn", "connecting", "connected", "held", "last", "asleep", "awake", "done"}

\* Types: the counters never go below zero.
TunnelTypeOK ==
    /\ pooled \in Handles \cup {NoTunnel}
    /\ refs \in [Handles -> Nat] /\ generation \in [Handles -> Nat]
    /\ handle \in [Handles -> HandlePlaces]
    /\ tunnel \in [Handles -> Handles \cup {NoTunnel}]
    /\ expected \in [Handles -> Nat]

\* Whoever holds a checkout holds the tunnel that is in the pool: all share one, and
\* no timer of an earlier idle time takes it away (pool.rs:178).
HeldTunnelIsPooled == \A h \in Handles : Holds(h) => tunnel[h] = pooled
=============================================================================
