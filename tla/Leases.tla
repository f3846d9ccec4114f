------------------------------- MODULE Leases -------------------------------
(***************************************************************************)
(* What the pool of a session promises whoever leases connections: one is  *)
(* idle or has one user, there are never more than so many, and one that   *)
(* was given up does not come back.                                        *)
(*                                                                         *)
(* SessionPool.tla implements this module with its permits and its timers; *)
(* QueryMgr.tla, which is built on a pool, uses it in the same way.        *)
(***************************************************************************)
EXTENDS Naturals, FiniteSets

CONSTANTS
    Users,      \* whoever may lease a connection
    Conns,      \* connections there may ever be
    Nothing,    \* what a user without one holds
    MaxOpen     \* how many there may be at a time

VARIABLES
    holds,      \* the connection of each user, from its dial until it is given back
    idle,       \* connections nobody holds
    opened      \* connections there have been

leaseVars == <<holds, idle, opened>>

Held == {holds[u] : u \in Users} \ {Nothing}

LeaseInit ==
    /\ holds = [u \in Users |-> Nothing]
    /\ idle \in SUBSET Conns /\ Cardinality(idle) <= MaxOpen
    /\ opened = idle

Open(u) ==
    /\ holds[u] = Nothing /\ Cardinality(Held \cup idle) < MaxOpen
    /\ \E c \in Conns \ opened :
        /\ holds' = [holds EXCEPT ![u] = c]
        /\ opened' = opened \cup {c}
    /\ UNCHANGED idle

Take(u) ==
    /\ holds[u] = Nothing
    /\ \E c \in idle :
        /\ holds' = [holds EXCEPT ![u] = c]
        /\ idle' = idle \ {c}
    /\ UNCHANGED opened

GiveBack(u) ==
    /\ holds[u] # Nothing
    /\ idle' = idle \cup {holds[u]}
    /\ holds' = [holds EXCEPT ![u] = Nothing]
    /\ UNCHANGED opened

\* It is closed, and nobody gets it any more.
GiveUp(u) ==
    /\ holds[u] # Nothing
    /\ holds' = [holds EXCEPT ![u] = Nothing]
    /\ UNCHANGED <<idle, opened>>

Reap ==
    /\ \E gone \in SUBSET idle : idle' = idle \ gone
    /\ UNCHANGED <<holds, opened>>

LeaseNext == Reap \/ \E u \in Users : Open(u) \/ Take(u) \/ GiveBack(u) \/ GiveUp(u)
LeaseSpec == LeaseInit /\ [][LeaseNext]_leaseVars
=============================================================================
