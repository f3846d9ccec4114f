------------------------------ MODULE Profiles ------------------------------
(***************************************************************************)
(* How the desktop core gets from the name of a saved profile to a session *)
(* (ffi/core.rs, core/api.rs, SessionRegistry), what an edit of the        *)
(* profile does to what is open (forget_profile), and the SSH forward that *)
(* a profile behind a tunnel is reached through (ffi/ssh.rs).              *)
(*                                                                         *)
(* There is one profile, behind a tunnel and marked read-only; an edit     *)
(* makes a new version of it.  Several threads of the user interface open  *)
(* it and run requests while it is edited.                                 *)
(***************************************************************************)
EXTENDS Integers, FiniteSets

CONSTANTS
    Openers,   \* threads that ask for the profile
    MaxOpens,  \* bound: requests of one thread
    MaxEdits   \* bound: edits of the profile

ASSUME ProfilesBounds == IsFiniteSet(Openers) /\ MaxOpens \in Nat \ {0} /\ MaxEdits \in Nat

\* ProfileIds.  0 is none; every open makes at most one.
ProfileIds == 1 .. MaxOpens * Cardinality(Openers)
Versions == 1 .. MaxEdits + 1

VARIABLES
    saved,       \* the version in the profile store
    acked,       \* the version of the last edit that has returned
    editing,     \* where the edit is
    forgotten,   \* the id that forget_profile took out of `registered'
    registered,  \* CoreInner.registered
    version,     \* CoreApi.profiles: the version an id was made from, 0 if there is none
    session,     \* SessionRegistry.sessions: how often a session was opened under the id
    open,        \* the ids that have a session now
    forward,     \* the LocalForward an id's configuration points at
    closing,     \* the spawned task that disconnects an id: where it is
    badge,       \* CoreInner.enforcement: the id whose Server answer is recorded, 0 for Client or none
    opener,      \* the threads
    overlapped,  \* history: an edit met something that was being opened or running
    outdated,    \* history: a request asked for after an edit ran with the version before it
    strayed      \* history: a connection was dialled after its forward had gone

profilesVars == <<saved, acked, editing, forgotten, registered, version, session, open,
                  forward, closing, badge, opener, overlapped, outdated, strayed>>

\* A thread: where it is, the profile it read, the id and session it has, and the
\* version that had to be in force when it began.
Resting == [at |-> "rest", seen |-> 1, id |-> 0, nth |-> 0, since |-> 1, asks |-> 0]

ProfilesInit ==
    /\ saved = 1 /\ acked = 1 /\ editing = "no" /\ forgotten = 0
    /\ registered = 0
    /\ version = [i \in ProfileIds |-> 0]
    /\ session = [i \in ProfileIds |-> 0]
    /\ open = {}
    /\ forward = [i \in ProfileIds |-> "none"]
    /\ closing = [i \in ProfileIds |-> "no"]
    /\ badge = 0
    /\ opener = [t \in Openers |-> Resting]
    /\ overlapped = FALSE /\ outdated = FALSE /\ strayed = FALSE

----------------------------------------------------------------------------
(* open_profile *)

ThreadAt(t, at) == opener' = [opener EXCEPT ![t].at = at]
ThreadEnds(t) == opener' = [opener EXCEPT ![t] = [Resting EXCEPT !.asks = opener[t].asks]]

\* saved_profile reads the store.
ReadSaved(t) ==
    /\ opener[t].at = "rest" /\ opener[t].asks < MaxOpens
    /\ opener' = [opener EXCEPT ![t] = [at |-> "read", seen |-> saved, id |-> 0, nth |-> 0,
                                        since |-> acked, asks |-> opener[t].asks + 1]]
    /\ UNCHANGED <<saved, acked, editing, forgotten, registered, version, session, open, forward,
                   closing, badge, overlapped, outdated, strayed>>

LookUp(t) ==
    /\ opener[t].at = "read"
    /\ opener' = [opener EXCEPT ![t].at = IF registered = 0 THEN "missed" ELSE "opened",
                                ![t].id = registered]
    /\ UNCHANGED <<saved, acked, editing, forgotten, registered, version, session, open, forward,
                   closing, badge, overlapped, outdated, strayed>>

\* The secret, then the tunnel: route starts a forward for the version that was read.
Route(t) ==
    /\ opener[t].at = "missed"
    /\ ThreadAt(t, "routed") \/ ThreadEnds(t)
    /\ UNCHANGED <<saved, acked, editing, forgotten, registered, version, session, open, forward,
                   closing, badge, overlapped, outdated, strayed>>

AddProfile(t) ==
    /\ opener[t].at = "routed"
    /\ \E i \in ProfileIds :
         /\ version[i] = 0 /\ \A j \in ProfileIds : j < i => version[j] # 0
         /\ version' = [version EXCEPT ![i] = opener[t].seen]
         /\ forward' = [forward EXCEPT ![i] = "in_hand"]
         /\ opener' = [opener EXCEPT ![t].at = "added", ![t].id = i]
    /\ UNCHANGED <<saved, acked, editing, forgotten, registered, session, open,
                   closing, badge, overlapped, outdated, strayed>>

\* Fault: the later of two openers wins.
RegisterOver(t) ==
    /\ opener[t].at = "added"
    /\ registered' = opener[t].id
    /\ ThreadAt(t, "won")
    /\ UNCHANGED <<saved, acked, editing, forgotten, version, session, open, forward,
                   closing, badge, overlapped, outdated, strayed>>

\* The first to register wins; the forward of the other one is dropped.
Register(t) ==
    /\ opener[t].at = "added"
    /\ IF registered = 0
       THEN registered' = opener[t].id /\ ThreadAt(t, "won") /\ UNCHANGED forward
       ELSE /\ opener' = [opener EXCEPT ![t].at = "opened", ![t].id = registered]
            /\ forward' = [forward EXCEPT ![opener[t].id] = "dropped"]
            /\ UNCHANGED registered
    /\ UNCHANGED <<saved, acked, editing, forgotten, version, session, open,
                   closing, badge, overlapped, outdated, strayed>>

KeepForward(t) ==
    /\ opener[t].at = "won"
    /\ forward' = [forward EXCEPT ![opener[t].id] = "kept"]
    /\ ThreadAt(t, "opened")
    /\ UNCHANGED <<saved, acked, editing, forgotten, registered, version, session, open,
                   closing, badge, overlapped, outdated, strayed>>

----------------------------------------------------------------------------
(* run_request *)

\* api.session opens a session under the id unless there is one.
GetSession(t) ==
    /\ opener[t].at = "opened"
    /\ LET i == opener[t].id IN
         /\ open' = open \cup {i}
         /\ session' = IF i \in open THEN session ELSE [session EXCEPT ![i] = @ + 1]
         /\ opener' = [opener EXCEPT ![t].at = "session", ![t].nth = session'[i]]
    /\ UNCHANGED <<saved, acked, editing, forgotten, registered, version, forward,
                   closing, badge, overlapped, outdated, strayed>>

\* The session this thread holds has not been shut down.
Whole(t) == opener[t].id \in open /\ session[opener[t].id] = opener[t].nth
Reachable(i) == forward[i] \in {"in_hand", "kept", "leaving"}

\* acquire dials through the forward.  A port nobody listens on any more refuses, or
\* belongs to another forward by now.
DialSession(t) ==
    /\ opener[t].at = "session"
    /\ IF Whole(t) /\ Reachable(opener[t].id)
       THEN ThreadAt(t, "leased") \/ ThreadEnds(t)
       ELSE ThreadEnds(t)
    /\ strayed' = (strayed \/ (Whole(t) /\ ~Reachable(opener[t].id)))
    /\ UNCHANGED <<saved, acked, editing, forgotten, registered, version, session, open, forward,
                   closing, badge, overlapped, outdated>>

\* set_read_only on this very socket; the answer is written down by name.
ReadOnly(t) ==
    /\ opener[t].at = "leased"
    /\ \/ Whole(t) /\ ThreadAt(t, "server")
       \/ ThreadAt(t, "client")
    /\ UNCHANGED <<saved, acked, editing, forgotten, registered, version, session, open, forward,
                   closing, badge, overlapped, outdated, strayed>>

Record(t) ==
    /\ opener[t].at \in {"server", "client"}
    /\ badge' = IF opener[t].at = "server" THEN opener[t].id ELSE 0
    /\ ThreadAt(t, "query")
    /\ UNCHANGED <<saved, acked, editing, forgotten, registered, version, session, open, forward,
                   closing, overlapped, outdated, strayed>>

Query(t) ==
    /\ opener[t].at = "query"
    /\ outdated' = (outdated \/ version[opener[t].id] < opener[t].since)
    /\ ThreadEnds(t)
    /\ UNCHANGED <<saved, acked, editing, forgotten, registered, version, session, open, forward,
                   closing, badge, overlapped, strayed>>

----------------------------------------------------------------------------
(* update_profile and forget_profile *)

Save ==
    /\ editing = "no" /\ saved <= MaxEdits
    /\ saved' = saved + 1
    /\ editing' = "saved"
    /\ overlapped' = (overlapped \/ \E t \in Openers : opener[t].at # "rest")
    /\ UNCHANGED <<acked, forgotten, registered, version, session, open, forward, closing, badge,
                   opener, outdated, strayed>>

\* Fault: what is open stays registered when the profile is edited.
ForgetNothing ==
    /\ editing = "saved"
    /\ editing' = "forgetting"
    /\ UNCHANGED <<saved, acked, forgotten, registered, version, session, open, forward, closing, badge,
                   opener, overlapped, outdated, strayed>>

Forget ==
    /\ editing = "saved"
    /\ forgotten' = registered /\ registered' = 0
    /\ editing' = "forgetting"
    /\ overlapped' = (overlapped \/ \E t \in Openers : opener[t].at # "rest")
    /\ UNCHANGED <<saved, acked, version, session, open, forward, closing, badge, opener,
                   outdated, strayed>>

\* The maps keyed by name are cleared, the forward is taken out of its map, and a task
\* is spawned that disconnects the session and then drops the forward.
Tidy ==
    /\ editing = "forgetting"
    /\ badge' = 0
    /\ IF forgotten = 0 THEN UNCHANGED <<closing, forward>>
       ELSE /\ closing' = [closing EXCEPT ![forgotten] = "disconnect"]
            /\ forward' = [forward EXCEPT ![forgotten] = IF @ = "kept" THEN "leaving" ELSE @]
    /\ forgotten' = 0
    /\ editing' = "no"
    /\ acked' = saved
    /\ overlapped' = (overlapped \/ \E t \in Openers : opener[t].at # "rest")
    /\ UNCHANGED <<saved, registered, version, session, open, opener, outdated, strayed>>

Disconnect(i) ==
    /\ closing[i] = "disconnect"
    /\ closing' = [closing EXCEPT ![i] = "drop"]
    /\ open' = open \ {i}
    /\ UNCHANGED <<saved, acked, editing, forgotten, registered, version, session, forward,
                   badge, opener, overlapped, outdated, strayed>>

DropForward(i) ==
    /\ closing[i] = "drop"
    /\ closing' = [closing EXCEPT ![i] = "no"]
    /\ forward' = [forward EXCEPT ![i] = IF @ = "leaving" THEN "dropped" ELSE @]
    /\ UNCHANGED <<saved, acked, editing, forgotten, registered, version, session, open,
                   badge, opener, overlapped, outdated, strayed>>

----------------------------------------------------------------------------
OpenProfile(t) == ReadSaved(t) \/ LookUp(t) \/ Route(t) \/ AddProfile(t) \/ Register(t) \/ KeepForward(t)
RunRequest(t) == GetSession(t) \/ DialSession(t) \/ ReadOnly(t) \/ Record(t) \/ Query(t)
EditProfile == Save \/ Forget \/ Tidy

ProfilesNext ==
    \/ \E t \in Openers : OpenProfile(t) \/ RunRequest(t)
    \/ EditProfile
    \/ \E i \in ProfileIds : Disconnect(i) \/ DropForward(i)

ProfilesSpec == ProfilesInit /\ [][ProfilesNext]_profilesVars

----------------------------------------------------------------------------
(* Properties *)

ProfilesTypeOK ==
    /\ saved \in Versions /\ acked \in 1 .. saved
    /\ registered \in ProfileIds \cup {0} /\ forgotten \in ProfileIds \cup {0} /\ badge \in ProfileIds \cup {0}
    /\ version \in [ProfileIds -> Versions \cup {0}]
    /\ open \subseteq ProfileIds /\ closing \in [ProfileIds -> {"no", "disconnect", "drop"}]
    /\ forward \in [ProfileIds -> {"none", "in_hand", "kept", "leaving", "dropped"}]
    /\ \A i \in ProfileIds : forward[i] = "none" <=> version[i] = 0
    /\ \A t \in Openers : opener[t].at \notin {"rest", "read", "missed", "routed"} => version[opener[t].id] # 0

\* The forward of the profile that is registered is up, whatever losers drop and
\* forgetting drops.
RegisteredTunnelIsUp == registered # 0 => Reachable(registered) /\ forward[registered] # "leaving"

\* Threads that open the profile at the same time end up with one id, one session and
\* one forward, whoever is first (core.rs:119), as long as nobody edits it; and that
\* forward is up even if somebody does.
RaceHasOneWinner ==
    /\ saved = 1 =>
        /\ \A t \in Openers : opener[t].at \in {"opened", "session", "leased", "server", "client", "query"}
                                  => opener[t].id = registered
        /\ open \subseteq {registered}
        /\ {i \in ProfileIds : forward[i] = "kept"} \subseteq {registered}
    /\ RegisteredTunnelIsUp

\* An edit made while nothing is being opened and nothing runs is in force for all that
\* is asked for after it has returned, and the read-only badge is about what is open now.
BadgeFits == editing = "no" /\ badge # 0 => badge = registered
QuietEditTakesEffect == ~overlapped => ~outdated /\ ~strayed /\ BadgeFits
=============================================================================
