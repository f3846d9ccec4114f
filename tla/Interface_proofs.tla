-------------------------- MODULE Interface_proofs --------------------------
(***************************************************************************)
(* What is proved of the C interface and of what it stands on: the tunnel  *)
(* pool, the handles of queries, profiles, pinned host keys and exports.   *)
(***************************************************************************)
EXTENDS TunnelPool, QueryHandle, Profiles, HostKeys, Export, FiniteSets, FiniteSetTheorems, TLAPS

-----------------------------------------------------------------------------
(***************************************************************************)
(* TunnelPool                                                              *)
(*                                                                         *)
(* Whoever holds a checkout holds the tunnel in the pool, for any number   *)
(* of handles, also without end.                                           *)
(*                                                                         *)
(* The argument: as long as an entry is in the pool its counter is the     *)
(* number of handles that are held, all of them of this entry.  A timer    *)
(* takes an entry away only where the counter is zero, when there is       *)
(* nobody it could be taken from.                                          *)
(***************************************************************************)

Holding == {h \in Handles : Holds(h)}

\* A handle that is, or was, held has its tunnel.
HasTunnel == \A h \in Handles : handle[h] \in {"held", "last", "asleep", "awake"} => tunnel[h] # NoTunnel

\* The counter of the entry counts its holders.
HoldersCounted ==
    /\ IsFiniteSet(Holding)
    /\ pooled # NoTunnel => refs[pooled] = Cardinality(Holding)

TunnelInv == TunnelTypeOK /\ HasTunnel /\ HeldTunnelIsPooled /\ HoldersCounted

\* Nobody holds anything while the pool is empty.
LEMMA EmptyPool == ASSUME TunnelInv, pooled = NoTunnel PROVE Holding = {}
BY DEF TunnelInv, HasTunnel, HeldTunnelIsPooled, Holding, Holds

\* One more holder, or one less, is counted.
LEMMA Counting ==
    ASSUME TunnelInv
    PROVE  /\ Cardinality(Holding) \in Nat
           /\ \A h \in Handles : ~Holds(h) =>
                 /\ IsFiniteSet(Holding \cup {h})
                 /\ Cardinality(Holding \cup {h}) = Cardinality(Holding) + 1
           /\ \A h \in Handles : Holds(h) =>
                 /\ IsFiniteSet(Holding \ {h})
                 /\ Cardinality(Holding \ {h}) = Cardinality(Holding) - 1
<1>1. IsFiniteSet(Holding)
  BY DEF TunnelInv, HoldersCounted
<1>2. Cardinality(Holding) \in Nat
  BY <1>1, FS_CardinalityType
<1>3. ASSUME NEW h \in Handles, ~Holds(h)
      PROVE  /\ IsFiniteSet(Holding \cup {h})
             /\ Cardinality(Holding \cup {h}) = Cardinality(Holding) + 1
  <2>1. h \notin Holding
    BY <1>3 DEF Holding
  <2> QED BY <1>1, <2>1, FS_AddElement
<1>4. ASSUME NEW h \in Handles, Holds(h)
      PROVE  /\ IsFiniteSet(Holding \ {h})
             /\ Cardinality(Holding \ {h}) = Cardinality(Holding) - 1
  <2>1. h \in Holding
    BY <1>4 DEF Holding
  <2> QED BY <1>1, <2>1, FS_RemoveElement
<1> QED BY <1>2, <1>3, <1>4

LEMMA TunnelInitHolds == TunnelInit => TunnelInv
<1> SUFFICES ASSUME TunnelInit PROVE TunnelInv
  OBVIOUS
<1>1. Holding = {}
  BY DEF TunnelInit, Holding, Holds
<1>2. IsFiniteSet(Holding)
  BY <1>1, FS_EmptySet
<1> QED BY <1>1, <1>2 DEF TunnelInit, TunnelInv, TunnelTypeOK, HasTunnel, HeldTunnelIsPooled,
                         HoldersCounted, Holds, NoTunnel, HandlePlaces

\* A step that changes neither the entry, nor its counter, nor who holds what.
LEMMA Elsewhere ==
    ASSUME TunnelInv, TunnelTypeOK', HasTunnel', pooled' = pooled, refs' = refs, tunnel' = tunnel,
           \A h \in Handles : Holds(h)' = Holds(h)
    PROVE  TunnelInv'
<1>1. Holding' = Holding
  BY DEF Holding
<1> QED BY <1>1 DEF TunnelInv, HeldTunnelIsPooled, HoldersCounted

\* A handle that joins the tunnel in the pool.
LEMMA JoinHolds ==
    ASSUME TunnelInv, NEW h \in Handles, ~Holds(h), pooled # NoTunnel, Join(h) PROVE TunnelInv'
<1>1. pooled \in Handles /\ pooled' = pooled
  BY DEF TunnelInv, TunnelTypeOK, Join
<1>2. TunnelTypeOK'
  BY <1>1 DEF TunnelInv, TunnelTypeOK, Join, HandlePlaces
<1>3. Holding' = Holding \cup {h}
  BY DEF Holding, Holds, Join, TunnelInv, TunnelTypeOK
<1>4. refs'[pooled] = refs[pooled] + 1
  BY <1>1 DEF Join, TunnelInv, TunnelTypeOK
<1>5. HeldTunnelIsPooled'
  BY <1>1 DEF HeldTunnelIsPooled, Holds, Join, TunnelInv, TunnelTypeOK
<1>6. HasTunnel'
  BY <1>1 DEF HasTunnel, Join, TunnelInv, TunnelTypeOK, NoTunnel
<1> QED BY <1>1, <1>2, <1>3, <1>4, <1>5, <1>6, Counting DEF TunnelInv, HoldersCounted

LEMMA InsertHolds == ASSUME TunnelInv, NEW h \in Handles, Insert(h) PROVE TunnelInv'
<1>1. CASE pooled # NoTunnel
  BY <1>1, JoinHolds DEF Insert, Holds
<1>2. CASE pooled = NoTunnel
  <2>1. Holding = {}
    BY <1>2, EmptyPool
  <2>2. Holding' = {h}
    BY <1>2, <2>1 DEF Holding, Holds, Insert, TunnelInv, TunnelTypeOK
  <2>3. IsFiniteSet(Holding') /\ Cardinality(Holding') = 1
    BY <2>2, FS_Singleton
  <2>4. TunnelTypeOK'
    BY <1>2 DEF TunnelInv, TunnelTypeOK, Insert, HandlePlaces
  <2>5. \A k \in Handles : Holds(k)' => k = h
    BY <2>2 DEF Holding
  <2>6. pooled' = h /\ refs'[h] = 1 /\ tunnel'[h] = h /\ h # NoTunnel
    BY <1>2, HandlesAreNumbers DEF Insert, TunnelInv, TunnelTypeOK, NoTunnel
  <2>7. HasTunnel'
    BY <1>2, <2>6 DEF Insert, HasTunnel, TunnelInv, TunnelTypeOK
  <2> QED BY <2>3, <2>4, <2>5, <2>6, <2>7 DEF TunnelInv, HeldTunnelIsPooled, HoldersCounted
<1> QED BY <1>1, <1>2

LEMMA CloneHolds == ASSUME TunnelInv, NEW h \in Handles, NEW c \in Handles, Clone(h, c) PROVE TunnelInv'
<1>1. tunnel[h] = pooled /\ pooled # NoTunnel
  BY DEF Clone, TunnelInv, HeldTunnelIsPooled, HasTunnel, Holds
<1>2. Join(c) /\ ~Holds(c)
  BY <1>1 DEF Clone, Join, Holds
<1> QED BY <1>1, <1>2, JoinHolds

LEMMA DropHolds == ASSUME TunnelInv, NEW h \in Handles, Drop(h) PROVE TunnelInv'
<1>1. /\ Holds(h) /\ tunnel[h] = pooled /\ pooled \in Handles /\ pooled # NoTunnel
      /\ pooled' = pooled /\ tunnel' = tunnel
  BY DEF Drop, TunnelInv, TunnelTypeOK, HeldTunnelIsPooled, HasTunnel, Holds
<1>2. handle' \in [Handles -> HandlePlaces] /\ ~Holds(h)'
  BY DEF Drop, TunnelInv, TunnelTypeOK, HandlePlaces, Holds
<1>3. Holding' = Holding \ {h}
  BY <1>2 DEF Drop, Holding, Holds, TunnelInv, TunnelTypeOK
<1>4. refs'[pooled] = refs[pooled] - 1 /\ refs' \in [Handles -> Int]
  BY <1>1 DEF Drop, TunnelInv, TunnelTypeOK
<1>5. refs[pooled] = Cardinality(Holding) /\ pooled # NoTunnel
  BY <1>1 DEF TunnelInv, HoldersCounted
<1>6. IsFiniteSet(Holding') /\ refs'[pooled] = Cardinality(Holding')
  BY <1>1, <1>3, <1>4, <1>5, Counting
<1>7. refs'[pooled] \in Nat
  BY <1>6, FS_CardinalityType
<1>8. refs' \in [Handles -> Nat]
  BY <1>1, <1>4, <1>7 DEF Drop, TunnelInv, TunnelTypeOK
<1>9. TunnelTypeOK'
  BY <1>1, <1>2, <1>8 DEF TunnelInv, TunnelTypeOK, Drop
<1>10. \A k \in Handles : Holds(k)' => Holds(k)
  BY <1>3 DEF Holding
<1>11. HasTunnel'
  BY <1>1 DEF Drop, HasTunnel, TunnelInv, TunnelTypeOK, Holds
<1> QED BY <1>1, <1>6, <1>9, <1>10, <1>11 DEF TunnelInv, HeldTunnelIsPooled, HoldersCounted

LEMMA RemoveHolds == ASSUME TunnelInv, NEW h \in Handles, RemoveEntry(h) PROVE TunnelInv'
<1>1. /\ TunnelTypeOK' /\ HasTunnel' /\ refs' = refs /\ tunnel' = tunnel
      /\ \A k \in Handles : Holds(k)' = Holds(k)
  BY DEF RemoveEntry, TunnelInv, TunnelTypeOK, HasTunnel, Holds, HandlePlaces
<1>2. CASE pooled' = pooled
  BY <1>1, <1>2, Elsewhere
<1>3. CASE pooled' # pooled
  <2>1. pooled # NoTunnel /\ refs[pooled] = 0 /\ pooled' = NoTunnel
    BY <1>3 DEF RemoveEntry
  <2>2. IsFiniteSet(Holding) /\ Cardinality(Holding) = 0
    BY <2>1 DEF TunnelInv, HoldersCounted
  <2>3. Holding = {}
    BY <2>2, FS_EmptySet
  <2>4. Holding' = Holding
    BY <1>1 DEF Holding
  <2> QED BY <1>1, <2>1, <2>2, <2>3, <2>4 DEF TunnelInv, HeldTunnelIsPooled, HoldersCounted, Holding
<1> QED BY <1>2, <1>3

\* The steps of a handle that is not held before or after.
LEMMA Quietly ==
    ASSUME TunnelInv, NEW h \in Handles,
           \/ Checkout(h) /\ pooled = NoTunnel
           \/ Connect(h) \/ StartTimer(h) \/ Wake(h)
    PROVE  TunnelInv'
<1>1. TunnelTypeOK'
  <2>1. CASE StartTimer(h)
    <3>1. tunnel[h] \in Handles
      BY <2>1 DEF StartTimer, TunnelInv, TunnelTypeOK, HasTunnel
    <3> QED BY <2>1, <3>1 DEF StartTimer, TunnelInv, TunnelTypeOK, HandlePlaces
  <2>2. CASE Wake(h)
    BY <2>2 DEF Wake, TunnelInv, TunnelTypeOK, HandlePlaces
  <2>3. CASE Checkout(h) /\ pooled = NoTunnel
    BY <2>3 DEF Checkout, TunnelInv, TunnelTypeOK, HandlePlaces
  <2>4. CASE Connect(h)
    BY <2>4 DEF Connect, TunnelInv, TunnelTypeOK, HandlePlaces
  <2> QED BY <2>1, <2>2, <2>3, <2>4
<1>2. /\ pooled' = pooled /\ refs' = refs /\ tunnel' = tunnel
      /\ \A k \in Handles : Holds(k)' = Holds(k)
  BY DEF Checkout, Connect, StartTimer, Wake, TunnelInv, TunnelTypeOK, Holds
<1>3. HasTunnel'
  BY DEF Checkout, Connect, StartTimer, Wake, TunnelInv, TunnelTypeOK, HasTunnel
<1> QED BY <1>1, <1>2, <1>3, Elsewhere

LEMMA TunnelStepHolds == TunnelInv /\ [TunnelNext]_tunnelVars => TunnelInv'
<1> SUFFICES ASSUME TunnelInv, [TunnelNext]_tunnelVars PROVE TunnelInv'
  OBVIOUS
<1>1. CASE UNCHANGED tunnelVars
  BY <1>1 DEF tunnelVars, TunnelInv, TunnelTypeOK, HasTunnel, HeldTunnelIsPooled, HoldersCounted,
                 Holding, Holds
<1>2. ASSUME NEW h \in Handles, Checkout(h) PROVE TunnelInv'
  <2>1. CASE pooled = NoTunnel
    BY <1>2, <2>1, Quietly
  <2>2. CASE pooled # NoTunnel
    BY <1>2, <2>2, JoinHolds DEF Checkout, Holds
  <2> QED BY <2>1, <2>2
<1>3. ASSUME NEW h \in Handles, Connect(h) PROVE TunnelInv'
  BY <1>3, Quietly
<1>4. ASSUME NEW h \in Handles, Timer(h) PROVE TunnelInv'
  BY <1>4, Quietly, RemoveHolds DEF Timer
<1> QED BY <1>1, <1>2, <1>3, <1>4, InsertHolds, DropHolds, CloneHolds DEF TunnelNext

\* Types of the tunnel pool, for any number of handles.
THEOREM TunnelTypes == TunnelSpec => []TunnelTypeOK
<1>1. TunnelInv => TunnelTypeOK
  BY DEF TunnelInv
<1> QED BY <1>1, TunnelInitHolds, TunnelStepHolds, PTL DEF TunnelSpec

\* All who hold a checkout of one key share the tunnel that is in the pool, and no timer
\* takes it from them (tunnel/pool.rs:178).
THEOREM HoldersShareTheTunnel == TunnelSpec => []HeldTunnelIsPooled
<1>1. TunnelInv => HeldTunnelIsPooled
  BY DEF TunnelInv
<1> QED BY <1>1, TunnelInitHolds, TunnelStepHolds, PTL DEF TunnelSpec

-----------------------------------------------------------------------------
(***************************************************************************)
(* QueryHandle                                                             *)
(*                                                                         *)
(* What the handle of a run promises, for a script of any length.          *)
(*                                                                         *)
(* The script: the task knows how far it is, what is in front of it has    *)
(* left the core and what is behind it was never sent; so only the         *)
(* statement it has come to can be running.  The stop: from the moment the *)
(* handle owns its query, whoever comes second, the task or the button,    *)
(* finds what the first has left (qid, wanted) and stops the query, and a  *)
(* query that was stopped never runs again.  The callback: it runs only    *)
(* while it is attached, and its context goes last.                        *)
(***************************************************************************)

BeforeSend == {"open", "next", "asking"}
Owned == {"cancelling", "notified", "watching", "draining"}
Streaming == {"notified", "watching", "draining"}

\* How far the script is.
LaunchPlace ==
    /\ \A r \in Stmts : r < stmt => query[r] = "closed"
    /\ \A s \in Stmts : s > stmt => query[s] = "unsent"
    /\ task \in BeforeSend => query[stmt] = "unsent"
    /\ task = "waiting" => stmt < LastStatement
    /\ task \notin BeforeSend \cup {"over"} => query[stmt] # "unsent"
    /\ task \in Owned \cup {"accepted"} => stmt = LastStatement
    /\ qid # Nothing => query[LastStatement] # "unsent"
    /\ toClose # Nothing => qid # Nothing

\* Who stops the query.
StopPlace ==
    /\ task \in Owned => qid = LastStatement
    /\ qid = Nothing => task \in BeforeSend \cup {"waiting", "accepted", "over"}
    /\ caller = "cancelling" => qid = LastStatement
    /\ wanted /\ caller # "cancelling" /\ task \in Streaming => ~Live(LastStatement)
    /\ task = "draining" => ~Live(LastStatement)
    /\ abort => caller \in {"closing", "gone"}
    /\ task = "over" /\ ~abort => \A s \in Stmts : ~Live(s)

\* Who may run the callback.
HookPlace ==
    /\ calling => hook
    /\ hook => ctx
    /\ freed => ~hook
    /\ caller \in {"freeing", "closing", "gone"} => freed

HandleInv == HandleTypeOK /\ LaunchPlace /\ StopPlace /\ HookPlace

USE DEF Live, Stmts, Nothing

LEMMA LastIsAStatement == LastStatement \in Stmts /\ LastStatement \in Nat /\ LastStatement # Nothing /\ 1 \in Stmts
BY LastAssumption

LEMMA HandleInitHolds == HandleInit => HandleInv
<1> SUFFICES ASSUME HandleInit PROVE HandleInv
  OBVIOUS
<1> USE LastIsAStatement DEF HandleInit
<1>1. HandleTypeOK
  BY DEF HandleTypeOK, TaskPlaces
<1>2. LaunchPlace
  BY DEF LaunchPlace, BeforeSend, Owned
<1>3. StopPlace
  BY DEF StopPlace, BeforeSend, Owned, Streaming
<1>4. HookPlace
  BY DEF HookPlace
<1> QED BY <1>1, <1>2, <1>3, <1>4 DEF HandleInv

----------------------------------------------------------------------------
(* The callback: three groups of steps. *)

LEMMA HookHolds == ASSUME HandleInv, HandleNext PROVE HookPlace'
<1> USE DEF HandleInv, HandleTypeOK, HookPlace, Notify, CallerVars, HookVars, Fail, At, Goes
<1>1. CASE Drive
  BY <1>1 DEF Drive, CallbackReturns, Opened, Ask, Accepted, LeadingEnds, Own, OwnCancel, Turn,
              Changed, Outcome, Drained, Aborted
<1>2. CASE (\E s \in Stmts : QueryMoves(s)) \/ ServerAnswers \/ CloseRuns
  BY <1>2 DEF QueryMoves, ServerAnswers, CloseRuns
<1>3. CASE CancelQuery \/ OnProgress \/ FreeHandle
  BY <1>3 DEF CancelQuery, Cancel, CancelCore, CancelReports, OnProgress, FreeHandle, Free,
              FreeAborts, FreeCloses
<1> QED BY <1>1, <1>2, <1>3 DEF HandleNext

----------------------------------------------------------------------------
(* Types *)

LEMMA DriveTypes == ASSUME HandleInv, Drive PROVE HandleTypeOK'
<1> USE LastIsAStatement DEF HandleInv, HandleTypeOK, Notify, CallerVars, HookVars, Fail, At, Goes, TaskPlaces
<1>1. CASE CallbackReturns \/ Opened \/ Ask \/ Accepted
  <2>1. CASE CallbackReturns
    <3>1. UNCHANGED <<task, stmt, query, qid, toClose, report, server, caller, wanted, freed, abort, hook, ctx>>
      BY <2>1 DEF CallbackReturns
    <3>2. calling' = FALSE
      BY <2>1 DEF CallbackReturns
    <3>3. {wanted, freed, abort, hook, ctx, calling}' \subseteq BOOLEAN
      BY <3>1, <3>2
    <3> QED BY <3>1, <3>3
  <2>3. CASE Opened
    BY <2>3 DEF Opened
  <2>4. CASE Ask
    BY <2>4 DEF Ask
  <2>2. CASE Accepted
    <3>1. query' \in [Stmts -> {"unsent", "running", "parked", "complete", "failed", "cancelled", "closed"}]
      BY <2>2 DEF Accepted
    <3> QED BY <2>2, <3>1 DEF Accepted
  <2> QED BY <1>1, <2>1, <2>2, <2>3, <2>4
<1>2. CASE LeadingEnds
  <2>1. query' \in [Stmts -> {"unsent", "running", "parked", "complete", "failed", "cancelled", "closed"}]
    BY <1>2 DEF LeadingEnds, Gone
  <2>2. stmt' \in Stmts
    BY <1>2 DEF LeadingEnds, LaunchPlace, Stmts
  <2>3. task' \in TaskPlaces /\ calling' \in BOOLEAN /\ UNCHANGED <<hook, ctx>>
    BY <1>2 DEF LeadingEnds
  <2>4. UNCHANGED <<qid, wanted, report, server, caller, freed, abort, toClose>>
    BY <1>2 DEF LeadingEnds
  <2> QED BY <2>1, <2>2, <2>3, <2>4
<1>3. CASE Own \/ OwnCancel
  BY <1>3 DEF Own, OwnCancel, Stopped, LaunchPlace, Owned
<1>4. CASE Turn \/ Changed \/ Outcome \/ Drained \/ Aborted
  BY <1>4 DEF Turn, Changed, Outcome, Drained, Aborted
<1> QED BY <1>1, <1>2, <1>3, <1>4 DEF Drive

LEMMA OtherTypes ==
    ASSUME HandleInv,
           \/ \E s \in Stmts : QueryMoves(s)
           \/ ServerAnswers \/ CloseRuns \/ CancelQuery \/ OnProgress \/ FreeHandle
    PROVE  HandleTypeOK'
<1> USE LastIsAStatement DEF HandleInv, HandleTypeOK, CallerVars, HookVars, TaskVars, TaskPlaces
<1>1. CASE \E s \in Stmts : QueryMoves(s)
  BY <1>1 DEF QueryMoves
<1>2. CASE ServerAnswers \/ CloseRuns
  BY <1>2 DEF ServerAnswers, CloseRuns, Gone
<1>3. CASE CancelQuery
  BY <1>3 DEF CancelQuery, Cancel, CancelCore, CancelReports, Stopped
<1>4. CASE OnProgress \/ FreeHandle
  BY <1>4 DEF OnProgress, FreeHandle, Free, FreeAborts, FreeCloses
<1> QED BY <1>1, <1>2, <1>3, <1>4

----------------------------------------------------------------------------
(* The script *)

LEMMA ScriptHolds == ASSUME HandleInv, HandleNext PROVE LaunchPlace'
<1> USE LastIsAStatement DEF HandleInv, HandleTypeOK, LaunchPlace, Notify, CallerVars, HookVars, TaskVars,
        Fail, At, Goes, BeforeSend, Owned
<1>1. CASE CallbackReturns \/ Opened \/ Ask
  BY <1>1 DEF CallbackReturns, Opened, Ask
<1>2. CASE Accepted
  BY <1>2 DEF Accepted
<1>3. CASE LeadingEnds
  BY <1>3 DEF LeadingEnds, Gone
<1>4. CASE Own \/ OwnCancel
  BY <1>4 DEF Own, OwnCancel, Stopped
<1>5. CASE Turn \/ Changed \/ Outcome \/ Drained \/ Aborted
  BY <1>5 DEF Turn, Changed, Outcome, Drained, Aborted
<1>6. CASE \E s \in Stmts : QueryMoves(s)
  BY <1>6 DEF QueryMoves
<1>7. CASE ServerAnswers \/ CloseRuns
  BY <1>7 DEF ServerAnswers, CloseRuns, Gone
<1>8. CASE CancelQuery
  BY <1>8 DEF CancelQuery, Cancel, CancelCore, CancelReports, Stopped, StopPlace
<1>9. CASE OnProgress \/ FreeHandle
  BY <1>9 DEF OnProgress, FreeHandle, Free, FreeAborts, FreeCloses
<1> QED BY <1>1, <1>2, <1>3, <1>4, <1>5, <1>6, <1>7, <1>8, <1>9 DEF HandleNext, Drive

----------------------------------------------------------------------------
(* The stop *)

LEMMA StopHolds == ASSUME HandleInv, HandleNext PROVE StopPlace'
<1> USE LastIsAStatement DEF HandleInv, HandleTypeOK, LaunchPlace, StopPlace, Notify, CallerVars, HookVars, TaskVars,
        Fail, At, Goes, BeforeSend, Owned, Streaming
<1>1. CASE CallbackReturns \/ Opened \/ Ask
  BY <1>1 DEF CallbackReturns, Opened, Ask
<1>2. CASE Accepted
  BY <1>2 DEF Accepted
<1>3. CASE LeadingEnds
  BY <1>3 DEF LeadingEnds, Gone
<1>4. CASE Own \/ OwnCancel
  BY <1>4 DEF Own, OwnCancel, Stopped
<1>5. CASE Turn \/ Changed \/ Outcome \/ Drained \/ Aborted
  BY <1>5 DEF Turn, Changed, Outcome, Drained, Aborted
<1>6. CASE \E s \in Stmts : QueryMoves(s)
  BY <1>6 DEF QueryMoves
<1>7. CASE ServerAnswers \/ CloseRuns
  BY <1>7 DEF ServerAnswers, CloseRuns, Gone
<1>8. CASE CancelQuery
  BY <1>8 DEF CancelQuery, Cancel, CancelCore, CancelReports, Stopped
<1>9. CASE OnProgress \/ FreeHandle
  BY <1>9 DEF OnProgress, FreeHandle, Free, FreeAborts, FreeCloses, HookPlace
<1> QED BY <1>1, <1>2, <1>3, <1>4, <1>5, <1>6, <1>7, <1>8, <1>9 DEF HandleNext, Drive

----------------------------------------------------------------------------
LEMMA HandleStepHolds == HandleInv /\ [HandleNext]_handleVars => HandleInv'
<1>1. ASSUME HandleInv, HandleNext PROVE HandleInv'
  BY <1>1, DriveTypes, OtherTypes, ScriptHolds, StopHolds, HookHolds DEF HandleInv, HandleNext
<1>2. ASSUME HandleInv, UNCHANGED handleVars PROVE HandleInv'
  BY <1>2 DEF handleVars, HandleInv, HandleTypeOK, LaunchPlace, StopPlace, HookPlace
<1> QED BY <1>1, <1>2

\* For a script of any length: its statements run one at a time, and once stop has been
\* pressed and has returned nothing of it is left running (ffi/query.rs:235).
THEOREM StopIsKept == HandleSpec => []StopIsHonoured
<1>1. HandleInv => StopIsHonoured
  BY LastIsAStatement DEF HandleInv, HandleTypeOK, LaunchPlace, StopPlace, StopIsHonoured, OneAtATime,
         BeforeSend, Owned, Streaming
<1> QED BY <1>1, HandleInitHolds, HandleStepHolds, PTL DEF HandleSpec

\* No callback runs without its context, whenever the handle is freed (ffi/query.rs:517).
THEOREM ContextOutlivesCallback == HandleSpec => []CallbackHasItsContext
<1>1. HandleInv => CallbackHasItsContext
  BY DEF HandleInv, HookPlace, CallbackHasItsContext
<1> QED BY <1>1, HandleInitHolds, HandleStepHolds, PTL DEF HandleSpec

\* The handle of a run, its task, its callback and its callers have their types.
THEOREM HandleTypes == HandleSpec => []HandleTypeOK
<1>1. HandleInv => HandleTypeOK
  BY DEF HandleInv
<1> QED BY <1>1, HandleInitHolds, HandleStepHolds, PTL DEF HandleSpec

HIDE DEF Live, Stmts, Nothing

-----------------------------------------------------------------------------
(***************************************************************************)
(* Profiles                                                                *)
(*                                                                         *)
(* Threads that open the profile at once end up with one id and its        *)
(* forward, and an edit made in a quiet moment is in force afterwards: for *)
(* any number of threads, requests and edits.                              *)
(*                                                                         *)
(* The argument: an id is its thread's own until it is registered, so what *)
(* a loser drops is never the winner's forward (OwnIds).  As long as no    *)
(* edit met a thread that was at work, every thread has begun after the    *)
(* last step of an edit, so that it reads what is saved and finds what is  *)
(* registered (Undisturbed).                                               *)
(***************************************************************************)

OpenerRecord ==
    [at : {"rest", "read", "missed", "routed", "added", "won", "opened", "session", "leased",
           "server", "client", "query"},
     seen : Versions, id : ProfileIds \cup {0}, nth : Nat, since : Versions, asks : Nat]

Bringing == {"added", "won"}
Having == {"opened", "session", "leased", "server", "client", "query"}

ProfileTypes ==
    /\ saved \in Versions /\ acked \in 1 .. saved
    /\ editing \in {"no", "saved", "forgetting"}
    /\ registered \in ProfileIds \cup {0} /\ forgotten \in ProfileIds \cup {0}
    /\ badge \in ProfileIds \cup {0}
    /\ version \in [ProfileIds -> Versions \cup {0}]
    /\ session \in [ProfileIds -> Nat] /\ open \subseteq ProfileIds
    /\ closing \in [ProfileIds -> {"no", "disconnect", "drop"}]
    /\ forward \in [ProfileIds -> {"none", "in_hand", "kept", "leaving", "dropped"}]
    /\ opener \in [Openers -> OpenerRecord]

\* An id belongs to the thread that made it until its forward is kept.
OwnIds ==
    /\ registered # 0 => version[registered] # 0
    /\ forgotten # 0 => version[forgotten] # 0 /\ forgotten # registered
    /\ \A t \in Openers : opener[t].at \in Bringing \cup Having =>
          opener[t].id # 0 /\ version[opener[t].id] # 0
    /\ \A t \in Openers : opener[t].at \in Bringing => forward[opener[t].id] = "in_hand"
    /\ \A t, u \in Openers :
          opener[t].at \in Bringing /\ opener[u].at \in Bringing /\ opener[t].id = opener[u].id => t = u
    /\ \A t \in Openers : opener[t].at = "added" => opener[t].id \notin {registered, forgotten}

\* Before the first edit nothing that was registered ever leaves.
Unedited ==
    saved = 1 =>
        /\ editing = "no" /\ acked = 1
        /\ \A t \in Openers : opener[t].at \in Having \cup {"won"} => opener[t].id = registered
        /\ open \subseteq {registered}
        /\ \A i \in ProfileIds : forward[i] = "kept" => i = registered

\* No edit has met a thread: what they have is what there is.
Undisturbed ==
    ~overlapped =>
        /\ ~outdated /\ ~strayed
        /\ editing \in {"no", "saved"} /\ badge # 0 => badge = registered
        /\ registered # 0 => /\ version[registered] >= acked
                             /\ editing = "forgetting" => version[registered] = saved
        /\ \A t \in Openers :
              /\ opener[t].at # "rest" => opener[t].since = acked
              /\ opener[t].at \in {"read", "missed", "routed"} => opener[t].seen = saved
              /\ opener[t].at = "added" => version[opener[t].id] = saved
              /\ opener[t].at \in Having \cup {"won"} => opener[t].id = registered

ProfileInv == ProfileTypes /\ OwnIds /\ RegisteredTunnelIsUp /\ Unedited /\ Undisturbed

\* Ids and versions are numbers from 1.
LEMMA Numbers == /\ \A i \in ProfileIds : i \in Nat /\ i # 0
                 /\ Versions \subseteq Nat \ {0} /\ 1 \in Versions
BY ProfilesBounds, FS_CardinalityType DEF ProfileIds, Versions

LEMMA ProfileInitHolds == ProfilesInit => ProfileInv
<1>1. SUFFICES ASSUME ProfilesInit PROVE ProfileInv
  OBVIOUS
<1>2. Resting \in OpenerRecord /\ \A t \in Openers : opener[t] = Resting
  BY Numbers, <1>1 DEF Resting, OpenerRecord, ProfilesInit
<1>3. ProfileTypes
  BY Numbers, <1>1, <1>2 DEF ProfilesInit, ProfileTypes
<1>4. OwnIds /\ RegisteredTunnelIsUp
  BY <1>1, <1>2 DEF ProfilesInit, OwnIds, RegisteredTunnelIsUp, Bringing, Having, Resting
<1>5. Unedited /\ Undisturbed
  BY <1>1, <1>2 DEF ProfilesInit, Unedited, Undisturbed, Having, Resting
<1> QED BY <1>3, <1>4, <1>5 DEF ProfileInv

\* Where a thread is afterwards, and that the others stay where they are.
LEMMA OneThreadMoves ==
    ASSUME ProfileTypes, NEW t \in Openers
    PROVE  /\ \A at \in {"routed", "won", "opened", "leased", "server", "client", "query"} :
                 ThreadAt(t, at) => opener' \in [Openers -> OpenerRecord] /\ opener'[t] = [opener[t] EXCEPT !.at = at]
           /\ ThreadEnds(t) => opener' \in [Openers -> OpenerRecord] /\ opener'[t].at = "rest"
           /\ (ThreadEnds(t) \/ \E at : ThreadAt(t, at)) =>
                 \A u \in Openers \ {t} : opener'[u] = opener[u]
<1>0. opener \in [Openers -> OpenerRecord]
  BY DEF ProfileTypes
<1>1. opener \in [Openers -> OpenerRecord] /\ opener[t] \in OpenerRecord
  BY <1>0
<1>2. ASSUME NEW at \in {"routed", "won", "opened", "leased", "server", "client", "query"}, ThreadAt(t, at)
      PROVE  opener' \in [Openers -> OpenerRecord] /\ opener'[t] = [opener[t] EXCEPT !.at = at]
  <2>1. [opener[t] EXCEPT !.at = at] \in OpenerRecord
    BY <1>1, <1>2 DEF OpenerRecord
  <2>2. opener' = [opener EXCEPT ![t] = [opener[t] EXCEPT !.at = at]]
    BY <1>1, <1>2 DEF ThreadAt
  <2> QED BY <1>1, <2>1, <2>2
<1>3. ASSUME ThreadEnds(t) PROVE opener' \in [Openers -> OpenerRecord] /\ opener'[t].at = "rest"
  <2>1. [Resting EXCEPT !.asks = opener[t].asks] \in OpenerRecord
    BY <1>1, Numbers DEF OpenerRecord, Resting
  <2> QED BY <1>1, <1>3, <2>1 DEF ThreadEnds, Resting
<1>4. (ThreadEnds(t) \/ \E at : ThreadAt(t, at)) => \A u \in Openers \ {t} : opener'[u] = opener[u]
  BY <1>1 DEF ThreadEnds, ThreadAt
<1> QED BY <1>2, <1>3, <1>4

----------------------------------------------------------------------------
(* Opening the profile *)

LEMMA ReadSavedKeeps == ASSUME ProfileInv, NEW t \in Openers, ReadSaved(t) PROVE ProfileInv'
<1>0. saved \in Versions /\ acked \in 1 .. saved /\ opener \in [Openers -> OpenerRecord]
  BY DEF ProfileInv, ProfileTypes
<1>1. opener[t] \in OpenerRecord /\ acked \in Versions
  BY <1>0, ProfilesBounds DEF Versions
<1> DEFINE r == [at |-> "read", seen |-> saved, id |-> 0, nth |-> 0,
                since |-> acked, asks |-> opener[t].asks + 1]
<1>2. /\ opener' = [opener EXCEPT ![t] = r]
      /\ UNCHANGED <<saved, acked, editing, forgotten, registered, version, session, open, forward,
                     closing, badge, overlapped, outdated, strayed>>
  BY DEF ReadSaved
<1>3. r \in OpenerRecord
  BY <1>0, <1>1 DEF OpenerRecord
<1>4. opener' \in [Openers -> OpenerRecord]
  BY <1>0, <1>2, <1>3
<1>5. /\ opener'[t].at = "read" /\ opener'[t].seen = saved /\ opener'[t].since = acked
      /\ \A u \in Openers \ {t} : opener'[u] = opener[u]
  BY <1>0, <1>1, <1>2 DEF OpenerRecord
<1>6. ProfileTypes'
  BY <1>2, <1>4 DEF ProfileInv, ProfileTypes
<1>7. OwnIds'
  BY <1>2, <1>5 DEF ProfileInv, OwnIds, Bringing, Having
<1>8. Unedited'
  BY <1>2, <1>5 DEF ProfileInv, Unedited, Having
<1>9. Undisturbed'
  BY <1>2, <1>5 DEF ProfileInv, Undisturbed, Having
<1> QED BY <1>2, <1>6, <1>7, <1>8, <1>9 DEF ProfileInv, RegisteredTunnelIsUp, Reachable

LEMMA LookUpKeeps == ASSUME ProfileInv, NEW t \in Openers, LookUp(t) PROVE ProfileInv'
<1>1. opener \in [Openers -> OpenerRecord] /\ opener[t] \in OpenerRecord /\ registered \in ProfileIds \cup {0}
  BY DEF ProfileInv, ProfileTypes
<1> DEFINE at == IF registered = 0 THEN "missed" ELSE "opened"
<1>2. /\ opener' = [opener EXCEPT ![t] = [opener[t] EXCEPT !.at = at, !.id = registered]]
      /\ opener[t].at = "read"
      /\ UNCHANGED <<saved, acked, editing, forgotten, registered, version, session, open, forward,
                     closing, badge, overlapped, outdated, strayed>>
  BY <1>1 DEF LookUp
<1>3. [opener[t] EXCEPT !.at = at, !.id = registered] \in OpenerRecord
  BY <1>1 DEF OpenerRecord
<1>4. opener' \in [Openers -> OpenerRecord]
  BY <1>1, <1>2, <1>3
<1>5. /\ opener'[t].at = at /\ opener'[t].id = registered
      /\ opener'[t].since = opener[t].since /\ opener'[t].seen = opener[t].seen
      /\ \A u \in Openers \ {t} : opener'[u] = opener[u]
  BY <1>1, <1>2 DEF OpenerRecord
<1>6. ProfileTypes'
  BY <1>2, <1>4 DEF ProfileInv, ProfileTypes
<1>7. OwnIds'
  BY <1>2, <1>5 DEF ProfileInv, OwnIds, Bringing, Having
<1>8. Unedited'
  BY <1>2, <1>5 DEF ProfileInv, Unedited, Having
<1>9. Undisturbed'
  BY <1>2, <1>5 DEF ProfileInv, Undisturbed, Having
<1> QED BY <1>2, <1>6, <1>7, <1>8, <1>9 DEF ProfileInv, RegisteredTunnelIsUp, Reachable

LEMMA RouteKeeps == ASSUME ProfileInv, NEW t \in Openers, Route(t) PROVE ProfileInv'
<1>1. opener \in [Openers -> OpenerRecord] /\ opener[t] \in OpenerRecord
  BY DEF ProfileInv, ProfileTypes
<1>2. /\ opener[t].at = "missed"
      /\ UNCHANGED <<saved, acked, editing, forgotten, registered, version, session, open, forward,
                     closing, badge, overlapped, outdated, strayed>>
  BY DEF Route
<1>3. /\ opener' \in [Openers -> OpenerRecord]
      /\ \/ opener'[t].at = "rest"
         \/ opener'[t].at = "routed" /\ opener'[t].since = opener[t].since /\ opener'[t].seen = opener[t].seen
      /\ \A u \in Openers \ {t} : opener'[u] = opener[u]
  <2>1. CASE ThreadAt(t, "routed")
    <3>1. opener' \in [Openers -> OpenerRecord] /\ opener'[t] = [opener[t] EXCEPT !.at = "routed"]
      BY <2>1, OneThreadMoves DEF ProfileInv
    <3>2. \A u \in Openers \ {t} : opener'[u] = opener[u]
      BY <2>1, OneThreadMoves DEF ProfileInv
    <3> QED BY <1>1, <3>1, <3>2 DEF OpenerRecord
  <2>2. CASE ThreadEnds(t)
    BY <2>2, OneThreadMoves DEF ProfileInv
  <2> QED BY <2>1, <2>2 DEF Route
<1>6. ProfileTypes'
  BY <1>2, <1>3 DEF ProfileInv, ProfileTypes
<1>7. OwnIds'
  BY <1>2, <1>3 DEF ProfileInv, OwnIds, Bringing, Having
<1>8. Unedited'
  BY <1>2, <1>3 DEF ProfileInv, Unedited, Having
<1>9. Undisturbed'
  BY <1>2, <1>3 DEF ProfileInv, Undisturbed, Having
<1> QED BY <1>2, <1>6, <1>7, <1>8, <1>9 DEF ProfileInv, RegisteredTunnelIsUp, Reachable

LEMMA AddProfileKeeps == ASSUME ProfileInv, NEW t \in Openers, AddProfile(t) PROVE ProfileInv'
<1>1. opener \in [Openers -> OpenerRecord] /\ opener[t] \in OpenerRecord
  BY DEF ProfileInv, ProfileTypes
<1>2. PICK i \in ProfileIds :
         /\ version[i] = 0
         /\ version' = [version EXCEPT ![i] = opener[t].seen]
         /\ forward' = [forward EXCEPT ![i] = "in_hand"]
         /\ opener' = [opener EXCEPT ![t].at = "added", ![t].id = i]
  BY DEF AddProfile
<1>2a. opener' = [opener EXCEPT ![t] = [opener[t] EXCEPT !.at = "added", !.id = i]]
  BY <1>1, <1>2
<1>3. /\ opener[t].at = "routed"
      /\ UNCHANGED <<saved, acked, editing, forgotten, registered, session, open,
                     closing, badge, overlapped, outdated, strayed>>
  BY DEF AddProfile
<1>4. [opener[t] EXCEPT !.at = "added", !.id = i] \in OpenerRecord
  BY <1>1 DEF OpenerRecord
<1>5. opener' \in [Openers -> OpenerRecord]
  BY <1>1, <1>2a, <1>4
<1>6. /\ opener'[t].at = "added" /\ opener'[t].id = i /\ opener'[t].since = opener[t].since
      /\ opener[t].seen \in Versions
      /\ \A u \in Openers \ {t} : opener'[u] = opener[u]
  BY <1>1, <1>2 DEF OpenerRecord
<1>7. /\ version' \in [ProfileIds -> Versions \cup {0}] /\ version'[i] = opener[t].seen
      /\ \A j \in ProfileIds \ {i} : version'[j] = version[j]
  BY <1>2, <1>6 DEF ProfileInv, ProfileTypes
<1>8. /\ forward' \in [ProfileIds -> {"none", "in_hand", "kept", "leaving", "dropped"}] /\ forward'[i] = "in_hand"
      /\ \A j \in ProfileIds \ {i} : forward'[j] = forward[j]
  BY <1>2 DEF ProfileInv, ProfileTypes
<1>9. i # 0 /\ opener[t].seen # 0 /\ i \notin {registered, forgotten}
  BY <1>2, <1>6, Numbers DEF ProfileInv, OwnIds
<1>10. /\ registered \in ProfileIds \cup {0} /\ forgotten \in ProfileIds \cup {0}
       /\ \A u \in Openers : opener[u] \in OpenerRecord /\ opener[u].id \in ProfileIds \cup {0}
  BY DEF ProfileInv, ProfileTypes, OpenerRecord
<1>11. \A u \in Openers : opener[u].at \in Bringing \cup Having =>
          opener[u].id \in ProfileIds /\ opener[u].id # i
  BY <1>2, <1>10 DEF ProfileInv, OwnIds
<1>12. ProfileTypes'
  BY <1>3, <1>5, <1>7, <1>8 DEF ProfileInv, ProfileTypes
<1>13. OwnIds'
  <2>1. (registered # 0 => version[registered] # 0)' /\ (forgotten # 0 => version[forgotten] # 0 /\ forgotten # registered)'
    BY <1>3, <1>7, <1>9, <1>10 DEF ProfileInv, OwnIds
  <2>2. (\A u \in Openers : opener[u].at \in Bringing \cup Having => opener[u].id # 0 /\ version[opener[u].id] # 0)'
    BY <1>3, <1>6, <1>7, <1>9, <1>11 DEF ProfileInv, OwnIds
  <2>3. (\A u \in Openers : opener[u].at \in Bringing => forward[opener[u].id] = "in_hand")'
    BY <1>3, <1>6, <1>8, <1>11 DEF ProfileInv, OwnIds
  <2>4. (\A u, v \in Openers :
          opener[u].at \in Bringing /\ opener[v].at \in Bringing /\ opener[u].id = opener[v].id => u = v)'
    BY <1>3, <1>6, <1>11 DEF ProfileInv, OwnIds
  <2>5. (\A u \in Openers : opener[u].at = "added" => opener[u].id \notin {registered, forgotten})'
    BY <1>3, <1>6, <1>9 DEF ProfileInv, OwnIds
  <2> QED BY <2>1, <2>2, <2>3, <2>4, <2>5 DEF OwnIds
<1>14. RegisteredTunnelIsUp'
  BY <1>3, <1>8, <1>9, <1>10 DEF ProfileInv, RegisteredTunnelIsUp, Reachable
<1>15. Unedited'
  <2> SUFFICES ASSUME saved = 1 PROVE Unedited'
    BY <1>3 DEF Unedited
  <2>1. \A u \in Openers : opener'[u].at \in Having \cup {"won"} => opener'[u].id = registered
    BY <1>6 DEF ProfileInv, Unedited, Having
  <2>2. \A j \in ProfileIds : forward'[j] = "kept" => j = registered
    BY <1>8 DEF ProfileInv, Unedited
  <2> QED BY <1>3, <2>1, <2>2 DEF ProfileInv, Unedited
<1>16. Undisturbed'
  <2> SUFFICES ASSUME ~overlapped PROVE Undisturbed'
    BY <1>3 DEF Undisturbed
  <2>1. registered # 0 => version'[registered] = version[registered]
    BY <1>7, <1>9, <1>10
  <2>2. \A u \in Openers :
              /\ opener'[u].at # "rest" => opener'[u].since = acked
              /\ opener'[u].at \in {"read", "missed", "routed"} => opener'[u].seen = saved
              /\ opener'[u].at \in Having \cup {"won"} => opener'[u].id = registered
    BY <1>3, <1>6 DEF ProfileInv, Undisturbed, Having
  <2>3. \A u \in Openers : opener'[u].at = "added" => version'[opener'[u].id] = saved
    BY <1>3, <1>6, <1>7, <1>11 DEF ProfileInv, Undisturbed, Bringing
  <2> QED BY <1>3, <2>1, <2>2, <2>3 DEF ProfileInv, Undisturbed
<1> QED BY <1>12, <1>13, <1>14, <1>15, <1>16 DEF ProfileInv

LEMMA RegisterKeeps == ASSUME ProfileInv, NEW t \in Openers, Register(t) PROVE ProfileInv'
<1>1. /\ opener \in [Openers -> OpenerRecord] /\ opener[t] \in OpenerRecord
      /\ registered \in ProfileIds \cup {0} /\ forgotten \in ProfileIds \cup {0}
      /\ \A u \in Openers : opener[u].id \in ProfileIds \cup {0}
  BY DEF ProfileInv, ProfileTypes, OpenerRecord
<1>2. /\ opener[t].at = "added"
      /\ UNCHANGED <<saved, acked, editing, forgotten, version, session, open,
                     closing, badge, overlapped, outdated, strayed>>
  BY DEF Register
<1>3. /\ opener[t].id \in ProfileIds /\ opener[t].id # 0 /\ version[opener[t].id] # 0
      /\ forward[opener[t].id] = "in_hand" /\ opener[t].id \notin {registered, forgotten}
      /\ \A u \in Openers \ {t} : opener[u].at \in Bringing => opener[u].id # opener[t].id
  BY <1>1, <1>2 DEF ProfileInv, OwnIds, Bringing, Having
<1>4. CASE registered = 0
  <2>1. registered' = opener[t].id /\ ThreadAt(t, "won") /\ UNCHANGED forward
    BY <1>4 DEF Register
  <2>2. opener' \in [Openers -> OpenerRecord] /\ opener'[t] = [opener[t] EXCEPT !.at = "won"]
    BY <2>1, OneThreadMoves DEF ProfileInv
  <2>3. \A u \in Openers \ {t} : opener'[u] = opener[u]
    BY <2>1, OneThreadMoves DEF ProfileInv
  <2>4. opener'[t].at = "won" /\ opener'[t].id = opener[t].id /\ opener'[t].since = opener[t].since
    BY <1>1, <2>2 DEF OpenerRecord
  <2>5. ProfileTypes'
    BY <1>2, <1>3, <2>1, <2>2 DEF ProfileInv, ProfileTypes
  <2>6. OwnIds'
    BY <1>2, <1>3, <2>1, <2>3, <2>4 DEF ProfileInv, OwnIds, Bringing, Having
  <2>7. RegisteredTunnelIsUp'
    BY <1>3, <2>1 DEF RegisteredTunnelIsUp, Reachable
  <2>8. Unedited'
    <3> SUFFICES ASSUME saved = 1 PROVE Unedited'
      BY <1>2 DEF Unedited
    <3>1. \A u \in Openers : opener[u].at \notin Having \cup {"won"}
      BY <1>4 DEF ProfileInv, OwnIds, Unedited, Bringing
    <3>2. open \subseteq ProfileIds /\ open \subseteq {0} /\ 0 \notin ProfileIds
      BY <1>4, Numbers DEF ProfileInv, ProfileTypes, Unedited
    <3>3. \A j \in ProfileIds : forward[j] # "kept"
      BY <1>4, Numbers DEF ProfileInv, Unedited
    <3> QED BY <1>2, <2>1, <2>3, <2>4, <3>1, <3>2, <3>3 DEF ProfileInv, Unedited
  <2>9. Undisturbed'
    <3> SUFFICES ASSUME ~overlapped PROVE Undisturbed'
      BY <1>2 DEF Undisturbed
    <3>1. \A u \in Openers : opener[u].at \notin Having \cup {"won"}
      BY <1>4 DEF ProfileInv, OwnIds, Undisturbed, Bringing
    <3>2. version[opener[t].id] = saved /\ saved >= acked
      BY <1>2, ProfilesBounds DEF ProfileInv, Undisturbed, ProfileTypes, Versions
    <3> QED BY <1>2, <1>4, <2>1, <2>3, <2>4, <3>1, <3>2 DEF ProfileInv, Undisturbed, Having
  <2> QED BY <2>5, <2>6, <2>7, <2>8, <2>9 DEF ProfileInv
<1>5. CASE registered # 0
  <2>1. /\ opener' = [opener EXCEPT ![t].at = "opened", ![t].id = registered]
        /\ forward' = [forward EXCEPT ![opener[t].id] = "dropped"]
        /\ UNCHANGED registered
    BY <1>5 DEF Register
  <2>2. opener' = [opener EXCEPT ![t] = [opener[t] EXCEPT !.at = "opened", !.id = registered]]
    BY <1>1, <2>1
  <2>3. [opener[t] EXCEPT !.at = "opened", !.id = registered] \in OpenerRecord
    BY <1>1 DEF OpenerRecord
  <2>4. opener' \in [Openers -> OpenerRecord]
    BY <1>1, <2>2, <2>3
  <2>5. /\ opener'[t].at = "opened" /\ opener'[t].id = registered /\ opener'[t].since = opener[t].since
        /\ \A u \in Openers \ {t} : opener'[u] = opener[u]
    BY <1>1, <2>2 DEF OpenerRecord
  <2>6. /\ forward' \in [ProfileIds -> {"none", "in_hand", "kept", "leaving", "dropped"}]
        /\ forward'[opener[t].id] = "dropped"
        /\ \A j \in ProfileIds \ {opener[t].id} : forward'[j] = forward[j]
    BY <1>3, <2>1 DEF ProfileInv, ProfileTypes
  <2>12. UNCHANGED registered
    BY <2>1
  <2>7. ProfileTypes'
    BY <1>2, <2>12, <2>4, <2>6 DEF ProfileInv, ProfileTypes
  <2>8. OwnIds'
    <3>1. (\A u \in Openers : opener[u].at \in Bringing => forward[opener[u].id] = "in_hand")'
      BY <1>1, <1>3, <2>5, <2>6 DEF ProfileInv, OwnIds, Bringing
    <3>2. (\A u \in Openers : opener[u].at \in Bringing \cup Having => opener[u].id # 0 /\ version[opener[u].id] # 0)'
      BY <1>2, <1>5, <2>5, <2>12 DEF ProfileInv, OwnIds, Bringing, Having
    <3> QED BY <1>2, <2>5, <2>12, <3>1, <3>2 DEF ProfileInv, OwnIds, Bringing
  <2>9. RegisteredTunnelIsUp'
    BY <1>1, <1>3, <1>5, <2>12, <2>6 DEF ProfileInv, RegisteredTunnelIsUp, Reachable
  <2>10. Unedited'
    <3>1. \A j \in ProfileIds : forward'[j] = "kept" => forward[j] = "kept"
      BY <2>6
    <3> QED BY <1>2, <2>12, <2>5, <3>1 DEF ProfileInv, Unedited, Having
  <2>11. Undisturbed'
    BY <1>2, <2>12, <2>5 DEF ProfileInv, Undisturbed, Having
  <2> QED BY <2>7, <2>8, <2>9, <2>10, <2>11 DEF ProfileInv
<1> QED BY <1>4, <1>5

\* A thread that has an id keeps it until it is done.
KeepsItsId(t) ==
    /\ opener' \in [Openers -> OpenerRecord]
    /\ \/ opener'[t].at = "rest"
       \/ opener'[t].at \in Having /\ opener'[t].id = opener[t].id /\ opener'[t].since = opener[t].since
    /\ \A u \in Openers \ {t} : opener'[u] = opener[u]

LEMMA ThreadKeepsItsId ==
    ASSUME ProfileInv, NEW t \in Openers,
           ThreadEnds(t) \/ \E at \in {"opened", "leased", "server", "client", "query"} : ThreadAt(t, at)
    PROVE  KeepsItsId(t)
<1>1. opener[t] \in OpenerRecord
  BY DEF ProfileInv, ProfileTypes
<1>2. \A u \in Openers \ {t} : opener'[u] = opener[u]
  BY OneThreadMoves DEF ProfileInv
<1>3. CASE ThreadEnds(t)
  BY <1>2, <1>3, OneThreadMoves DEF ProfileInv, KeepsItsId
<1>4. ASSUME NEW at \in {"opened", "leased", "server", "client", "query"}, ThreadAt(t, at) PROVE KeepsItsId(t)
  <2>1. opener' \in [Openers -> OpenerRecord] /\ opener'[t] = [opener[t] EXCEPT !.at = at]
    BY <1>4, OneThreadMoves DEF ProfileInv
  <2> QED BY <1>1, <1>2, <2>1 DEF KeepsItsId, OpenerRecord, Having
<1> QED BY <1>3, <1>4

LEMMA KeepForwardKeeps == ASSUME ProfileInv, NEW t \in Openers, KeepForward(t) PROVE ProfileInv'
<1>1. \A u \in Openers : opener[u].id \in ProfileIds \cup {0}
  BY DEF ProfileInv, ProfileTypes, OpenerRecord
<1>2. /\ opener[t].at = "won" /\ opener' \in [Openers -> OpenerRecord]
      /\ UNCHANGED <<saved, acked, editing, forgotten, registered, version, session, open,
                     closing, badge, overlapped, outdated, strayed>>
  BY ThreadKeepsItsId DEF KeepForward, KeepsItsId
<1>3. /\ \/ opener'[t].at = "rest"
         \/ opener'[t].at \in Having /\ opener'[t].id = opener[t].id /\ opener'[t].since = opener[t].since
      /\ \A u \in Openers \ {t} : opener'[u] = opener[u]
  BY ThreadKeepsItsId DEF KeepForward, KeepsItsId
<1>4. /\ opener[t].id \in ProfileIds
      /\ \A u \in Openers \ {t} : opener[u].at \in Bringing => opener[u].id # opener[t].id
  BY <1>1, <1>2 DEF ProfileInv, OwnIds, Bringing
<1>5. /\ forward' \in [ProfileIds -> {"none", "in_hand", "kept", "leaving", "dropped"}]
      /\ forward'[opener[t].id] = "kept"
      /\ \A j \in ProfileIds \ {opener[t].id} : forward'[j] = forward[j]
  BY <1>4 DEF ProfileInv, ProfileTypes, KeepForward
<1>6. ProfileTypes'
  BY <1>2, <1>5 DEF ProfileInv, ProfileTypes
<1>7. OwnIds'
  <2>1. (\A u \in Openers : opener[u].at \in Bringing => forward[opener[u].id] = "in_hand")'
    BY <1>1, <1>3, <1>4, <1>5 DEF ProfileInv, OwnIds, Bringing, Having
  <2> QED BY <1>2, <1>3, <2>1 DEF ProfileInv, OwnIds, Bringing, Having
<1>8. RegisteredTunnelIsUp'
  BY <1>2, <1>5 DEF ProfileInv, ProfileTypes, RegisteredTunnelIsUp, Reachable
<1>9. Unedited'
  <2> SUFFICES ASSUME saved = 1 PROVE Unedited'
    BY <1>2 DEF Unedited
  <2>1. opener[t].id = registered
    BY <1>2 DEF ProfileInv, Unedited
  <2>2. \A j \in ProfileIds : forward'[j] = "kept" => j = registered
    BY <1>5, <2>1 DEF ProfileInv, Unedited
  <2> QED BY <1>2, <1>3, <2>1, <2>2 DEF ProfileInv, Unedited, Having
<1>10. Undisturbed'
  BY <1>2, <1>3 DEF ProfileInv, Undisturbed, Having
<1> QED BY <1>6, <1>7, <1>8, <1>9, <1>10 DEF ProfileInv

----------------------------------------------------------------------------
(* Running a request *)

\* A step of a request leaves the registry, the tunnel and the profile alone.
RequestStep(t) ==
    /\ opener[t].at \in Having
    /\ KeepsItsId(t)
    /\ UNCHANGED <<saved, acked, editing, forgotten, registered, version, forward, closing, overlapped>>
    /\ session' \in [ProfileIds -> Nat]
    /\ open' \subseteq open \cup {opener[t].id}
    /\ badge' \in {0, badge, opener[t].id}
    /\ ~overlapped => ~outdated' /\ ~strayed'

LEMMA OpenerRequestKeeps == ASSUME ProfileInv, NEW t \in Openers, RequestStep(t) PROVE ProfileInv'
<1>1. opener[t] \in OpenerRecord /\ opener[t].id \in ProfileIds
  BY DEF ProfileInv, ProfileTypes, OpenerRecord, OwnIds, RequestStep
<1>2. /\ opener' \in [Openers -> OpenerRecord]
      /\ \/ opener'[t].at = "rest"
         \/ opener'[t].at \in Having /\ opener'[t].id = opener[t].id /\ opener'[t].since = opener[t].since
      /\ \A u \in Openers \ {t} : opener'[u] = opener[u]
  BY DEF RequestStep, KeepsItsId
<1>3. /\ opener[t].at \in Having
      /\ UNCHANGED <<saved, acked, editing, forgotten, registered, version, forward, closing, overlapped>>
      /\ session' \in [ProfileIds -> Nat]
      /\ open' \subseteq open \cup {opener[t].id}
      /\ badge' \in {0, badge, opener[t].id}
      /\ ~overlapped => ~outdated' /\ ~strayed'
  BY DEF RequestStep
<1>4. ProfileTypes'
  BY <1>1, <1>2, <1>3 DEF ProfileInv, ProfileTypes
<1>5. OwnIds'
  BY <1>2, <1>3 DEF ProfileInv, OwnIds, Bringing, Having
<1>6. RegisteredTunnelIsUp'
  BY <1>3 DEF ProfileInv, RegisteredTunnelIsUp, Reachable
<1>7. Unedited'
  BY <1>2, <1>3 DEF ProfileInv, Unedited, Having
<1>8. Undisturbed'
  BY <1>2, <1>3 DEF ProfileInv, Undisturbed, Having
<1> QED BY <1>4, <1>5, <1>6, <1>7, <1>8 DEF ProfileInv

LEMMA GetSessionSteps == ASSUME ProfileInv, NEW t \in Openers, GetSession(t) PROVE RequestStep(t)
<1>1. opener \in [Openers -> OpenerRecord] /\ opener[t] \in OpenerRecord /\ session \in [ProfileIds -> Nat]
  BY DEF ProfileInv, ProfileTypes
<1>2. /\ opener[t].at = "opened" /\ open' = open \cup {opener[t].id}
      /\ session' = IF opener[t].id \in open THEN session
                    ELSE [session EXCEPT ![opener[t].id] = session[opener[t].id] + 1]
      /\ UNCHANGED <<saved, acked, editing, forgotten, registered, version, forward,
                     closing, badge, overlapped, outdated, strayed>>
  BY <1>1 DEF GetSession
<1> DEFINE n == session'[opener[t].id]
<1>2a. opener' = [opener EXCEPT ![t].at = "session", ![t].nth = n]
  BY DEF GetSession
<1> HIDE DEF n
<1>3. opener[t].id \in ProfileIds
  BY <1>1, <1>2 DEF ProfileInv, OwnIds, Having, OpenerRecord
<1>4. session' \in [ProfileIds -> Nat] /\ n \in Nat
  BY <1>1, <1>2, <1>3 DEF n
<1>5. opener' = [opener EXCEPT ![t] = [opener[t] EXCEPT !.at = "session", !.nth = n]]
  BY <1>1, <1>2a
<1>6. [opener[t] EXCEPT !.at = "session", !.nth = n] \in OpenerRecord
  BY <1>1, <1>4 DEF OpenerRecord
<1>7. opener' \in [Openers -> OpenerRecord]
  BY <1>1, <1>5, <1>6
<1>8. /\ opener'[t].at = "session" /\ opener'[t].id = opener[t].id /\ opener'[t].since = opener[t].since
      /\ \A u \in Openers \ {t} : opener'[u] = opener[u]
  BY <1>1, <1>5 DEF OpenerRecord
<1>9. KeepsItsId(t)
  BY <1>7, <1>8 DEF KeepsItsId, Having
<1>10. ~overlapped => ~outdated /\ ~strayed
  BY DEF ProfileInv, Undisturbed
<1> QED BY <1>2, <1>4, <1>9, <1>10 DEF RequestStep, Having

LEMMA OtherStepsOfARequest ==
    ASSUME ProfileInv, NEW t \in Openers, DialSession(t) \/ ReadOnly(t) \/ Record(t) \/ Query(t)
    PROVE  RequestStep(t)
<1>1. /\ session \in [ProfileIds -> Nat]
      /\ opener[t].at \in Having => /\ ~overlapped => ~outdated /\ ~strayed /\ opener[t].id = registered
                                                                /\ opener[t].since = acked
                                    /\ opener[t].id # 0
      /\ ~overlapped => ~outdated /\ ~strayed
  BY DEF ProfileInv, ProfileTypes, Undisturbed, OwnIds, Having
<1>2. CASE DialSession(t)
  <2>1. KeepsItsId(t)
    BY <1>2, ThreadKeepsItsId DEF DialSession
  <2>2. ~overlapped => Reachable(opener[t].id)
    BY <1>1, <1>2 DEF ProfileInv, RegisteredTunnelIsUp, DialSession, Having
  <2> QED BY <1>1, <1>2, <2>1, <2>2 DEF RequestStep, DialSession, Having
<1>3. CASE ReadOnly(t)
  <2>1. KeepsItsId(t)
    BY <1>3, ThreadKeepsItsId DEF ReadOnly
  <2> QED BY <1>1, <1>3, <2>1 DEF RequestStep, ReadOnly, Having
<1>4. CASE Record(t)
  <2>1. KeepsItsId(t)
    BY <1>4, ThreadKeepsItsId DEF Record
  <2> QED BY <1>1, <1>4, <2>1 DEF RequestStep, Record, Having
<1>5. CASE Query(t)
  <2>1. KeepsItsId(t)
    BY <1>5, ThreadKeepsItsId DEF Query
  <2>2. ~overlapped => ~(version[opener[t].id] < opener[t].since)
    <3>1. ~overlapped => version[registered] >= acked /\ opener[t].id = registered /\ opener[t].since = acked
      BY <1>1, <1>5 DEF ProfileInv, Undisturbed, Query, Having
    <3>2. opener[t].id \in ProfileIds
      BY <1>1, <1>5 DEF ProfileInv, ProfileTypes, OpenerRecord, Query, Having
    <3>3. version[opener[t].id] \in Versions \cup {0} /\ saved \in Versions /\ acked \in 1 .. saved
      BY <3>2 DEF ProfileInv, ProfileTypes
    <3>4. version[opener[t].id] \in Nat /\ acked \in Nat
      BY <3>3, Numbers
    <3> QED BY <3>1, <3>4
  <2>3. /\ opener[t].at = "query" /\ outdated' = (outdated \/ version[opener[t].id] < opener[t].since)
        /\ UNCHANGED <<saved, acked, editing, forgotten, registered, version, session, open, forward,
                   closing, badge, overlapped, strayed>>
    BY <1>5 DEF Query
  <2>4. ~overlapped => ~outdated' /\ ~strayed'
    BY <1>1, <2>2, <2>3
  <2> QED BY <1>1, <2>1, <2>3, <2>4 DEF RequestStep, Having
<1> QED BY <1>2, <1>3, <1>4, <1>5

----------------------------------------------------------------------------
(* Editing the profile *)

LEMMA SaveKeeps == ASSUME ProfileInv, Save PROVE ProfileInv'
<1>1. /\ editing' = "saved" /\ editing = "no" /\ saved' = saved + 1 /\ saved <= MaxEdits
      /\ saved \in Nat \ {0} /\ acked \in 1 .. saved
      /\ UNCHANGED <<acked, forgotten, registered, version, session, open, forward, closing, badge,
                     opener, outdated, strayed>>
      /\ ~overlapped' => ~overlapped /\ \A t \in Openers : opener[t].at = "rest"
  BY Numbers DEF Save, ProfileInv, ProfileTypes
<1>2. saved' \in Versions /\ acked' \in 1 .. saved' /\ saved' # 1
  BY <1>1, ProfilesBounds DEF Versions
<1>3. ProfileTypes'
  BY <1>1, <1>2 DEF ProfileInv, ProfileTypes
<1>4. OwnIds' /\ RegisteredTunnelIsUp' /\ Unedited'
  BY <1>1, <1>2 DEF ProfileInv, OwnIds, RegisteredTunnelIsUp, Reachable, Unedited
<1>5. Undisturbed'
  BY <1>1 DEF ProfileInv, Undisturbed, Having
<1> QED BY <1>3, <1>4, <1>5 DEF ProfileInv

LEMMA ForgetKeeps == ASSUME ProfileInv, Forget PROVE ProfileInv'
<1>1. /\ editing' = "forgetting" /\ editing = "saved" /\ forgotten' = registered /\ registered' = 0
      /\ UNCHANGED <<saved, acked, version, session, open, forward, closing, badge, opener,
                     outdated, strayed>>
      /\ ~overlapped' => ~overlapped /\ \A t \in Openers : opener[t].at = "rest"
  BY DEF Forget
<1>2. ProfileTypes'
  BY <1>1 DEF ProfileInv, ProfileTypes
<1>3. OwnIds'
  BY <1>1 DEF ProfileInv, OwnIds, Bringing, Having
<1>4. RegisteredTunnelIsUp' /\ Unedited'
  BY <1>1 DEF ProfileInv, RegisteredTunnelIsUp, Unedited
<1>5. Undisturbed'
  BY <1>1 DEF ProfileInv, Undisturbed, Having
<1> QED BY <1>2, <1>3, <1>4, <1>5 DEF ProfileInv

LEMMA TidyKeeps == ASSUME ProfileInv, Tidy PROVE ProfileInv'
<1>1. /\ editing = "forgetting" /\ editing' = "no" /\ forgotten' = 0 /\ badge' = 0 /\ acked' = saved
      /\ UNCHANGED <<saved, registered, version, session, open, opener, outdated, strayed>>
      /\ ~overlapped' => ~overlapped /\ \A t \in Openers : opener[t].at = "rest"
  BY DEF Tidy
<1>2. /\ saved \in Nat \ {0} /\ registered \in ProfileIds \cup {0} /\ (forgotten # registered \/ forgotten = 0)
      /\ \A t \in Openers : opener[t].id \in ProfileIds \cup {0}
  BY Numbers DEF ProfileInv, ProfileTypes, OwnIds, OpenerRecord
<1>3. /\ closing' \in [ProfileIds -> {"no", "disconnect", "drop"}]
      /\ forward' \in [ProfileIds -> {"none", "in_hand", "kept", "leaving", "dropped"}]
      /\ \A i \in ProfileIds : forward'[i] = IF i = forgotten /\ forward[i] = "kept" THEN "leaving" ELSE forward[i]
  <2>1. CASE forgotten = 0
    BY <2>1, Numbers DEF ProfileInv, ProfileTypes, Tidy
  <2>2. CASE forgotten # 0
    <3>1. /\ closing' = [closing EXCEPT ![forgotten] = "disconnect"]
          /\ forward' = [forward EXCEPT ![forgotten] = IF forward[forgotten] = "kept" THEN "leaving"
                                                       ELSE forward[forgotten]]
      BY <2>2 DEF ProfileInv, ProfileTypes, Tidy
    <3> QED BY <2>2, <3>1 DEF ProfileInv, ProfileTypes
  <2> QED BY <2>1, <2>2
<1>4. ProfileTypes'
  BY <1>1, <1>2, <1>3 DEF ProfileInv, ProfileTypes
<1>5. OwnIds'
  <2>1. (\A t \in Openers : opener[t].at \in Bringing => forward[opener[t].id] = "in_hand")'
    BY <1>1, <1>2, <1>3 DEF ProfileInv, OwnIds, Bringing
  <2> QED BY <1>1, <2>1 DEF ProfileInv, OwnIds, Bringing, Having
<1>6. RegisteredTunnelIsUp'
  BY <1>1, <1>2, <1>3 DEF ProfileInv, RegisteredTunnelIsUp, Reachable
<1>7. Unedited'
  BY <1>1 DEF ProfileInv, Unedited
<1>8. Undisturbed'
  BY <1>1, <1>2 DEF ProfileInv, Undisturbed, Having
<1> QED BY <1>4, <1>5, <1>6, <1>7, <1>8 DEF ProfileInv

LEMMA ClosingKeeps == ASSUME ProfileInv, NEW i \in ProfileIds, Disconnect(i) \/ DropForward(i) PROVE ProfileInv'
<1>1. /\ closing' \in [ProfileIds -> {"no", "disconnect", "drop"}] /\ open' \subseteq open
      /\ UNCHANGED <<saved, acked, editing, forgotten, registered, version, session,
                     badge, opener, overlapped, outdated, strayed>>
  BY DEF ProfileInv, ProfileTypes, Disconnect, DropForward
<1>2. /\ forward' \in [ProfileIds -> {"none", "in_hand", "kept", "leaving", "dropped"}]
      /\ \A j \in ProfileIds : forward'[j] = forward[j] \/ (forward[j] = "leaving" /\ forward'[j] = "dropped")
  <2>1. CASE Disconnect(i)
    BY <2>1 DEF ProfileInv, ProfileTypes, Disconnect
  <2>2. CASE DropForward(i)
    <3>1. forward' = [forward EXCEPT ![i] = IF forward[i] = "leaving" THEN "dropped" ELSE forward[i]]
      BY <2>2 DEF ProfileInv, ProfileTypes, DropForward
    <3> QED BY <3>1 DEF ProfileInv, ProfileTypes
  <2> QED BY <2>1, <2>2
<1>3. registered \in ProfileIds \cup {0} /\ \A t \in Openers : opener[t].id \in ProfileIds \cup {0}
  BY DEF ProfileInv, ProfileTypes, OpenerRecord
<1>4. ProfileTypes'
  BY <1>1, <1>2 DEF ProfileInv, ProfileTypes
<1>5. OwnIds'
  <2>1. (\A t \in Openers : opener[t].at \in Bringing => forward[opener[t].id] = "in_hand")'
    BY <1>1, <1>2, <1>3 DEF ProfileInv, OwnIds, Bringing
  <2> QED BY <1>1, <2>1 DEF ProfileInv, OwnIds, Bringing, Having
<1>6. RegisteredTunnelIsUp'
  BY <1>1, <1>2, <1>3 DEF ProfileInv, RegisteredTunnelIsUp, Reachable
<1>7. Unedited'
  BY <1>1, <1>2 DEF ProfileInv, Unedited
<1>8. Undisturbed'
  BY <1>1 DEF ProfileInv, Undisturbed
<1> QED BY <1>4, <1>5, <1>6, <1>7, <1>8 DEF ProfileInv

----------------------------------------------------------------------------
LEMMA ProfileStepHolds == ProfileInv /\ [ProfilesNext]_profilesVars => ProfileInv'
<1>1. ASSUME ProfileInv, NEW t \in Openers, OpenProfile(t) PROVE ProfileInv'
  BY <1>1, ReadSavedKeeps, LookUpKeeps, RouteKeeps, AddProfileKeeps, RegisterKeeps, KeepForwardKeeps DEF OpenProfile
<1>2. ASSUME ProfileInv, NEW t \in Openers, RunRequest(t) PROVE ProfileInv'
  BY <1>2, GetSessionSteps, OtherStepsOfARequest, OpenerRequestKeeps DEF RunRequest
<1>3. ASSUME ProfileInv, EditProfile PROVE ProfileInv'
  BY <1>3, SaveKeeps, ForgetKeeps, TidyKeeps DEF EditProfile
<1>4. ASSUME ProfileInv, UNCHANGED profilesVars PROVE ProfileInv'
  BY <1>4 DEF profilesVars, ProfileInv, ProfileTypes, OwnIds, RegisteredTunnelIsUp, Reachable, Unedited, Undisturbed
<1> QED BY <1>1, <1>2, <1>3, <1>4, ClosingKeeps DEF ProfilesNext

\* However many threads open a profile at once, one id, one session and one forward come
\* of it, and that forward is up (ffi/core.rs:119).
THEOREM OneOpenerWins == ProfilesSpec => []RaceHasOneWinner
<1>1. ProfileInv => RaceHasOneWinner
  BY DEF ProfileInv, Unedited, RaceHasOneWinner, Having
<1> QED BY <1>1, ProfileInitHolds, ProfileStepHolds, PTL DEF ProfilesSpec

\* An edit that nothing overlaps is in force for all that is asked for after it, and the
\* badge is about what is registered (forget_profile in ffi/core.rs).
THEOREM QuietEditsHold == ProfilesSpec => []QuietEditTakesEffect
<1>1. ProfileInv => QuietEditTakesEffect
  BY DEF ProfileInv, Undisturbed, QuietEditTakesEffect, BadgeFits
<1> QED BY <1>1, ProfileInitHolds, ProfileStepHolds, PTL DEF ProfilesSpec

\* An id has a forward from the moment it is made.
LEMMA ProfileTypesStay == ASSUME ProfileInv, ProfilesTypeOK, [ProfilesNext]_profilesVars PROVE ProfilesTypeOK'
<1>1. ProfileTypes /\ ProfileTypes' /\ OwnIds /\ OwnIds'
  BY ProfileStepHolds DEF ProfileInv
<1>2. \A i \in ProfileIds : forward'[i] = "none" <=> version'[i] = 0
  <2> USE DEF ProfileTypes
  <2>1. \A i \in ProfileIds : forward[i] = "none" <=> version[i] = 0
    BY DEF ProfilesTypeOK
  <2>2. ASSUME NEW t \in Openers, AddProfile(t) PROVE \A i \in ProfileIds : forward'[i] = "none" <=> version'[i] = 0
    <3>1. PICK i \in ProfileIds : /\ version' = [version EXCEPT ![i] = opener[t].seen]
                                  /\ forward' = [forward EXCEPT ![i] = "in_hand"]
      BY <2>2 DEF AddProfile
    <3>2. opener[t].seen # 0
      BY <1>1, Numbers DEF OpenerRecord
    <3> QED BY <1>1, <2>1, <3>1, <3>2
  <2>3. ASSUME NEW t \in Openers, Register(t) PROVE \A i \in ProfileIds : forward'[i] = "none" <=> version'[i] = 0
    <3>1. opener[t].at = "added" /\ version' = version
      BY <2>3 DEF Register
    <3>2. opener[t].id \in ProfileIds /\ forward[opener[t].id] = "in_hand"
      BY <1>1, <3>1 DEF OwnIds, Bringing, OpenerRecord
    <3>3. forward' = forward \/ forward' = [forward EXCEPT ![opener[t].id] = "dropped"]
      BY <2>3 DEF Register
    <3> QED BY <1>1, <2>1, <3>1, <3>2, <3>3
  <2>4. ASSUME NEW t \in Openers, KeepForward(t) PROVE \A i \in ProfileIds : forward'[i] = "none" <=> version'[i] = 0
    <3>1. opener[t].at = "won" /\ version' = version /\ forward' = [forward EXCEPT ![opener[t].id] = "kept"]
      BY <2>4 DEF KeepForward
    <3>2. opener[t].id \in ProfileIds /\ forward[opener[t].id] = "in_hand"
      BY <1>1, <3>1 DEF OwnIds, Bringing, OpenerRecord
    <3> QED BY <1>1, <2>1, <3>1, <3>2
  <2>5. ASSUME Tidy PROVE \A i \in ProfileIds : forward'[i] = "none" <=> version'[i] = 0
    BY <1>1, <2>1, <2>5 DEF Tidy
  <2>6. ASSUME NEW i \in ProfileIds, DropForward(i) PROVE \A j \in ProfileIds : forward'[j] = "none" <=> version'[j] = 0
    BY <1>1, <2>1, <2>6 DEF DropForward
  <2>7. CASE UNCHANGED <<forward, version>>
    BY <2>1, <2>7
  <2>8. ASSUME NEW t \in Openers, ReadSaved(t) \/ LookUp(t) \/ Route(t) \/ RunRequest(t) PROVE UNCHANGED <<forward, version>>
    BY <2>8 DEF ReadSaved, LookUp, Route, RunRequest, GetSession, DialSession, ReadOnly, Record, Query
  <2>9. ASSUME Save \/ Forget \/ (\E i \in ProfileIds : Disconnect(i)) \/ UNCHANGED profilesVars PROVE UNCHANGED <<forward, version>>
    BY <2>9 DEF Save, Forget, Disconnect, profilesVars
  <2> QED BY <2>2, <2>3, <2>4, <2>5, <2>6, <2>7, <2>8, <2>9 DEF ProfilesNext, OpenProfile, EditProfile
<1>3. \A t \in Openers : opener'[t].at \notin {"rest", "read", "missed", "routed"} => version'[opener'[t].id] # 0
  <2>1. \A t \in Openers : opener'[t] \in OpenerRecord
    BY <1>1 DEF ProfileTypes
  <2> QED BY <1>1, <2>1 DEF OwnIds, Bringing, Having, OpenerRecord
<1> QED BY <1>1, <1>2, <1>3 DEF ProfileTypes, ProfilesTypeOK

LEMMA ProfileTypesStart == ProfilesInit => ProfilesTypeOK
<1> SUFFICES ASSUME ProfilesInit PROVE ProfilesTypeOK
  OBVIOUS
<1>1. ProfileTypes /\ OwnIds
  BY ProfileInitHolds DEF ProfileInv
<1>2. \A i \in ProfileIds : forward[i] = "none" /\ version[i] = 0
  BY DEF ProfilesInit
<1>3. \A t \in Openers : opener[t].at = "rest"
  BY DEF ProfilesInit, Resting
<1> QED BY <1>1, <1>2, <1>3 DEF ProfileTypes, ProfilesTypeOK

\* The registry of profiles has its types: whoever has got past the tunnel has an id that
\* stands for a profile, and every id has had a forward (open_profile in ffi/core.rs).
THEOREM ProfilesKeepTypes == ProfilesSpec => []ProfilesTypeOK
BY ProfileTypesStart, ProfileTypesStay, ProfileInitHolds, ProfileStepHolds, PTL DEF ProfilesSpec

-----------------------------------------------------------------------------
(***************************************************************************)
(* HostKeys                                                                *)
(*                                                                         *)
(* No key is pinned and no session comes up on a key that its user has not *)
(* accepted, and a pin stays, for any number of hosts, keys, algorithms    *)
(* and windows and any known_hosts of the user's own.                      *)
(*                                                                         *)
(* The argument: a window that is trusting carries a key that was accepted *)
(* when the fingerprint shown was compared (KnowWhatTheyPin).  Without a   *)
(* disturbance one window at most is trusting, so that the store it is     *)
(* about to write holds all the file held (QuietPins).                     *)
(***************************************************************************)

WindowRecord == [at : Places, host : Hosts \cup {NoHost}, key : Keys \cup {NoKey}, store : Pins]
LinkRecord == [at : {"down", "dialling", "up"}, host : Hosts \cup {NoHost}, key : Keys \cup {NoKey}, store : Pins]

KeyTypes ==
    /\ file \in Pins \cup {Garbled} /\ pendingKeys \in Pins
    /\ window \in [Windows -> WindowRecord] /\ link \in LinkRecord
    /\ \A w \in Windows : window[w].at # "idle" => window[w].host \in Hosts /\ window[w].key \in Keys
    /\ link.at # "down" => link.host \in Hosts
    /\ accepted \subseteq Hosts \X Keys /\ granted \subseteq accepted

KnowWhatTheyPin ==
    /\ \A w \in Windows : Trusting(w) => Chosen(w) \in accepted
    /\ \A w \in Windows : window[w].at \in {"pin", "writing"} => Informed(window[w].store)
    /\ link.at = "dialling" => Informed(link.store)
    /\ file # Garbled => Informed(file)
    /\ link.at = "up" => <<link.host, link.key>> \in accepted \cup System

StillPinned(store) == \A p \in granted : store[p[1]] = p[2]

QuietPins ==
    ~disturbed =>
        /\ \A v, w \in Windows : Trusting(v) /\ Trusting(w) => v = w
        /\ (\A w \in Windows : window[w].at # "writing") => file # Garbled /\ StillPinned(file)
        /\ \A w \in Windows :
              /\ window[w].at = "pin" => window[w].store = file /\ file[window[w].host] = NoKey
              /\ window[w].at = "writing" => /\ file = Empty /\ StillPinned(window[w].store)
                                             /\ window[w].store[window[w].host] = window[w].key
              /\ window[w].at = "clear" /\ window[w].store[window[w].host] = window[w].key =>
                    file[window[w].host] = window[w].key

KeysInv == KeyTypes /\ KnowWhatTheyPin /\ QuietPins

\* A file that cannot be parsed is none of pins, and an empty one pins nothing.
LEMMA Files == Empty \in Pins /\ Garbled \notin Pins /\ Informed(Empty) /\ Closed \in WindowRecord /\ Down \in LinkRecord
<1>1. Empty \in Pins /\ Informed(Empty)
  BY DEF Empty, Pins, Informed
<1>2. Garbled \notin Pins
  BY HostKeysAssumption DEF Garbled, Pins, NoKey
<1> QED BY <1>1, <1>2 DEF Closed, Down, WindowRecord, LinkRecord, Places

LEMMA KeysInitHold == HostKeysInit => KeysInv
<1>1. SUFFICES ASSUME HostKeysInit PROVE KeysInv
  OBVIOUS
<1>2. \A w \in Windows : window[w] = Closed
  BY <1>1 DEF HostKeysInit
<1>3. KeyTypes
  BY <1>1, <1>2, Files DEF HostKeysInit, KeyTypes, Closed, Down
<1>4. KnowWhatTheyPin /\ QuietPins
  BY <1>1, <1>2, Files DEF HostKeysInit, KnowWhatTheyPin, QuietPins, Trusting, Closed, Down, StillPinned
<1> QED BY <1>3, <1>4 DEF KeysInv

\* Where a window is afterwards.
LEMMA OneWindowMoves ==
    ASSUME KeyTypes, NEW w \in Windows
    PROVE  /\ \A at \in Places : WindowAt(w, at) =>
                 /\ window' \in [Windows -> WindowRecord] /\ window'[w].at = at
                 /\ window'[w].host = window[w].host /\ window'[w].key = window[w].key
                 /\ window'[w].store = window[w].store
                 /\ \A v \in Windows \ {w} : window'[v] = window[v]
           /\ Idle(w) => /\ window' \in [Windows -> WindowRecord] /\ window'[w].at = "idle"
                         /\ \A v \in Windows \ {w} : window'[v] = window[v]
<1>1. window \in [Windows -> WindowRecord] /\ window[w] \in WindowRecord
  BY DEF KeyTypes
<1>2. ASSUME NEW at \in Places, WindowAt(w, at)
      PROVE  /\ window' \in [Windows -> WindowRecord] /\ window'[w].at = at
             /\ window'[w].host = window[w].host /\ window'[w].key = window[w].key
             /\ window'[w].store = window[w].store
             /\ \A v \in Windows \ {w} : window'[v] = window[v]
  <2>1. [window[w] EXCEPT !.at = at] \in WindowRecord
    BY <1>1 DEF WindowRecord
  <2>2. window' = [window EXCEPT ![w] = [window[w] EXCEPT !.at = at]]
    BY <1>1, <1>2 DEF WindowAt
  <2>3. window' \in [Windows -> WindowRecord]
    BY <1>1, <2>1, <2>2
  <2> QED BY <1>1, <2>2, <2>3 DEF WindowRecord
<1>3. Idle(w) => /\ window' \in [Windows -> WindowRecord] /\ window'[w].at = "idle"
                 /\ \A v \in Windows \ {w} : window'[v] = window[v]
  BY <1>1, Files DEF Idle, Closed
<1> QED BY <1>2, <1>3

\* A window that moves without trusting, while the file and what was granted stay.
LEMMA OtherWindowsStay ==
    ASSUME KeysInv, NEW w \in Windows, window' \in [Windows -> WindowRecord], pendingKeys' \in Pins,
           \A v \in Windows \ {w} : window'[v] = window[v],
           window'[w].at # "idle" => window'[w].host \in Hosts /\ window'[w].key \in Keys,
           window'[w].at \in {"idle", "probed", "shown"},
           window[w].at # "writing",
           UNCHANGED <<file, link, accepted, granted, disturbed>>
    PROVE  KeysInv'
<1>1. KeyTypes'
  BY DEF KeysInv, KeyTypes
<1>2. KnowWhatTheyPin'
  BY DEF KeysInv, KnowWhatTheyPin, Trusting, Chosen, Informed
<1>3. QuietPins'
  <2> SUFFICES ASSUME ~disturbed PROVE QuietPins'
    BY DEF QuietPins
  <2>1. QuietPins
    BY DEF KeysInv
  <2>2. \A v \in Windows : Trusting(v)' => Trusting(v) /\ window'[v] = window[v]
    BY DEF Trusting
  <2>3. (\A v \in Windows : window[v].at # "writing")' => \A v \in Windows : window[v].at # "writing"
    OBVIOUS
  <2>4. StillPinned(file)' <=> StillPinned(file)
    BY DEF StillPinned
  <2>5. (\A v \in Windows :
           /\ window[v].at = "pin" => window[v].store = file /\ file[window[v].host] = NoKey
           /\ window[v].at = "clear" /\ window[v].store[window[v].host] = window[v].key =>
                 file[window[v].host] = window[v].key)'
    BY <2>1, <2>2 DEF QuietPins, Trusting
  <2>6. (\A v \in Windows :
           window[v].at = "writing" => /\ file = Empty /\ StillPinned(window[v].store)
                                       /\ window[v].store[window[v].host] = window[v].key)'
    <3>1. \A v \in Windows : window'[v].at = "writing" => window[v].at = "writing" /\ window'[v] = window[v]
      BY <2>2 DEF Trusting
    <3>2. ASSUME NEW v \in Windows, window[v].at = "writing"
          PROVE  file = Empty /\ StillPinned(window[v].store) /\ window[v].store[window[v].host] = window[v].key
      BY <2>1, <3>2 DEF QuietPins
    <3>3. \A store : StillPinned(store) => \A p \in granted' : store[p[1]] = p[2]
      BY DEF StillPinned
    <3>4. ASSUME NEW v \in Windows, window'[v].at = "writing"
          PROVE  /\ file' = Empty /\ \A p \in granted' : window'[v].store[p[1]] = p[2]
                 /\ window'[v].store[window'[v].host] = window'[v].key
      BY <3>1, <3>2, <3>3, <3>4
    <3> QED BY <3>4 DEF StillPinned
  <2> QED BY <2>1, <2>2, <2>3, <2>4, <2>5, <2>6 DEF QuietPins
<1> QED BY <1>1, <1>2, <1>3 DEF KeysInv

----------------------------------------------------------------------------
LEMMA ReviewKeeps ==
    ASSUME KeysInv, NEW w \in Windows, NEW h \in Hosts, NEW k \in Keys, Probe(w, h, k) \/ Show(w) \/ Decline(w)
    PROVE  KeysInv'
<1>1. window \in [Windows -> WindowRecord] /\ pendingKeys \in Pins /\ window[w] \in WindowRecord
  BY DEF KeysInv, KeyTypes
<1>2. CASE Probe(w, h, k)
  <2> DEFINE r == [at |-> "probed", host |-> h, key |-> k, store |-> Empty]
  <2>1. r \in WindowRecord
    BY Files DEF WindowRecord, Places
  <2>2. window' \in [Windows -> WindowRecord] /\ window'[w] = r /\ \A v \in Windows \ {w} : window'[v] = window[v]
    BY <1>1, <1>2, <2>1 DEF Probe
  <2>3. window[w].at = "idle" /\ UNCHANGED <<file, pendingKeys, link, accepted, granted, disturbed>>
    BY <1>2 DEF Probe
  <2> QED BY <1>1, <2>2, <2>3, OtherWindowsStay
<1>3. CASE Show(w)
  <2>1. /\ window[w].at = "probed" /\ window[w].host \in Hosts /\ window[w].key \in Keys
        /\ UNCHANGED <<file, link, accepted, granted, disturbed>>
    BY <1>3 DEF Show, KeysInv, KeyTypes
  <2>2. pendingKeys' \in Pins
    BY <1>1, <1>3, <2>1 DEF Show, Pins
  <2>3. CASE WindowAt(w, "shown")
    <3>1. /\ window' \in [Windows -> WindowRecord] /\ window'[w].at = "shown"
          /\ window'[w].host = window[w].host /\ window'[w].key = window[w].key
          /\ \A v \in Windows \ {w} : window'[v] = window[v]
      BY <2>3, OneWindowMoves DEF KeysInv, Places
    <3> QED BY <2>1, <2>2, <3>1, OtherWindowsStay
  <2>4. CASE Idle(w)
    <3>1. window' \in [Windows -> WindowRecord] /\ window'[w].at = "idle" /\ \A v \in Windows \ {w} : window'[v] = window[v]
      BY <2>4, OneWindowMoves DEF KeysInv
    <3> QED BY <2>1, <2>2, <3>1, OtherWindowsStay
  <2> QED BY <1>3, <2>3, <2>4 DEF Show
<1>4. CASE Decline(w)
  <2>1. window' \in [Windows -> WindowRecord] /\ window'[w].at = "idle" /\ \A v \in Windows \ {w} : window'[v] = window[v]
    BY <1>4, OneWindowMoves DEF KeysInv, Decline
  <2>2. window[w].at = "shown" /\ UNCHANGED <<file, pendingKeys, link, accepted, granted, disturbed>>
    BY <1>4 DEF Decline
  <2> QED BY <1>1, <2>1, <2>2, OtherWindowsStay
<1> QED BY <1>2, <1>3, <1>4

LEMMA TrustKeeps == ASSUME KeysInv, NEW w \in Windows, Trust(w) PROVE KeysInv'
<1>1. /\ window[w].at = "shown" /\ window[w].host \in Hosts /\ window[w].key \in Keys
      /\ accepted' = accepted \cup {Chosen(w)}
      /\ UNCHANGED <<file, pendingKeys, link, granted>>
      /\ ~disturbed' => ~disturbed /\ \A v \in Windows : ~Trusting(v)
  BY DEF Trust, KeysInv, KeyTypes, Chosen
<1>2. /\ window' \in [Windows -> WindowRecord] /\ \A v \in Windows \ {w} : window'[v] = window[v]
      /\ \/ window'[w].at = "idle"
         \/ /\ window'[w].at = "trusting"
            /\ window'[w].host = window[w].host /\ window'[w].key = window[w].key
  <2>1. CASE WindowAt(w, "trusting")
    BY <2>1, OneWindowMoves DEF KeysInv, Places
  <2>2. CASE Idle(w)
    BY <2>2, OneWindowMoves DEF KeysInv
  <2> QED BY <2>1, <2>2 DEF Trust
<1>3. KeyTypes'
  BY <1>1, <1>2 DEF KeysInv, KeyTypes, Chosen
<1>4. KnowWhatTheyPin'
  <2>1. (\A v \in Windows : Trusting(v) => Chosen(v) \in accepted)'
    BY <1>1, <1>2 DEF KeysInv, KnowWhatTheyPin, Trusting, Chosen
  <2>2. \A store : Informed(store) => Informed(store)'
    BY <1>1 DEF Informed
  <2>3. (\A v \in Windows : window[v].at \in {"pin", "writing"} => Informed(window[v].store))'
    BY <1>1, <1>2 DEF KeysInv, KnowWhatTheyPin, Informed
  <2>4. (file # Garbled => Informed(file))' /\ (link.at = "dialling" => Informed(link.store))'
    BY <1>1 DEF KeysInv, KnowWhatTheyPin, Informed
  <2> QED BY <1>1, <2>1, <2>3, <2>4 DEF KeysInv, KnowWhatTheyPin
<1>5. QuietPins'
  <2> SUFFICES ASSUME ~disturbed' PROVE QuietPins'
    BY DEF QuietPins
  <2>1. ~disturbed /\ \A v \in Windows : window[v].at \notin {"trusting", "pin", "writing", "clear"}
    BY <1>1 DEF Trusting
  <2>2. file # Garbled /\ StillPinned(file)
    BY <2>1 DEF KeysInv, QuietPins
  <2>3. (file # Garbled /\ StillPinned(file))'
    BY <1>1, <2>2 DEF StillPinned
  <2>4. \A v \in Windows : window'[v].at \in {"trusting", "pin", "writing", "clear"} => v = w
    BY <1>2, <2>1
  <2> QED BY <1>2, <2>3, <2>4 DEF QuietPins, Trusting
<1> QED BY <1>3, <1>4, <1>5 DEF KeysInv

LEMMA OpenStoreKeeps == ASSUME KeysInv, NEW w \in Windows, OpenStore(w) PROVE KeysInv'
<1> DEFINE h == window[w].host   k == window[w].key
<1>1. /\ window[w].at = "trusting" /\ h \in Hosts /\ k \in Keys /\ window[w] \in WindowRecord
      /\ window \in [Windows -> WindowRecord]
      /\ UNCHANGED <<file, pendingKeys, link, accepted, granted, disturbed>>
  BY DEF OpenStore, KeysInv, KeyTypes
<1>2. /\ window' \in [Windows -> WindowRecord] /\ \A v \in Windows \ {w} : window'[v] = window[v]
      /\ \/ window'[w].at = "idle"
         \/ /\ file # Garbled /\ window'[w].store = file /\ window'[w].host = h /\ window'[w].key = k
            /\ window'[w].at = "clear" \/ (window'[w].at = "pin" /\ file[h] = NoKey)
  <2>1. \A listed : Unknown(file, listed, h, k) => file[h] = NoKey
    BY DEF Unknown, Trusted, Differs
  <2>2. ASSUME NEW at \in {"clear", "pin"}, file # Garbled, at = "pin" => file[h] = NoKey,
               window' = [window EXCEPT ![w].at = at, ![w].store = file]
        PROVE  /\ window' \in [Windows -> WindowRecord] /\ \A v \in Windows \ {w} : window'[v] = window[v]
               /\ window'[w].store = file /\ window'[w].host = h /\ window'[w].key = k
               /\ window'[w].at = "clear" \/ (window'[w].at = "pin" /\ file[h] = NoKey)
    <3>1. window' = [window EXCEPT ![w] = [window[w] EXCEPT !.at = at, !.store = file]]
      BY <1>1, <2>2
    <3>2. file \in Pins
      BY <2>2 DEF KeysInv, KeyTypes
    <3>3. [window[w] EXCEPT !.at = at, !.store = file] \in WindowRecord
      BY <1>1, <3>2 DEF WindowRecord, Places
    <3>4. window' \in [Windows -> WindowRecord] /\ \A v \in Windows \ {w} : window'[v] = window[v]
      BY <1>1, <3>1, <3>3
    <3>5. window'[w].at = at /\ window'[w].host = h /\ window'[w].key = k /\ window'[w].store = file
      BY <1>1, <3>1 DEF WindowRecord
    <3> QED BY <2>2, <3>4, <3>5
  <2>3. CASE Idle(w)
    BY <2>3, OneWindowMoves DEF KeysInv
  <2>4. \/ Idle(w)
        \/ /\ file # Garbled
           /\ \E at \in {"clear", "pin"} : /\ at = "pin" => file[h] = NoKey
                                          /\ window' = [window EXCEPT ![w].at = at, ![w].store = file]
    BY <2>1 DEF OpenStore
  <2> QED BY <2>2, <2>3, <2>4
<1> HIDE DEF h, k
<1>3. KeyTypes'
  BY <1>1, <1>2 DEF KeysInv, KeyTypes
<1>4. KnowWhatTheyPin'
  <2>1. <<h, k>> \in accepted
    BY <1>1 DEF KeysInv, KnowWhatTheyPin, Trusting, Chosen, h, k
  <2>2. (\A v \in Windows : Trusting(v) => Chosen(v) \in accepted)'
    BY <1>1, <1>2, <2>1 DEF KeysInv, KnowWhatTheyPin, Trusting, Chosen
  <2>3. (\A v \in Windows : window[v].at \in {"pin", "writing"} => Informed(window[v].store))'
    BY <1>1, <1>2 DEF KeysInv, KnowWhatTheyPin, Informed
  <2> QED BY <1>1, <2>2, <2>3 DEF KeysInv, KnowWhatTheyPin, Informed
<1>5. QuietPins'
  <2> SUFFICES ASSUME ~disturbed PROVE QuietPins'
    BY <1>1 DEF QuietPins
  <2>1. \A v \in Windows : window[v].at \in {"trusting", "pin", "writing", "clear"} => v = w
    BY <1>1 DEF KeysInv, QuietPins, Trusting
  <2>2. file # Garbled /\ StillPinned(file)
    BY <1>1, <2>1 DEF KeysInv, QuietPins
  <2>3. (file # Garbled /\ StillPinned(file))'
    BY <1>1, <2>2 DEF StillPinned
  <2>4. \A v \in Windows : window'[v].at \in {"trusting", "pin", "writing", "clear"} => v = w
    BY <1>2, <2>1
  <2>5. window'[w].at = "pin" => window'[w].store = file' /\ file'[window'[w].host] = NoKey
    BY <1>1, <1>2
  <2>6. window'[w].at = "clear" /\ window'[w].store[window'[w].host] = window'[w].key =>
          file'[window'[w].host] = window'[w].key
    BY <1>1, <1>2
  <2>7. window'[w].at # "writing"
    BY <1>2
  <2> QED BY <2>3, <2>4, <2>5, <2>6, <2>7 DEF QuietPins, Trusting
<1> QED BY <1>3, <1>4, <1>5 DEF KeysInv

LEMMA TruncateKeeps == ASSUME KeysInv, NEW w \in Windows, Truncate(w) PROVE KeysInv'
<1> DEFINE h == window[w].host   k == window[w].key   store == [window[w].store EXCEPT ![h] = k]
<1>1. /\ window[w].at = "pin" /\ h \in Hosts /\ k \in Keys /\ window[w] \in WindowRecord
      /\ window \in [Windows -> WindowRecord] /\ file' = Empty
      /\ UNCHANGED <<pendingKeys, link, accepted, granted, disturbed>>
  BY DEF Truncate, KeysInv, KeyTypes
<1>2. window[w].store \in Pins /\ store \in Pins /\ store[h] = k /\ \A g \in Hosts \ {h} : store[g] = window[w].store[g]
  BY <1>1 DEF WindowRecord, Pins
<1>3. window' = [window EXCEPT ![w] = [window[w] EXCEPT !.at = "writing", !.store = store]]
  <2>1. window' = [window EXCEPT ![w].at = "writing", ![w].store[h] = k]
    BY DEF Truncate
  <2> QED BY <1>1, <2>1 DEF WindowRecord
<1> HIDE DEF store
<1>4. [window[w] EXCEPT !.at = "writing", !.store = store] \in WindowRecord
  BY <1>1, <1>2 DEF WindowRecord, Places
<1>5. window' \in [Windows -> WindowRecord] /\ \A v \in Windows \ {w} : window'[v] = window[v]
  BY <1>1, <1>3, <1>4
<1>6. window'[w].at = "writing" /\ window'[w].host = h /\ window'[w].key = k /\ window'[w].store = store
  BY <1>1, <1>3 DEF WindowRecord
<1> HIDE DEF h, k
<1>7. KeyTypes'
  BY <1>1, <1>5, <1>6, Files DEF KeysInv, KeyTypes
<1>8. KnowWhatTheyPin'
  <2>1. <<h, k>> \in accepted /\ Informed(window[w].store)
    BY <1>1 DEF KeysInv, KnowWhatTheyPin, Trusting, Chosen, h, k
  <2>2. Informed(store)
    BY <1>2, <2>1 DEF Informed
  <2>3. (\A v \in Windows : Trusting(v) => Chosen(v) \in accepted)'
    BY <1>1, <1>5, <1>6, <2>1 DEF KeysInv, KnowWhatTheyPin, Trusting, Chosen
  <2>4. (\A v \in Windows : window[v].at \in {"pin", "writing"} => Informed(window[v].store))'
    BY <1>1, <1>5, <1>6, <2>2 DEF KeysInv, KnowWhatTheyPin, Informed
  <2>5. Informed(file)'
    BY <1>1, Files DEF Informed, Empty
  <2> QED BY <1>1, <2>3, <2>4, <2>5 DEF KeysInv, KnowWhatTheyPin, Informed
<1>9. QuietPins'
  <2> SUFFICES ASSUME ~disturbed PROVE QuietPins'
    BY <1>1 DEF QuietPins
  <2>1. \A v \in Windows : window[v].at \in {"trusting", "pin", "writing", "clear"} => v = w
    BY <1>1 DEF KeysInv, QuietPins, Trusting
  <2>2. StillPinned(file) /\ window[w].store = file /\ file[h] = NoKey
    BY <1>1, <2>1 DEF KeysInv, QuietPins, h
  <2>3. \A p \in granted : p[1] \in Hosts /\ p[2] \in Keys
    BY DEF KeysInv, KeyTypes
  <2>4. ASSUME NEW p \in granted PROVE store[p[1]] = p[2]
    <3>1. file[p[1]] = p[2] /\ p[1] # h
      BY <2>2, <2>3, HostKeysAssumption DEF StillPinned
    <3> QED BY <1>2, <2>2, <2>3, <3>1
  <2>7. \A v \in Windows : window'[v].at \in {"trusting", "pin", "writing", "clear"} => v = w
    BY <1>5, <2>1
  <2>8. (StillPinned(window[w].store) /\ window[w].store[window[w].host] = window[w].key)'
    BY <1>1, <1>2, <1>6, <2>4 DEF StillPinned
  <2> QED BY <1>1, <1>6, <2>7, <2>8 DEF QuietPins, Trusting
<1> QED BY <1>7, <1>8, <1>9 DEF KeysInv

LEMMA WriteKeeps == ASSUME KeysInv, NEW w \in Windows, Write(w) \/ WriteFails(w) PROVE KeysInv'
<1> DEFINE h == window[w].host   k == window[w].key
<1>1. /\ window[w].at = "writing" /\ h \in Hosts /\ k \in Keys /\ window[w].store \in Pins
      /\ UNCHANGED <<pendingKeys, link, accepted, granted>>
  BY DEF Write, WriteFails, KeysInv, KeyTypes, WindowRecord
<1>2. \/ file' \in {file, Garbled} /\ disturbed'
      \/ file' = window[w].store /\ WindowAt(w, "clear") /\ disturbed' = disturbed
      \/ file # Empty /\ file' = Garbled /\ disturbed' = disturbed
  BY DEF Write, WriteFails
<1>3. /\ window' \in [Windows -> WindowRecord] /\ \A v \in Windows \ {w} : window'[v] = window[v]
      /\ \/ window'[w].at = "idle"
         \/ /\ window'[w].at = "clear"
            /\ window'[w].host = h /\ window'[w].key = k
  <2>1. CASE WindowAt(w, "clear")
    BY <2>1, OneWindowMoves DEF KeysInv, Places
  <2>2. CASE Idle(w)
    BY <2>2, OneWindowMoves DEF KeysInv
  <2> QED BY <2>1, <2>2 DEF Write, WriteFails
<1>4. file' \in {file, Garbled, window[w].store}
  BY <1>2
<1>5. KeyTypes'
  BY <1>1, <1>3, <1>4 DEF KeysInv, KeyTypes
<1>6. KnowWhatTheyPin'
  <2>1. <<h, k>> \in accepted /\ Informed(window[w].store)
    BY <1>1 DEF KeysInv, KnowWhatTheyPin, Trusting, Chosen, h, k
  <2> HIDE DEF h, k
  <2>2. (\A v \in Windows : Trusting(v) => Chosen(v) \in accepted)'
    BY <1>1, <1>3, <2>1 DEF KeysInv, KnowWhatTheyPin, Trusting, Chosen
  <2>3. (\A v \in Windows : window[v].at \in {"pin", "writing"} => Informed(window[v].store))'
    BY <1>1, <1>3 DEF KeysInv, KnowWhatTheyPin, Informed
  <2>4. (file # Garbled => Informed(file))'
    BY <1>1, <1>4, <2>1 DEF KeysInv, KnowWhatTheyPin, Informed
  <2> QED BY <1>1, <2>2, <2>3, <2>4 DEF KeysInv, KnowWhatTheyPin, Informed
<1>7. QuietPins'
  <2> SUFFICES ASSUME ~disturbed' PROVE QuietPins'
    BY DEF QuietPins
  <2>1. ~disturbed
    BY <1>2
  <2>2. \A v \in Windows : window[v].at \in {"trusting", "pin", "writing", "clear"} => v = w
    BY <1>1, <2>1 DEF KeysInv, QuietPins, Trusting
  <2>3. file = Empty /\ StillPinned(window[w].store) /\ window[w].store[h] = k
    BY <1>1, <2>1 DEF KeysInv, QuietPins
  <2>4. file' = window[w].store
    BY <1>2, <2>3
  <2>5. (file # Garbled /\ StillPinned(file))'
    BY <1>1, <2>3, <2>4, Files DEF StillPinned
  <2>6. file'[h] = k
    BY <2>3, <2>4
  <2>7. \A v \in Windows : window'[v].at \in {"trusting", "pin", "writing", "clear"} => v = w
    BY <1>3, <2>2
  <2>8. (window[w].at = "clear" => file[window[w].host] = window[w].key)' /\ window'[w].at \notin {"pin", "writing"}
    BY <1>3, <2>6
  <2> QED BY <2>5, <2>7, <2>8 DEF QuietPins, Trusting
<1> QED BY <1>5, <1>6, <1>7 DEF KeysInv

LEMMA ClearKeeps == ASSUME KeysInv, NEW w \in Windows, Clear(w) PROVE KeysInv'
<1>1. /\ window[w].at = "clear" /\ window[w].host \in Hosts /\ window[w].key \in Keys
      /\ granted' = granted \cup {p \in {Chosen(w)} : window[w].store[p[1]] = p[2]} /\ Chosen(w) \in accepted
      /\ UNCHANGED <<file, link, accepted, disturbed>>
      /\ pendingKeys' \in Pins
  BY DEF Clear, KeysInv, KeyTypes, KnowWhatTheyPin, Trusting, Chosen, Pins
<1>2. window' \in [Windows -> WindowRecord] /\ window'[w].at = "idle" /\ \A v \in Windows \ {w} : window'[v] = window[v]
  BY OneWindowMoves DEF KeysInv, Clear
<1>3. KeyTypes'
  BY <1>1, <1>2 DEF KeysInv, KeyTypes
<1>4. KnowWhatTheyPin'
  BY <1>1, <1>2 DEF KeysInv, KnowWhatTheyPin, Trusting, Chosen, Informed
<1>5. QuietPins'
  <2> SUFFICES ASSUME ~disturbed PROVE QuietPins'
    BY <1>1 DEF QuietPins
  <2>1. \A v \in Windows : window[v].at \in {"trusting", "pin", "writing", "clear"} => v = w
    BY <1>1 DEF KeysInv, QuietPins, Trusting
  <2>2. \A v \in Windows : window'[v].at \notin {"trusting", "pin", "writing", "clear"}
    BY <1>2, <2>1
  <2>3. /\ file # Garbled /\ StillPinned(file)
        /\ window[w].store[window[w].host] = window[w].key => file[window[w].host] = window[w].key
    BY <1>1, <2>1 DEF KeysInv, QuietPins
  <2>4. \A p \in granted' : file[p[1]] = p[2]
    BY <1>1, <2>3 DEF StillPinned, Chosen
  <2>5. (file # Garbled /\ StillPinned(file))'
    BY <1>1, <2>3, <2>4 DEF StillPinned
  <2> QED BY <2>2, <2>5 DEF QuietPins, Trusting
<1> QED BY <1>3, <1>4, <1>5 DEF KeysInv

----------------------------------------------------------------------------
LEMMA KeysCrashKeeps == ASSUME KeysInv, Crash PROVE KeysInv'
<1>1. /\ window' = [w \in Windows |-> Closed] /\ pendingKeys' = Empty /\ link' = Down
      /\ UNCHANGED <<file, accepted, granted>>
      /\ ~disturbed' => ~disturbed /\ \A w \in Windows : window[w].at # "writing"
  BY DEF Crash
<1>2. window' \in [Windows -> WindowRecord] /\ \A w \in Windows : window'[w].at = "idle"
  BY <1>1, Files DEF Closed
<1>3. KeyTypes'
  BY <1>1, <1>2, Files DEF KeysInv, KeyTypes, Down
<1>4. KnowWhatTheyPin'
  BY <1>1, <1>2 DEF KeysInv, KnowWhatTheyPin, Trusting, Informed, Down
<1>5. QuietPins'
  BY <1>1, <1>2 DEF KeysInv, QuietPins, Trusting, StillPinned
<1> QED BY <1>3, <1>4, <1>5 DEF KeysInv

\* What the connector of a session has read is informed, and so is the key it came up on.
LinkFits ==
    /\ link \in LinkRecord /\ (link.at # "down" => link.host \in Hosts)
    /\ link.at = "dialling" => Informed(link.store)
    /\ link.at = "up" => <<link.host, link.key>> \in accepted \cup System

LEMMA LinkMoves ==
    ASSUME KeysInv, LinkFits', UNCHANGED <<file, pendingKeys, window, accepted, granted, disturbed>>
    PROVE  KeysInv'
<1>1. KeyTypes'
  BY DEF KeysInv, KeyTypes, LinkFits
<1>2. KnowWhatTheyPin'
  BY DEF KeysInv, KnowWhatTheyPin, LinkFits, Trusting, Chosen, Informed
<1>3. QuietPins'
  BY DEF KeysInv, QuietPins, Trusting, StillPinned
<1> QED BY <1>1, <1>2, <1>3 DEF KeysInv

LEMMA LinkOpensKeeps == ASSUME KeysInv, NEW h \in Hosts, LinkOpens(h) PROVE KeysInv'
<1>1. /\ link' = [Down EXCEPT !.at = "dialling", !.host = h, !.store = file] /\ file # Garbled
      /\ UNCHANGED <<file, pendingKeys, window, accepted, granted, disturbed>>
  BY DEF LinkOpens
<1>2. file \in Pins /\ Informed(file)
  BY <1>1 DEF KeysInv, KeyTypes, KnowWhatTheyPin
<1>3. link' = [at |-> "dialling", host |-> h, key |-> NoKey, store |-> file]
  BY <1>1 DEF Down
<1>4. LinkFits'
  BY <1>1, <1>2, <1>3 DEF LinkFits, LinkRecord, Informed
<1> QED BY <1>1, <1>4, LinkMoves

LEMMA LinkChecksKeeps == ASSUME KeysInv, NEW k \in Keys, LinkChecks(k) PROVE KeysInv'
<1>1. link \in LinkRecord /\ (link.at # "down" => link.host \in Hosts)
  BY DEF KeysInv, KeyTypes
<1>2. /\ link.at = "dialling" /\ UNCHANGED <<file, pendingKeys, window, accepted, granted, disturbed>>
  BY DEF LinkChecks
<1>3. ASSUME NEW listed \in Readings, Trusted(link.store, listed, link.host, k),
             link' = [link EXCEPT !.at = "up", !.key = k]
      PROVE  KeysInv'
  <2>1. Informed(link.store)
    BY <1>2 DEF KeysInv, KnowWhatTheyPin
  <2>2. <<link.host, k>> \in accepted \cup System
    BY <1>1, <1>2, <1>3, <2>1, HostKeysAssumption DEF Trusted, Informed, Readings
  <2>3. link' \in LinkRecord /\ link'.at = "up" /\ link'.host = link.host /\ link'.key = k
    BY <1>1, <1>2, <1>3 DEF LinkRecord
  <2>4. LinkFits'
    BY <1>1, <1>2, <2>2, <2>3 DEF LinkFits
  <2> QED BY <1>2, <2>4, LinkMoves
<1>4. CASE link' = Down
  <2>1. LinkFits'
    BY <1>2, <1>4, Files DEF LinkFits, Down
  <2> QED BY <1>2, <2>1, LinkMoves
<1> QED BY <1>3, <1>4 DEF LinkChecks

LEMMA LinkClosesKeeps == ASSUME KeysInv, LinkCloses PROVE KeysInv'
<1>1. LinkFits' /\ UNCHANGED <<file, pendingKeys, window, accepted, granted, disturbed>>
  BY Files DEF LinkCloses, LinkFits, Down
<1> QED BY <1>1, LinkMoves

LEMMA KeysStepHolds == KeysInv /\ [HostKeysNext]_hostKeyVars => KeysInv'
<1>1. ASSUME KeysInv, NEW w \in Windows, TrustHostKey(w) PROVE KeysInv'
  BY <1>1, TrustKeeps, OpenStoreKeeps, TruncateKeeps, WriteKeeps, ClearKeeps DEF TrustHostKey
<1>2. ASSUME KeysInv, UNCHANGED hostKeyVars PROVE KeysInv'
  BY <1>2 DEF hostKeyVars, KeysInv, KeyTypes, KnowWhatTheyPin, QuietPins, Trusting, Chosen, Informed,
              StillPinned
<1>3. ASSUME KeysInv, NEW w \in Windows, NEW h \in Hosts, NEW k \in Keys, Probe(w, h, k) PROVE KeysInv'
  BY <1>3, ReviewKeeps
<1>4. ASSUME KeysInv, NEW w \in Windows, Show(w) \/ Decline(w) PROVE KeysInv'
  <2>1. \E h \in Hosts, k \in Keys : TRUE
    BY <1>4 DEF Show, Decline, KeysInv, KeyTypes
  <2> QED BY <1>4, <2>1, ReviewKeeps
<1> QED BY <1>1, <1>2, <1>3, <1>4, KeysCrashKeeps, LinkOpensKeeps, LinkChecksKeeps,
       LinkClosesKeeps DEF HostKeysNext

\* Nothing is pinned and no session comes up that its user has not accepted, and on quiet
\* days every pin that trust_host_key has returned Ok for is still there (trust_host_key
\* in ffi/ssh.rs, status and pin in host_key.rs), for any number of hosts, keys, algorithms
\* and windows and whatever is in the user's own known_hosts.
THEOREM PinsStayTheUsers == HostKeysSpec => []PinsAreTheUsers
<1>1. KeysInv => PinsAreTheUsers
  BY DEF KeysInv, KnowWhatTheyPin, QuietPins, PinsAreTheUsers, TrustIsInformed, QuietPinsStay, StillPinned
<1> QED BY <1>1, KeysInitHold, KeysStepHolds, PTL DEF HostKeysSpec

LEMMA HostKeyTypesStay == ASSUME KeysInv, HostKeysTypeOK, [HostKeysNext]_hostKeyVars PROVE HostKeysTypeOK'
<1>1. KeyTypes'
  BY KeysStepHolds DEF KeysInv
<1>2. \A w \in Windows : window'[w] \in WindowRecord
  BY <1>1 DEF KeyTypes
<1>3. reviews' \in 0 .. MaxReviews /\ mishaps' \in 0 .. MaxMishaps
  <2> USE HostKeysAssumption DEF HostKeysTypeOK
  <2>1. ASSUME NEW w \in Windows, NEW h \in Hosts, NEW k \in Keys, Probe(w, h, k)
        PROVE  reviews' \in 0 .. MaxReviews /\ mishaps' \in 0 .. MaxMishaps
    BY <2>1 DEF Probe
  <2>2. ASSUME NEW w \in Windows, Show(w) \/ Decline(w) \/ TrustHostKey(w)
        PROVE  reviews' \in 0 .. MaxReviews /\ mishaps' \in 0 .. MaxMishaps
    <3>1. ~WriteFails(w) => UNCHANGED <<reviews, mishaps>>
      BY <2>2 DEF Show, Decline, TrustHostKey, Trust, OpenStore, Truncate, Write, Clear
    <3>2. WriteFails(w) => reviews' = reviews /\ mishaps < MaxMishaps /\ mishaps' = mishaps + 1
      BY DEF WriteFails
    <3> QED BY <3>1, <3>2
  <2>3. ASSUME Crash PROVE reviews' \in 0 .. MaxReviews /\ mishaps' \in 0 .. MaxMishaps
    BY <2>3 DEF Crash
  <2>4. /\ \A h \in Hosts : LinkOpens(h) => UNCHANGED <<reviews, mishaps>>
        /\ \A k \in Keys : LinkChecks(k) => UNCHANGED <<reviews, mishaps>>
        /\ LinkCloses \/ UNCHANGED hostKeyVars => UNCHANGED <<reviews, mishaps>>
    <3> HIDE HostKeysAssumption DEF HostKeysTypeOK
    <3>1. \A h \in Hosts : LinkOpens(h) => UNCHANGED <<reviews, mishaps>>
      BY DEF LinkOpens
    <3>2. \A k \in Keys : LinkChecks(k) => UNCHANGED <<reviews, mishaps>>
      BY DEF LinkChecks
    <3>3. LinkCloses \/ UNCHANGED hostKeyVars => UNCHANGED <<reviews, mishaps>>
      BY DEF LinkCloses, hostKeyVars
    <3> QED BY <3>1, <3>2, <3>3
  <2>5. CASE UNCHANGED <<reviews, mishaps>>
    BY <2>5
  <2> HIDE HostKeysAssumption DEF HostKeysTypeOK
  <2> QED BY <2>1, <2>2, <2>3, <2>4, <2>5 DEF HostKeysNext
<1> QED BY <1>1, <1>2, <1>3 DEF KeyTypes, WindowRecord, LinkRecord, HostKeysTypeOK

LEMMA HostKeyTypesStart == HostKeysInit => HostKeysTypeOK
<1> SUFFICES ASSUME HostKeysInit PROVE HostKeysTypeOK
  OBVIOUS
<1>1. KeyTypes
  BY KeysInitHold DEF KeysInv
<1>2. \A w \in Windows : window[w] \in WindowRecord
  BY <1>1 DEF KeyTypes
<1>3. reviews \in 0 .. MaxReviews /\ mishaps \in 0 .. MaxMishaps
  BY HostKeysAssumption DEF HostKeysInit
<1> QED BY <1>1, <1>2, <1>3 DEF KeyTypes, WindowRecord, LinkRecord, HostKeysTypeOK

\* The pins, the keys that are pending and the windows that review them have their types.
THEOREM HostKeysKeepTypes == HostKeysSpec => []HostKeysTypeOK
BY HostKeyTypesStart, HostKeyTypesStay, KeysInitHold, KeysStepHolds, PTL DEF HostKeysSpec

-----------------------------------------------------------------------------
(***************************************************************************)
(* Export                                                                  *)
(*                                                                         *)
(* What is at the target of an export is what was there before or one      *)
(* whole export, for any number of exports, paths and batches.             *)
(*                                                                         *)
(* The argument: the files at a path are of exports to that path, so that  *)
(* nothing done for one path touches the files of another; and an export   *)
(* that is by itself on its path has the partial file open that it         *)
(* created, and that holds what it has written and nothing else.           *)
(***************************************************************************)

Stages == InDrive \cup {"unborn", "done", "failed", "cancelled", "lost"}
ExportRecord == [at : Stages, path : Paths, wrote : 0 .. Batches]
OpenFile == {"lease", "execute", "stream", "close"}
Born(e) == export[e].at # "unborn"

ExportTypes ==
    /\ export \in [Exports -> ExportRecord]
    /\ target \in [Paths -> Inodes] /\ part \in [Paths -> Exports \cup {NoFile}]
    /\ content \in [Inodes -> [Exports -> SUBSET (1 .. Batches)]]
    /\ fd \in [Exports -> Exports \cup {NoFile}]
    /\ crossed \subseteq Paths
    /\ \A e \in Exports : /\ export[e].at \in {"unborn", "saved"} => export[e].wrote = 0
                          /\ export[e].at \in {"close", "renaming"} => export[e].wrote = Batches

FilesOfThePath ==
    /\ \A p \in Paths : part[p] # NoFile => Born(part[p]) /\ PathOf(part[p]) = p
    /\ \A p \in Paths : target[p] # Before => Born(target[p]) /\ PathOf(target[p]) = p
    /\ \A e \in Exports : /\ fd[e] # NoFile => Born(fd[e]) /\ PathOf(fd[e]) = PathOf(e)
                          /\ fd[e] # NoFile <=> export[e].at \in OpenFile

\* The partial file holds what the export that created it has written.
WrittenBy(e) == [d \in Exports |-> IF d = e THEN 1 .. export[e].wrote ELSE {}]
ByItself(e) ==
    /\ \A d \in Exports : UnderWay(d) /\ PathOf(d) = PathOf(e) => d = e
    /\ export[e].at = "saved" => part[PathOf(e)] = NoFile
    /\ export[e].at \in OpenFile => fd[e] = e
    /\ export[e].at \in OpenFile \cup {"renaming"} => part[PathOf(e)] = e /\ content[e] = WrittenBy(e)

Uncrossed(p) ==
    /\ \A e \in Exports : UnderWay(e) /\ PathOf(e) = p => ByItself(e)
    /\ part[p] # NoFile => UnderWay(part[p])
    /\ target[p] # Before => export[target[p]].at = "done" /\ WholeOf(target[p], target[p])

ExportInv == ExportTypes /\ FilesOfThePath /\ \A p \in Paths \ crossed : Uncrossed(p)

LEMMA ExportInitHolds == ExportInit => ExportInv
<1>1. SUFFICES ASSUME ExportInit PROVE ExportInv
  OBVIOUS
<1> DEFINE p0 == CHOOSE p \in Paths : TRUE
<1>2. p0 \in Paths
  BY ExportBounds
<1> HIDE DEF p0
<1>3. export = [e \in Exports |-> [at |-> "unborn", path |-> p0, wrote |-> 0]]
  BY <1>1 DEF ExportInit, p0
<1>4. export \in [Exports -> ExportRecord] /\ \A e \in Exports : export[e].at = "unborn" /\ export[e].wrote = 0
  BY <1>2, <1>3, ExportBounds DEF ExportRecord, Stages
<1>5. ExportTypes
  BY <1>1, <1>4 DEF ExportInit, ExportTypes, Inodes, Blank
<1>6. FilesOfThePath
  BY <1>1, <1>4 DEF ExportInit, FilesOfThePath, OpenFile
<1>7. \A p \in Paths : Uncrossed(p)
  BY <1>1, <1>4 DEF ExportInit, Uncrossed, UnderWay, InDrive
<1> QED BY <1>5, <1>6, <1>7 DEF ExportInv

\* The files at a path are exports, or nothing, or what was there before.
LEMMA FilesAre ==
    ASSUME ExportInv
    PROVE  /\ \A p \in Paths : part[p] # NoFile => part[p] \in Exports
           /\ \A p \in Paths : target[p] # Before => target[p] \in Exports
           /\ \A e \in Exports : PathOf(e) \in Paths /\ (UnderWay(e) => Born(e))
BY DEF ExportInv, ExportTypes, Inodes, ExportRecord, PathOf, UnderWay, Born, InDrive

\* What one export does leaves the other paths alone.
LEMMA OtherPathsStay ==
    ASSUME ExportInv, NEW e \in Exports, NEW q \in Paths \ crossed,
           \A d \in Exports \ {e} : export'[d] = export[d] /\ fd'[d] = fd[d],
           Born(e) => PathOf(e) # q,
           UnderWay(e)' => PathOf(e)' # q,
           target'[q] = target[q], part'[q] = part[q],
           \A d \in Exports : Born(d) /\ PathOf(d) = q => content'[d] = content[d]
    PROVE  Uncrossed(q)'
<1>1. \A d \in Exports : (UnderWay(d) /\ PathOf(d) = q)' => d # e /\ UnderWay(d) /\ PathOf(d) = q
  BY DEF UnderWay, PathOf
<1>2. ASSUME NEW d \in Exports, (UnderWay(d) /\ PathOf(d) = q)' PROVE ByItself(d)'
  <2>1. ByItself(d) /\ d # e /\ PathOf(d) = q /\ PathOf(d)' = q
    BY <1>1, <1>2 DEF ExportInv, Uncrossed
  <2>2. export'[d] = export[d] /\ fd'[d] = fd[d] /\ content'[d] = content[d]
    BY <1>1, <1>2, <2>1, FilesAre
  <2>3. (\A c \in Exports : UnderWay(c) /\ PathOf(c) = PathOf(d) => c = d)'
    BY <1>1, <2>1 DEF ByItself
  <2>4. WrittenBy(d)' = WrittenBy(d)
    BY <2>2 DEF WrittenBy
  <2> QED BY <2>1, <2>2, <2>3, <2>4 DEF ByItself
<1>3. (part[q] # NoFile => UnderWay(part[q]))'
  BY FilesAre DEF ExportInv, FilesOfThePath, Uncrossed, UnderWay
<1>4. (target[q] # Before => export[target[q]].at = "done" /\ WholeOf(target[q], target[q]))'
  BY FilesAre DEF ExportInv, FilesOfThePath, Uncrossed, WholeOf
<1> QED BY <1>2, <1>3, <1>4 DEF Uncrossed

\* Where an export is afterwards.
LEMMA OneExportMoves ==
    ASSUME ExportTypes, NEW e \in Exports, NEW at \in Stages, Moves(e, at)
    PROVE  /\ export' \in [Exports -> ExportRecord]
           /\ export'[e].at = at /\ export'[e].path = export[e].path /\ export'[e].wrote = export[e].wrote
           /\ \A d \in Exports \ {e} : export'[d] = export[d]
<1>1. export \in [Exports -> ExportRecord] /\ export[e] \in ExportRecord
  BY DEF ExportTypes
<1>2. export' = [export EXCEPT ![e] = [export[e] EXCEPT !.at = at]]
  BY <1>1 DEF Moves
<1>3. [export[e] EXCEPT !.at = at] \in ExportRecord
  BY <1>1 DEF ExportRecord
<1>4. export' \in [Exports -> ExportRecord] /\ \A d \in Exports \ {e} : export'[d] = export[d]
  BY <1>1, <1>2, <1>3
<1>5. export'[e].at = at /\ export'[e].path = export[e].path /\ export'[e].wrote = export[e].wrote
  BY <1>1, <1>2 DEF ExportRecord
<1> QED BY <1>4, <1>5

LEMMA StartKeeps == ASSUME ExportInv, NEW e \in Exports, NEW p \in Paths, ExportStart(e, p) PROVE ExportInv'
<1>1. export \in [Exports -> ExportRecord] /\ export[e] \in ExportRecord
  BY DEF ExportInv, ExportTypes
<1>2. /\ export[e].at = "unborn"
      /\ export' = [export EXCEPT ![e].at = "saved", ![e].path = p]
      /\ UNCHANGED <<target, part, content, fd>>
      /\ crossed \subseteq crossed' /\ crossed' \subseteq Paths
      /\ p \notin crossed' => \A d \in Exports : ~(UnderWay(d) /\ PathOf(d) = p)
  BY DEF ExportStart, ExportInv, ExportTypes
<1>3. export' = [export EXCEPT ![e] = [export[e] EXCEPT !.at = "saved", !.path = p]]
  BY <1>1, <1>2
<1>4. [export[e] EXCEPT !.at = "saved", !.path = p] \in ExportRecord
  BY <1>1 DEF ExportRecord, Stages, InDrive
<1>5. export' \in [Exports -> ExportRecord] /\ \A d \in Exports \ {e} : export'[d] = export[d]
  BY <1>1, <1>3, <1>4
<1>6. export'[e].at = "saved" /\ export'[e].path = p /\ export'[e].wrote = export[e].wrote
  BY <1>1, <1>3 DEF ExportRecord
<1>7. ExportTypes'
  BY <1>2, <1>5, <1>6 DEF ExportInv, ExportTypes
<1>8. \A d \in Exports : Born(d) => d # e
  BY <1>2 DEF Born
<1>9. FilesOfThePath'
  <2>1. \A d \in Exports : Born(d) => Born(d)' /\ PathOf(d)' = PathOf(d)
    BY <1>5, <1>8 DEF Born, PathOf
  <2>2. fd \in [Exports -> Exports \cup {NoFile}] /\ fd[e] = NoFile
    BY <1>2 DEF ExportInv, ExportTypes, FilesOfThePath, OpenFile
  <2>3. \A d \in Exports : fd[d] # NoFile => d # e /\ PathOf(d)' = PathOf(d)
    BY <1>5, <2>2 DEF PathOf
  <2>4. (\A d \in Exports : fd[d] # NoFile => Born(fd[d]) /\ PathOf(fd[d]) = PathOf(d))'
    BY <1>2, <2>1, <2>2, <2>3 DEF ExportInv, FilesOfThePath
  <2>5. (\A d \in Exports : fd[d] # NoFile <=> export[d].at \in OpenFile)'
    BY <1>2, <1>5, <1>6, <2>2 DEF ExportInv, FilesOfThePath, OpenFile
  <2>6. (\A q \in Paths : part[q] # NoFile => Born(part[q]) /\ PathOf(part[q]) = q)'
    BY <1>2, <2>1, FilesAre DEF ExportInv, FilesOfThePath
  <2>7. (\A q \in Paths : target[q] # Before => Born(target[q]) /\ PathOf(target[q]) = q)'
    BY <1>2, <2>1, FilesAre DEF ExportInv, FilesOfThePath
  <2> QED BY <2>4, <2>5, <2>6, <2>7 DEF FilesOfThePath
<1>10. ASSUME NEW q \in Paths \ crossed', q # p PROVE Uncrossed(q)'
  <2>1. ~Born(e) /\ PathOf(e)' # q
    BY <1>2, <1>6, <1>10 DEF Born, PathOf
  <2> QED BY <1>2, <1>5, <1>10, <2>1, OtherPathsStay
<1>11. ASSUME p \notin crossed' PROVE Uncrossed(p)'
  <2>1. Uncrossed(p) /\ \A d \in Exports : ~(UnderWay(d) /\ PathOf(d) = p)
    BY <1>2, <1>11 DEF ExportInv
  <2>2. part[p] = NoFile
    BY <2>1, FilesAre DEF ExportInv, FilesOfThePath, Uncrossed
  <2>3. \A d \in Exports : (UnderWay(d) /\ PathOf(d) = p)' => d = e
    BY <1>5, <2>1 DEF UnderWay, PathOf
  <2>4. ByItself(e)'
    BY <1>2, <1>6, <2>2, <2>3 DEF ByItself, PathOf, OpenFile
  <2>5. target[p] # Before => target[p] \in Exports \ {e}
    BY <1>8, FilesAre DEF ExportInv, FilesOfThePath
  <2>6. (target[p] # Before => export[target[p]].at = "done" /\ WholeOf(target[p], target[p]))'
    BY <1>2, <1>5, <2>1, <2>5 DEF Uncrossed, WholeOf
  <2> QED BY <1>2, <2>2, <2>3, <2>4, <2>6 DEF Uncrossed
<1> QED BY <1>7, <1>9, <1>10, <1>11 DEF ExportInv

----------------------------------------------------------------------------
\* A step of an export that is under way: what is to be shown of it is about its own path.
LEMMA OwnPathSuffices ==
    ASSUME ExportInv, NEW e \in Exports, UnderWay(e), UNCHANGED crossed,
           ExportTypes', FilesOfThePath', PathOf(e)' = PathOf(e),
           \A d \in Exports \ {e} : export'[d] = export[d] /\ fd'[d] = fd[d],
           \A q \in Paths \ {PathOf(e)} : target'[q] = target[q] /\ part'[q] = part[q],
           \A d \in Exports : Born(d) /\ PathOf(d) # PathOf(e) => content'[d] = content[d],
           PathOf(e) \notin crossed => (UnderWay(e) => ByItself(e))' /\
              LET p == PathOf(e)
              IN  /\ part'[p] # NoFile => part'[p] = e /\ UnderWay(e)'
                  /\ (target[p] # Before => export[target[p]].at = "done" /\ WholeOf(target[p], target[p]))'
    PROVE  ExportInv'
<1>1. ASSUME NEW q \in Paths \ crossed, q # PathOf(e) PROVE Uncrossed(q)'
  <2>1. \A d \in Exports : Born(d) /\ PathOf(d) = q => content'[d] = content[d]
    BY <1>1
  <2> QED BY <1>1, <2>1, OtherPathsStay
<1>2. ASSUME PathOf(e) \notin crossed PROVE Uncrossed(PathOf(e))'
  <2> DEFINE p == PathOf(e)
  <2>1. p \in Paths /\ p' = p
    BY FilesAre
  <2>2. \A d \in Exports : UnderWay(d) /\ PathOf(d) = p => d = e
    BY <1>2, <2>1 DEF ExportInv, Uncrossed, ByItself
  <2>3. \A d \in Exports : (UnderWay(d) /\ PathOf(d) = p)' => d = e
    BY <2>1, <2>2 DEF UnderWay, PathOf
  <2>4. \A d \in Exports : (UnderWay(d) /\ PathOf(d) = p => ByItself(d))'
    BY <1>2, <2>3
  <2> QED BY <1>2, <2>1, <2>4 DEF Uncrossed, UnderWay
<1>3. crossed' = crossed
  OBVIOUS
<1>4. \A q \in Paths \ crossed : Uncrossed(q)'
  BY <1>1, <1>2
<1> QED BY <1>3, <1>4 DEF ExportInv

\* A step that goes to another stage and leaves the files at the paths as they are.
LEMMA AnotherStage ==
    ASSUME ExportInv, NEW e \in Exports, NEW at \in InDrive, Moves(e, at), UnderWay(e), at # "saved", UNCHANGED <<target, part, content, crossed>>,
           \/ fd' = fd /\ (at \in OpenFile <=> export[e].at \in OpenFile)
           \/ fd' = [fd EXCEPT ![e] = NoFile] /\ at \notin OpenFile,
           at \in OpenFile \cup {"renaming"} => export[e].at \in OpenFile \cup {"renaming"},
           at \in {"close", "renaming"} => export[e].wrote = Batches
    PROVE  ExportInv'
<1>1. /\ export' \in [Exports -> ExportRecord]
      /\ export'[e].at = at /\ export'[e].path = export[e].path /\ export'[e].wrote = export[e].wrote
      /\ \A d \in Exports \ {e} : export'[d] = export[d]
  BY OneExportMoves DEF ExportInv, Stages
<1>2. at # "unborn" /\ export[e].at # "unborn"
  BY DEF InDrive, UnderWay
<1>3. fd \in [Exports -> Exports \cup {NoFile}] /\ (fd[e] # NoFile <=> export[e].at \in OpenFile)
  BY DEF ExportInv, ExportTypes, FilesOfThePath
<1>4. /\ fd' \in [Exports -> Exports \cup {NoFile}] /\ fd'[e] \in {fd[e], NoFile}
      /\ fd'[e] # NoFile <=> at \in OpenFile
      /\ \A d \in Exports \ {e} : fd'[d] = fd[d]
  BY <1>3
<1>5. ExportTypes'
  BY <1>1, <1>2, <1>4 DEF ExportInv, ExportTypes
<1>6. \A d \in Exports : Born(d)' = Born(d) /\ PathOf(d)' = PathOf(d)
  BY <1>1, <1>2 DEF Born, PathOf
<1>7. FilesOfThePath'
  <2>1. (\A d \in Exports : fd[d] # NoFile => Born(fd[d]) /\ PathOf(fd[d]) = PathOf(d))'
    BY <1>3, <1>4, <1>6 DEF ExportInv, FilesOfThePath
  <2>2. (\A d \in Exports : fd[d] # NoFile <=> export[d].at \in OpenFile)'
    BY <1>1, <1>4 DEF ExportInv, FilesOfThePath
  <2>3. (\A q \in Paths : part[q] # NoFile => Born(part[q]) /\ PathOf(part[q]) = q)'
    BY <1>6, FilesAre DEF ExportInv, FilesOfThePath
  <2>4. (\A q \in Paths : target[q] # Before => Born(target[q]) /\ PathOf(target[q]) = q)'
    BY <1>6, FilesAre DEF ExportInv, FilesOfThePath
  <2> QED BY <2>1, <2>2, <2>3, <2>4 DEF FilesOfThePath
<1>8. UnderWay(e)' /\ PathOf(e)' = PathOf(e)
  BY <1>1 DEF UnderWay, PathOf
<1>9. ASSUME PathOf(e) \notin crossed
      PROVE  /\ ByItself(e)'
             /\ part'[PathOf(e)] # NoFile => part'[PathOf(e)] = e
             /\ (target[PathOf(e)] # Before =>
                    export[target[PathOf(e)]].at = "done" /\ WholeOf(target[PathOf(e)], target[PathOf(e)]))'
  <2> DEFINE p == PathOf(e)
  <2>1. p \in Paths /\ Uncrossed(p) /\ ByItself(e) /\ p' = p
    BY <1>8, <1>9, FilesAre DEF ExportInv, Uncrossed
  <2> HIDE DEF p
  <2>2. (\A d \in Exports : UnderWay(d) /\ PathOf(d) = PathOf(e) => d = e)'
    BY <1>1, <1>6, <2>1 DEF ByItself, UnderWay
  <2>3. WrittenBy(e)' = WrittenBy(e)
    BY <1>1 DEF WrittenBy
  <2>4. ByItself(e)'
    BY <1>1, <1>4, <1>6, <2>1, <2>2, <2>3 DEF ByItself
  <2>5. part[p] # NoFile => part[p] = e
    BY <2>1, FilesAre DEF ExportInv, FilesOfThePath, Uncrossed, ByItself, p
  <2>6. (target[p] # Before => export[target[p]].at = "done" /\ WholeOf(target[p], target[p]))'
    <3>1. target[p] # Before => target[p] \in Exports \ {e}
      BY <2>1, FilesAre DEF Uncrossed, UnderWay, InDrive
    <3> QED BY <1>1, <2>1, <3>1 DEF Uncrossed, WholeOf
  <2> QED BY <2>1, <2>4, <2>5, <2>6 DEF p
<1> QED BY <1>1, <1>4, <1>5, <1>7, <1>8, <1>9, OwnPathSuffices

LEMMA PlainStepsKeep ==
    ASSUME ExportInv, NEW e \in Exports,
           \/ ExportFails(e) \/ LeaseForExport(e) \/ ExecuteExport(e) \/ EndOfRows(e) \/ FinishExport(e)
           \/ CancelledExport(e)
    PROVE  ExportInv'
<1>1. export[e].at = "close" => export[e].wrote = Batches
  BY DEF ExportInv, ExportTypes
<1>2. CASE ExportFails(e)
  <2>1. /\ Moves(e, "removing_failed") /\ UnderWay(e) /\ fd' = [fd EXCEPT ![e] = NoFile]
        /\ UNCHANGED <<target, part, content, crossed>>
    BY <1>2 DEF ExportFails, Polls, UnderWay, InDrive
  <2> QED BY <2>1, AnotherStage DEF OpenFile, InDrive
<1>3. CASE LeaseForExport(e)
  <2>1. /\ Moves(e, "execute") /\ UnderWay(e) /\ export[e].at = "lease" /\ fd' = fd
        /\ UNCHANGED <<target, part, content, crossed>>
    BY <1>3 DEF LeaseForExport, Polls, UnderWay, InDrive
  <2> QED BY <2>1, AnotherStage DEF OpenFile, InDrive
<1>4. CASE ExecuteExport(e)
  <2>1. /\ Moves(e, "stream") /\ UnderWay(e) /\ export[e].at = "execute" /\ fd' = fd
        /\ UNCHANGED <<target, part, content, crossed>>
    BY <1>4 DEF ExecuteExport, Polls, UnderWay, InDrive
  <2> QED BY <2>1, AnotherStage DEF OpenFile, InDrive
<1>5. CASE EndOfRows(e)
  <2>1. /\ Moves(e, "close") /\ UnderWay(e) /\ export[e].at = "stream" /\ fd' = fd /\ export[e].wrote = Batches
        /\ UNCHANGED <<target, part, content, crossed>>
    BY <1>5 DEF EndOfRows, Polls, UnderWay, InDrive
  <2> QED BY <2>1, AnotherStage DEF OpenFile, InDrive
<1>6. CASE FinishExport(e)
  <2>1. /\ Moves(e, "renaming") /\ UnderWay(e) /\ export[e].at = "close" /\ fd' = [fd EXCEPT ![e] = NoFile]
        /\ UNCHANGED <<target, part, content, crossed>>
    BY <1>6 DEF FinishExport, Polls, UnderWay, InDrive
  <2> QED BY <1>1, <2>1, AnotherStage DEF OpenFile, InDrive
<1>7. CASE CancelledExport(e)
  <2>1. /\ Moves(e, "removing_cancelled") /\ UnderWay(e) /\ fd' = [fd EXCEPT ![e] = NoFile]
        /\ UNCHANGED <<target, part, content, crossed>>
    BY <1>7 DEF CancelledExport, UnderWay, InDrive
  <2> QED BY <2>1, AnotherStage DEF OpenFile, InDrive
<1> QED BY <1>2, <1>3, <1>4, <1>5, <1>6, <1>7

\* An export that is by itself on its path: what is at the path.
LEMMA AloneOnItsPath ==
    ASSUME ExportInv, NEW e \in Exports, UnderWay(e), PathOf(e) \notin crossed
    PROVE  /\ ByItself(e) /\ PathOf(e) \in Paths
           /\ \A d \in Exports \ {e} : UnderWay(d) => PathOf(d) # PathOf(e)
           /\ part[PathOf(e)] # NoFile => part[PathOf(e)] = e
           /\ target[PathOf(e)] # Before =>
                 /\ target[PathOf(e)] \in Exports \ {e} /\ export[target[PathOf(e)]].at = "done"
                 /\ WholeOf(target[PathOf(e)], target[PathOf(e)])
<1> DEFINE p == PathOf(e)
<1>1. p \in Paths /\ Uncrossed(p) /\ ByItself(e)
  BY FilesAre DEF ExportInv, Uncrossed
<1>2. part[p] # NoFile => part[p] = e
  BY <1>1, FilesAre DEF ExportInv, FilesOfThePath, Uncrossed, ByItself
<1>3. target[p] # Before => /\ target[p] \in Exports \ {e} /\ export[target[p]].at = "done"
                            /\ WholeOf(target[p], target[p])
  BY <1>1, FilesAre DEF Uncrossed, UnderWay, InDrive
<1> QED BY <1>1, <1>2, <1>3 DEF ByItself

\* A step that goes to another stage, whatever it does with the files: the files are
\* still of exports to their path.
LEMMA PathsStay ==
    ASSUME ExportInv, NEW e \in Exports, NEW at \in Stages \ {"unborn"}, UnderWay(e),
           export'[e].at = at, export'[e].path = export[e].path,
           \A d \in Exports \ {e} : export'[d] = export[d] /\ fd'[d] = fd[d],
           fd'[e] # NoFile => fd'[e] \in Exports /\ Born(fd'[e]) /\ PathOf(fd'[e]) = PathOf(e),
           fd'[e] # NoFile <=> at \in OpenFile,
           \A q \in Paths \ {PathOf(e)} : part'[q] = part[q] /\ target'[q] = target[q],
           LET p == PathOf(e)
           IN  /\ part'[p] # NoFile => part'[p] \in Exports /\ Born(part'[p]) /\ PathOf(part'[p]) = p
               /\ target'[p] # Before => target'[p] \in Exports /\ Born(target'[p]) /\ PathOf(target'[p]) = p
    PROVE  FilesOfThePath' /\ PathOf(e)' = PathOf(e)
<1>1. \A d \in Exports : Born(d) => Born(d)' /\ PathOf(d)' = PathOf(d)
  BY DEF Born, PathOf
<1>2. PathOf(e)' = PathOf(e) /\ \A d \in Exports : PathOf(d)' = PathOf(d)
  BY DEF PathOf
<1>3. fd \in [Exports -> Exports \cup {NoFile}]
  BY DEF ExportInv, ExportTypes
<1>4. (\A d \in Exports : fd[d] # NoFile => Born(fd[d]) /\ PathOf(fd[d]) = PathOf(d))'
  BY <1>1, <1>2, <1>3 DEF ExportInv, FilesOfThePath
<1>5. (\A d \in Exports : fd[d] # NoFile <=> export[d].at \in OpenFile)'
  BY DEF ExportInv, FilesOfThePath
<1>6. (\A q \in Paths : part[q] # NoFile => Born(part[q]) /\ PathOf(part[q]) = q)'
  BY <1>1, FilesAre DEF ExportInv, FilesOfThePath
<1>7. (\A q \in Paths : target[q] # Before => Born(target[q]) /\ PathOf(target[q]) = q)'
  BY <1>1, FilesAre DEF ExportInv, FilesOfThePath
<1> QED BY <1>2, <1>4, <1>5, <1>6, <1>7 DEF FilesOfThePath

LEMMA CreateKeeps == ASSUME ExportInv, NEW e \in Exports, CreatePartial(e) PROVE ExportInv'
<1> DEFINE p == PathOf(e)   i == IF part[p] = NoFile THEN e ELSE part[p]
<1>1. /\ export[e].at = "saved" /\ UnderWay(e) /\ Moves(e, "lease")
      /\ part' = [part EXCEPT ![p] = i]
      /\ content' = [content EXCEPT ![i] = Blank]
      /\ fd' = [fd EXCEPT ![e] = i]
      /\ UNCHANGED <<target, crossed>>
  BY DEF CreatePartial, Polls, UnderWay, InDrive
<1>2. /\ export' \in [Exports -> ExportRecord]
      /\ export'[e].at = "lease" /\ export'[e].path = export[e].path /\ export'[e].wrote = 0
      /\ \A d \in Exports \ {e} : export'[d] = export[d]
  BY <1>1, OneExportMoves DEF ExportInv, ExportTypes, Stages, InDrive
<1>3. p \in Paths /\ i \in Exports /\ Born(i) /\ PathOf(i) = p /\ i # NoFile /\ Born(e)
  BY <1>1, FilesAre, ExportBounds DEF ExportInv, FilesOfThePath
<1>4. fd \in [Exports -> Exports \cup {NoFile}] /\ part \in [Paths -> Exports \cup {NoFile}]
  BY DEF ExportInv, ExportTypes
<1>5. content \in [Inodes -> [Exports -> SUBSET (1 .. Batches)]] /\ i \in Inodes /\ Exports \subseteq Inodes
  BY <1>3 DEF ExportInv, ExportTypes, Inodes
<1>6. p \notin crossed => i = e /\ ByItself(e)
  BY <1>1, AloneOnItsPath DEF ByItself
<1>6a. p = PathOf(e) /\ (part[p] = NoFile => i = e)
  OBVIOUS
<1> HIDE DEF i, p
<1>7. /\ fd' \in [Exports -> Exports \cup {NoFile}] /\ fd'[e] = i /\ \A d \in Exports \ {e} : fd'[d] = fd[d]
      /\ part' \in [Paths -> Exports \cup {NoFile}] /\ part'[p] = i /\ \A q \in Paths \ {p} : part'[q] = part[q]
  BY <1>1, <1>3, <1>4
<1>8. /\ content' \in [Inodes -> [Exports -> SUBSET (1 .. Batches)]] /\ content'[i] = Blank
      /\ \A j \in Inodes \ {i} : content'[j] = content[j]
  <2>1. Blank \in [Exports -> SUBSET (1 .. Batches)]
    BY DEF Blank
  <2> QED BY <1>1, <1>5, <2>1
<1>9. ExportTypes'
  <2>1. UNCHANGED <<target, crossed>>
    BY <1>1
  <2>2. (\A d \in Exports : /\ export[d].at \in {"unborn", "saved"} => export[d].wrote = 0
                          /\ export[d].at \in {"close", "renaming"} => export[d].wrote = Batches)'
    BY <1>2 DEF ExportInv, ExportTypes
  <2> QED BY <1>2, <1>7, <1>8, <2>1, <2>2 DEF ExportInv, ExportTypes
<1>10. FilesOfThePath' /\ PathOf(e)' = PathOf(e)
  <2>1. target[p] # Before => target[p] \in Exports /\ Born(target[p]) /\ PathOf(target[p]) = p
    BY <1>3, FilesAre DEF ExportInv, FilesOfThePath
  <2> QED BY <1>1, <1>2, <1>3, <1>6a, <1>7, <2>1, PathsStay DEF Stages, InDrive, OpenFile
<1>11. ASSUME p \notin crossed
       PROVE  /\ ByItself(e)'
              /\ (target[p] # Before => export[target[p]].at = "done" /\ WholeOf(target[p], target[p]))' 
              /\ p' = p
  <2>1. ByItself(e) /\ i = e /\ p' = p
    BY <1>6, <1>6a, <1>10, <1>11 DEF p
  <2>2. \A d \in Exports \ {e} : UnderWay(d) => PathOf(d) # p
    BY <1>1, <1>6a, <1>11, AloneOnItsPath
  <2>3. (\A d \in Exports : UnderWay(d) /\ PathOf(d) = PathOf(e) => d = e)'
    BY <1>2, <1>6a, <1>10, <2>2 DEF UnderWay, PathOf
  <2>4. content'[e] = WrittenBy(e)'
    <3>1. 1 .. export'[e].wrote = {}
      BY <1>2
    <3> QED BY <1>8, <2>1, <3>1 DEF Blank, WrittenBy
  <2>5. ByItself(e)'
    BY <1>2, <1>6a, <1>7, <1>10, <2>1, <2>3, <2>4 DEF ByItself
  <2>6. target[p] # Before => /\ target[p] \in Exports \ {e} /\ export[target[p]].at = "done"
                              /\ WholeOf(target[p], target[p])
    BY <1>1, <1>6a, <1>11, AloneOnItsPath
  <2>7. (target[p] # Before => export[target[p]].at = "done" /\ WholeOf(target[p], target[p]))'
    BY <1>1, <1>2, <1>5, <1>8, <2>1, <2>6 DEF WholeOf
  <2> QED BY <2>1, <2>5, <2>7
<1>12. \A d \in Exports : Born(d) /\ PathOf(d) # PathOf(e) => content'[d] = content[d]
  BY <1>3, <1>5, <1>6a, <1>8
<1>13. UnderWay(e)' /\ (p \notin crossed => part'[p] = e)
  BY <1>2, <1>6, <1>7 DEF UnderWay, InDrive
<1> QED BY <1>1, <1>2, <1>6a, <1>7, <1>9, <1>10, <1>11, <1>12, <1>13, OwnPathSuffices DEF p

LEMMA WriteBatchKeeps == ASSUME ExportInv, NEW e \in Exports, WriteBatch(e) PROVE ExportInv'
<1> DEFINE p == PathOf(e)   n == export[e].wrote + 1
<1>1. /\ export[e].at = "stream" /\ UnderWay(e) /\ export[e].wrote < Batches
      /\ UNCHANGED <<target, part, fd, crossed>>
  BY DEF WriteBatch, Polls, UnderWay, InDrive
<1>2. export \in [Exports -> ExportRecord] /\ export[e] \in ExportRecord /\ export[e].wrote \in 0 .. Batches
  BY DEF ExportInv, ExportTypes, ExportRecord
<1>3. n \in 1 .. Batches
  BY <1>1, <1>2, ExportBounds
<1>4. export' = [export EXCEPT ![e] = [export[e] EXCEPT !.wrote = n]]
  BY <1>2 DEF WriteBatch
<1>5. [export[e] EXCEPT !.wrote = n] \in ExportRecord
  BY <1>2, <1>3, ExportBounds DEF ExportRecord
<1>6. export' \in [Exports -> ExportRecord] /\ \A d \in Exports \ {e} : export'[d] = export[d]
  BY <1>2, <1>4, <1>5
<1>7. export'[e].at = "stream" /\ export'[e].path = export[e].path /\ export'[e].wrote = n
  BY <1>1, <1>2, <1>4 DEF ExportRecord
<1>8. fd[e] \in Exports /\ fd[e] # NoFile /\ PathOf(fd[e]) = p /\ Born(fd[e])
  BY <1>1 DEF ExportInv, ExportTypes, FilesOfThePath, OpenFile
<1>9. content \in [Inodes -> [Exports -> SUBSET (1 .. Batches)]] /\ Exports \subseteq Inodes
  BY DEF ExportInv, ExportTypes, Inodes
<1>10. content' = [content EXCEPT ![fd[e]] = [content[fd[e]] EXCEPT ![e] = content[fd[e]][e] \cup {n}]]
  BY <1>8, <1>9 DEF WriteBatch
<1>11. p \notin crossed => ByItself(e) /\ fd[e] = e /\ part[p] = e
  BY <1>1, AloneOnItsPath DEF ByItself, OpenFile
<1>12. p = PathOf(e) /\ n = export[e].wrote + 1
  OBVIOUS
<1> HIDE DEF p, n
<1>13. /\ content' \in [Inodes -> [Exports -> SUBSET (1 .. Batches)]]
       /\ \A j \in Inodes \ {fd[e]} : content'[j] = content[j]
  <2>1. [content[fd[e]] EXCEPT ![e] = content[fd[e]][e] \cup {n}] \in [Exports -> SUBSET (1 .. Batches)]
    BY <1>3, <1>8, <1>9
  <2> QED BY <1>8, <1>9, <1>10, <2>1
<1>14. ExportTypes'
  BY <1>1, <1>6, <1>7, <1>13 DEF ExportInv, ExportTypes
<1>15. FilesOfThePath' /\ PathOf(e)' = PathOf(e)
  <2>1. p \in Paths /\ (target[p] # Before => target[p] \in Exports /\ Born(target[p]) /\ PathOf(target[p]) = p)
    BY <1>12, FilesAre DEF ExportInv, FilesOfThePath
  <2>2. part[p] # NoFile => part[p] \in Exports /\ Born(part[p]) /\ PathOf(part[p]) = p
    BY <2>1, FilesAre DEF ExportInv, FilesOfThePath
  <2> QED BY <1>1, <1>6, <1>7, <1>8, <1>12, <2>1, <2>2, PathsStay DEF Stages, InDrive, OpenFile
<1>16. ASSUME p \notin crossed
       PROVE  /\ ByItself(e)'
              /\ (target[p] # Before => export[target[p]].at = "done" /\ WholeOf(target[p], target[p]))'
              /\ p' = p
  <2>1. ByItself(e) /\ fd[e] = e /\ part[p] = e /\ p' = p
    BY <1>11, <1>12, <1>15, <1>16 DEF p
  <2>2. \A d \in Exports \ {e} : UnderWay(d) => PathOf(d) # p
    BY <1>1, <1>12, <1>16, AloneOnItsPath
  <2>3. (\A d \in Exports : UnderWay(d) /\ PathOf(d) = PathOf(e) => d = e)'
    BY <1>6, <1>12, <1>15, <2>2 DEF UnderWay, PathOf
  <2>4. content'[e] = WrittenBy(e)'
    <3>1. content[e] = WrittenBy(e)
      BY <1>1, <2>1 DEF ByItself, OpenFile
    <3>2. content'[e] = [content[e] EXCEPT ![e] = content[e][e] \cup {n}]
      BY <1>9, <1>10, <2>1
    <3>3. content[e][e] = 1 .. export[e].wrote /\ \A d \in Exports \ {e} : content[e][d] = {}
      BY <3>1 DEF WrittenBy
    <3>4. (1 .. export[e].wrote) \cup {n} = 1 .. n
      BY <1>2, <1>12
    <3>5. content'[e] = [d \in Exports |-> IF d = e THEN 1 .. n ELSE {}]
      BY <1>9, <3>2, <3>3, <3>4
    <3> QED BY <1>7, <3>5 DEF WrittenBy
  <2>5. ByItself(e)'
    BY <1>1, <1>7, <1>12, <1>15, <2>1, <2>3, <2>4 DEF ByItself
  <2>6. target[p] # Before => /\ target[p] \in Exports \ {e} /\ export[target[p]].at = "done"
                              /\ WholeOf(target[p], target[p])
    BY <1>1, <1>12, <1>16, AloneOnItsPath
  <2>7. (target[p] # Before => export[target[p]].at = "done" /\ WholeOf(target[p], target[p]))'
    BY <1>1, <1>6, <1>9, <1>13, <2>1, <2>6 DEF WholeOf
  <2> QED BY <2>1, <2>5, <2>7
<1>17. \A d \in Exports : Born(d) /\ PathOf(d) # PathOf(e) => content'[d] = content[d]
  BY <1>8, <1>9, <1>12, <1>13
<1>18. UnderWay(e)' /\ (p \notin crossed => part'[p] = e)
  BY <1>1, <1>7, <1>11 DEF UnderWay, InDrive
<1> QED BY <1>1, <1>6, <1>12, <1>14, <1>15, <1>16, <1>17, <1>18, OwnPathSuffices DEF p

LEMMA RenameKeeps == ASSUME ExportInv, NEW e \in Exports, Rename(e) PROVE ExportInv'
<1> DEFINE p == PathOf(e)
<1>1. export[e].at = "renaming" /\ UnderWay(e) /\ UNCHANGED <<content, fd, crossed>>
  BY DEF Rename, UnderWay, InDrive
<1>2. CASE Moves(e, "removing_failed") /\ UNCHANGED <<target, part>>
  BY <1>1, <1>2, AnotherStage DEF OpenFile, InDrive
<1>3. CASE /\ part[p] # NoFile
           /\ target' = [target EXCEPT ![p] = part[p]]
           /\ part' = [part EXCEPT ![p] = NoFile]
           /\ Moves(e, "done")
  <2>1. /\ export' \in [Exports -> ExportRecord]
        /\ export'[e].at = "done" /\ export'[e].path = export[e].path /\ export'[e].wrote = export[e].wrote
        /\ \A d \in Exports \ {e} : export'[d] = export[d]
    BY <1>3, OneExportMoves DEF ExportInv, Stages
  <2>2. p \in Paths /\ part[p] \in Exports /\ Born(part[p]) /\ PathOf(part[p]) = p /\ part[p] \in Inodes
    BY <1>3, FilesAre DEF ExportInv, FilesOfThePath, Inodes
  <2>3. target \in [Paths -> Inodes] /\ part \in [Paths -> Exports \cup {NoFile}]
    BY DEF ExportInv, ExportTypes
  <2>4. /\ target' \in [Paths -> Inodes] /\ part' \in [Paths -> Exports \cup {NoFile}]
        /\ target'[p] = part[p] /\ part'[p] = NoFile
        /\ \A q \in Paths \ {p} : target'[q] = target[q] /\ part'[q] = part[q]
    BY <1>3, <2>2, <2>3
  <2>5. ExportTypes'
    BY <1>1, <2>1, <2>4 DEF ExportInv, ExportTypes
  <2>6. fd[e] = NoFile
    BY <1>1 DEF ExportInv, FilesOfThePath, OpenFile
  <2>7. FilesOfThePath' /\ PathOf(e)' = PathOf(e)
    <3>1. "done" \in Stages \ {"unborn"} /\ "done" \notin OpenFile
      BY DEF Stages, OpenFile
    <3> QED BY <1>1, <2>1, <2>2, <2>4, <2>6, <3>1, PathsStay
  <2>8. ~UnderWay(e)'
    BY <2>1 DEF UnderWay, InDrive
  <2>9. ASSUME p \notin crossed
        PROVE  (target[p] # Before => export[target[p]].at = "done" /\ WholeOf(target[p], target[p]))'
    <3>1. part[p] = e /\ content[e] = WrittenBy(e) /\ export[e].wrote = Batches /\ p' = p
      BY <1>1, <2>7, <2>9, AloneOnItsPath DEF ByItself, ExportInv, ExportTypes
    <3>2. WholeOf(e, e)
      BY <3>1 DEF WholeOf, WrittenBy
    <3>3. WholeOf(e, e)'
      BY <1>1, <3>2 DEF WholeOf
    <3>4. target'[p] = e /\ export'[e].at = "done"
      BY <2>1, <2>4, <3>1
    <3> HIDE DEF p
    <3>5. target'[p'] = e
      BY <3>1, <3>4
    <3> QED BY <3>3, <3>4, <3>5
  <2>10. p \notin crossed => p' = p
    BY <2>7
  <2> QED BY <1>1, <2>1, <2>4, <2>5, <2>7, <2>8, <2>9, <2>10, OwnPathSuffices
<1> QED BY <1>2, <1>3 DEF Rename

LEMMA RemoveKeeps == ASSUME ExportInv, NEW e \in Exports, RemovePartial(e) PROVE ExportInv'
<1> DEFINE p == PathOf(e)
<1>1. /\ export[e].at \in {"removing_failed", "removing_cancelled"} /\ UnderWay(e)
      /\ part' = [part EXCEPT ![p] = NoFile] /\ UNCHANGED <<target, content, fd, crossed>>
  BY DEF RemovePartial, UnderWay, InDrive
<1>2. PICK at \in {"failed", "cancelled"} : Moves(e, at)
  BY DEF RemovePartial
<1>3. /\ export' \in [Exports -> ExportRecord]
      /\ export'[e].at = at /\ export'[e].path = export[e].path /\ export'[e].wrote = export[e].wrote
      /\ \A d \in Exports \ {e} : export'[d] = export[d]
  BY <1>2, OneExportMoves DEF ExportInv, Stages
<1>4. /\ p \in Paths /\ part \in [Paths -> Exports \cup {NoFile}] /\ fd[e] = NoFile
      /\ target[p] # Before => target[p] \in Exports /\ Born(target[p]) /\ PathOf(target[p]) = p
  BY <1>1, FilesAre DEF ExportInv, ExportTypes, FilesOfThePath, OpenFile
<1>5. part' \in [Paths -> Exports \cup {NoFile}] /\ part'[p] = NoFile /\ \A q \in Paths \ {p} : part'[q] = part[q]
  BY <1>1, <1>4
<1>6. ExportTypes'
  BY <1>1, <1>2, <1>3, <1>5 DEF ExportInv, ExportTypes
<1>7. FilesOfThePath' /\ PathOf(e)' = PathOf(e)
  <2>1. at \in Stages \ {"unborn"} /\ at \notin OpenFile
    BY <1>2 DEF Stages, OpenFile
  <2> QED BY <1>1, <1>3, <1>4, <1>5, <2>1, PathsStay
<1>8. ~UnderWay(e)'
  BY <1>2, <1>3 DEF UnderWay, InDrive
<1>9. ASSUME p \notin crossed
      PROVE  (target[p] # Before => export[target[p]].at = "done" /\ WholeOf(target[p], target[p]))'
  <2>1. target[p] # Before => /\ target[p] \in Exports \ {e} /\ export[target[p]].at = "done"
                              /\ WholeOf(target[p], target[p])
    BY <1>1, <1>9, AloneOnItsPath
  <2> QED BY <1>1, <1>3, <1>7, <2>1 DEF WholeOf
<1> QED BY <1>1, <1>3, <1>5, <1>6, <1>7, <1>8, <1>9, OwnPathSuffices

LEMMA ExportsCrashKeeps == ASSUME ExportInv, ExportsCrash PROVE ExportInv'
<1>1. /\ export' = [e \in Exports |-> IF UnderWay(e) THEN [export[e] EXCEPT !.at = "lost"] ELSE export[e]]
      /\ fd' = [e \in Exports |-> NoFile]
      /\ UNCHANGED <<target, part, content>>
      /\ crossed' = crossed \cup {PathOf(e) : e \in {d \in Exports : UnderWay(d)}}
  BY DEF ExportsCrash
<1>2. \A e \in Exports : export[e] \in ExportRecord
  BY DEF ExportInv, ExportTypes
<1>3. \A e \in Exports : [export[e] EXCEPT !.at = "lost"] \in ExportRecord
  BY <1>2 DEF ExportRecord, Stages
<1>4. export' \in [Exports -> ExportRecord]
  BY <1>1, <1>2, <1>3
<1>5. \A e \in Exports : /\ export'[e].path = export[e].path
                         /\ export'[e].at = IF UnderWay(e) THEN "lost" ELSE export[e].at
                         /\ ~UnderWay(e) => export'[e] = export[e]
  BY <1>1, <1>2 DEF ExportRecord
<1>6. \A e \in Exports : ~UnderWay(e)' /\ PathOf(e)' = PathOf(e) /\ (Born(e) => Born(e)')
  BY <1>5 DEF UnderWay, InDrive, PathOf, Born
<1>7. ExportTypes'
  <2>1. \A e \in Exports : /\ export'[e].at \in {"unborn", "saved"} => export'[e].wrote = 0
                           /\ export'[e].at \in {"close", "renaming"} => export'[e].wrote = Batches
    BY <1>5 DEF ExportInv, ExportTypes
  <2>2. crossed' \subseteq Paths
    BY <1>1, FilesAre DEF ExportInv, ExportTypes
  <2> QED BY <1>1, <1>4, <2>1, <2>2 DEF ExportInv, ExportTypes
<1>8. FilesOfThePath'
  <2>1. \A e \in Exports : export'[e].at \notin OpenFile
    BY <1>5 DEF UnderWay, InDrive, OpenFile
  <2>2. (\A q \in Paths : part[q] # NoFile => Born(part[q]) /\ PathOf(part[q]) = q)'
    BY <1>1, <1>6, FilesAre DEF ExportInv, FilesOfThePath
  <2>3. (\A q \in Paths : target[q] # Before => Born(target[q]) /\ PathOf(target[q]) = q)'
    BY <1>1, <1>6, FilesAre DEF ExportInv, FilesOfThePath
  <2> QED BY <1>1, <2>1, <2>2, <2>3 DEF FilesOfThePath
<1>9. ASSUME NEW q \in Paths \ crossed' PROVE Uncrossed(q)'
  <2>1. Uncrossed(q) /\ \A e \in Exports : UnderWay(e) => PathOf(e) # q
    BY <1>1, <1>9 DEF ExportInv
  <2>2. part[q] = NoFile
    BY <2>1, FilesAre DEF ExportInv, FilesOfThePath, Uncrossed
  <2>3. target[q] # Before => /\ target[q] \in Exports /\ ~UnderWay(target[q])
                              /\ export[target[q]].at = "done" /\ WholeOf(target[q], target[q])
    BY <2>1, FilesAre DEF Uncrossed, UnderWay, InDrive
  <2>4. (target[q] # Before => export[target[q]].at = "done" /\ WholeOf(target[q], target[q]))'
    BY <1>1, <1>5, <2>3 DEF WholeOf
  <2> QED BY <1>1, <1>6, <2>2, <2>4 DEF Uncrossed
<1> QED BY <1>7, <1>8, <1>9 DEF ExportInv

----------------------------------------------------------------------------
LEMMA ExportStepHolds == ExportInv /\ [ExportNext]_exportVars => ExportInv'
<1>1. ASSUME ExportInv, NEW e \in Exports, DriveExport(e) PROVE ExportInv'
  BY <1>1, PlainStepsKeep, CreateKeeps, WriteBatchKeeps, RenameKeeps, RemoveKeeps DEF DriveExport
<1>2. ASSUME ExportInv, UNCHANGED <<export, target, part, content, fd, crossed>> PROVE ExportInv'
  <2>1. ExportTypes' /\ FilesOfThePath'
    BY <1>2 DEF ExportInv, ExportTypes, FilesOfThePath, Born, PathOf
  <2>2. (\A p \in Paths \ crossed : Uncrossed(p))'
    BY <1>2 DEF ExportInv, Uncrossed, ByItself, WrittenBy, WholeOf, PathOf, UnderWay
  <2> QED BY <2>1, <2>2 DEF ExportInv
<1>3. ASSUME ExportInv, NEW e \in Exports, CancelExport(e) \/ ServerStops(e) PROVE ExportInv'
  <2>1. UNCHANGED <<export, target, part, content, fd, crossed>>
    BY <1>3 DEF CancelExport, ServerStops
  <2> QED BY <1>2, <1>3, <2>1
<1>4. ASSUME ExportInv, UNCHANGED exportVars PROVE ExportInv'
  <2>1. UNCHANGED <<export, target, part, content, fd, crossed>>
    BY <1>4 DEF exportVars
  <2> QED BY <1>2, <1>4, <2>1
<1> QED BY <1>1, <1>3, <1>4, StartKeeps, ExportsCrashKeeps DEF ExportNext

\* Where nobody crossed it, what is at the target of an export is what was there or one
\* whole export, and no partial file is left behind (ffi/export.rs:227), for any number
\* of exports, paths and batches.
THEOREM NoTargetIsTorn == ExportSpec => []TargetIsWhole
<1>1. ASSUME ExportInv PROVE TargetIsWhole
  <2> SUFFICES ASSUME NEW p \in Paths \ crossed
               PROVE  /\ target[p] = Before \/ \E e \in Exports : export[e].at = "done" /\ WholeOf(target[p], e)
                      /\ (\A e \in Exports : PathOf(e) = p => ~UnderWay(e)) => part[p] = NoFile
    BY DEF TargetIsWhole
  <2>1. Uncrossed(p)
    BY <1>1 DEF ExportInv
  <2>2. target[p] = Before \/ \E e \in Exports : export[e].at = "done" /\ WholeOf(target[p], e)
    BY <1>1, <2>1, FilesAre DEF Uncrossed
  <2>3. (\A e \in Exports : PathOf(e) = p => ~UnderWay(e)) => part[p] = NoFile
    BY <1>1, <2>1, FilesAre DEF Uncrossed, ExportInv, FilesOfThePath
  <2> QED BY <2>2, <2>3
<1> QED BY <1>1, ExportInitHolds, ExportStepHolds, PTL DEF ExportSpec

LEMMA ExportTypesStay == ASSUME ExportInv, ExportTypeOK, [ExportNext]_exportVars PROVE ExportTypeOK'
<1>1. ExportTypes'
  BY ExportStepHolds DEF ExportInv
<1>2. \A e \in Exports : export'[e] \in ExportRecord
  BY <1>1 DEF ExportTypes
<1>3. stop' \in [Exports -> BOOLEAN] /\ running' \subseteq Exports /\ killing' \subseteq Exports
  <2> USE DEF ExportTypeOK
  <2>1. ASSUME NEW e \in Exports, NEW p \in Paths, ExportStart(e, p) PROVE UNCHANGED <<stop, running, killing>>
    BY <2>1 DEF ExportStart
  <2>2. ASSUME NEW e \in Exports, DriveExport(e)
        PROVE  stop' = stop /\ running' \subseteq Exports /\ killing' \subseteq Exports
    BY <2>2 DEF DriveExport, ExportFails, CreatePartial, LeaseForExport, ExecuteExport, WriteBatch, EndOfRows,
       FinishExport, Rename, CancelledExport, RemovePartial
  <2>3. ASSUME NEW e \in Exports, CancelExport(e) \/ ServerStops(e)
        PROVE  stop' \in [Exports -> BOOLEAN] /\ running' = running /\ killing' \subseteq Exports
    BY <2>3 DEF CancelExport, ServerStops
  <2>4. ASSUME ExportsCrash PROVE stop' = stop /\ running' = {} /\ killing' = {}
    BY <2>4 DEF ExportsCrash
  <2>5. UNCHANGED exportVars => UNCHANGED <<stop, running, killing>>
    BY DEF exportVars
  <2> QED BY <2>1, <2>2, <2>3, <2>4, <2>5 DEF ExportNext
<1> QED BY <1>1, <1>2, <1>3 DEF ExportTypes, ExportRecord, Stages, ExportTypeOK

LEMMA ExportTypesStart == ExportInit => ExportTypeOK
<1> SUFFICES ASSUME ExportInit PROVE ExportTypeOK
  OBVIOUS
<1>1. ExportTypes
  BY ExportInitHolds DEF ExportInv
<1>2. \A e \in Exports : export[e] \in ExportRecord
  BY <1>1 DEF ExportTypes
<1>3. stop \in [Exports -> BOOLEAN] /\ running \subseteq Exports /\ killing \subseteq Exports
  BY DEF ExportInit
<1> QED BY <1>1, <1>2, <1>3 DEF ExportTypes, ExportRecord, Stages, ExportTypeOK

\* Exports, their files and what is asked of the server for them have their types.
THEOREM ExportsKeepTypes == ExportSpec => []ExportTypeOK
BY ExportTypesStart, ExportTypesStay, ExportInitHolds, ExportStepHolds, PTL DEF ExportSpec
=============================================================================
