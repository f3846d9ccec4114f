--------------------------- MODULE QueryMgr_proofs ---------------------------
(***************************************************************************)
(* A connection has one owner, and a query that ended by itself has let go *)
(* and was announced as it ended, for any number of queries, connections   *)
(* and cancels.                                                            *)
(*                                                                         *)
(* The argument: a lease lives exactly as long as its supervisor, whichever*)
(* way that ends (MgrPlace), and a phase that is not Cancelled is terminal *)
(* only when the feeder has let go (EndPlace).                             *)
(***************************************************************************)
EXTENDS QueryMgr, FiniteSetTheorems, TLAPS

\* What a query has at each place of its life: nothing before it runs, the lease while
\* its supervisor is there, and no more cancels under way than were asked for.
MgrPlace ==
    \A q \in Queries :
        /\ sup[q] = "none" <=> phase[q] = "None"
        /\ lease[q] <=> sup[q] \in {"watch", "release"}
        /\ phase[q] = "None" => ~cancelled[q] /\ ~feeding[q] /\ ~registered[q] /\ told[q] = {}
        /\ asking[q] <= asked[q]

\* Each connection is idle or with one query.
Owners ==
    /\ \A q \in Queries : lease[q] => conn[q] \in Conns \ idle
    /\ \A p, q \in Queries : lease[p] /\ lease[q] /\ conn[p] = conn[q] => p = q
    /\ \A c \in Conns \ idle : \E q \in Queries : lease[q] /\ conn[q] = c

\* How a query ended, and what its supervisor may have done by then.
EndPlace ==
    \A q \in Queries :
        /\ phase[q] \in {"Complete", "Capped", "Failed"} => ~feeding[q]
        /\ phase[q] = "Cancelled" => cancelled[q] \/ ~feeding[q]
        /\ sup[q] \in {"release", "ended"} => cancelled[q] \/ phase[q] \in Ended

MgrInv == MgrTypeOK /\ MgrPlace /\ Owners /\ EndPlace /\ EventsTellThePhase

USE StreamAssumption, ConnAssumption DEF Ended, Open

----------------------------------------------------------------------------
LEMMA InitHolds == Init => MgrInv
<1> SUFFICES ASSUME Init PROVE MgrInv
  OBVIOUS
<1>1. MgrTypeOK
  <2>1. StreamTypeOK
    BY DEF Init, StreamInit, StreamTypeOK
  <2>2. told \in [Queries -> SUBSET Events]
    BY DEF Init
  <2>3. asking \in [Queries -> 0 .. MaxCancels] /\ asked \in [Queries -> 0 .. MaxCancels]
    BY DEF Init
  <2> QED BY <2>1, <2>2, <2>3 DEF Init, MgrTypeOK
<1>2. MgrPlace
  <2>1. SUFFICES ASSUME NEW q \in Queries
                 PROVE  /\ sup[q] = "none" /\ phase[q] = "None" /\ asking[q] <= asked[q]
                        /\ ~lease[q] /\ ~cancelled[q] /\ ~feeding[q] /\ ~registered[q] /\ told[q] = {}
    BY DEF MgrPlace
  <2>2. sup[q] = "none" /\ phase[q] = "None" /\ asking[q] <= asked[q] /\ told[q] = {}
    BY DEF Init
  <2>3. feeding[q] = (phase[q] = "Loading")
    BY DEF Init, StreamInit
  <2>4. ~lease[q] /\ ~cancelled[q] /\ ~registered[q]
    BY DEF Init, StreamInit
  <2> QED BY <2>2, <2>3, <2>4
<1>4. Owners
  BY DEF Init, Owners
<1>3. EndPlace /\ EventsTellThePhase
  BY DEF Init, StreamInit, EndPlace, EventsTellThePhase
<1> QED BY <1>1, <1>2, <1>3, <1>4 DEF MgrInv

\* The types of the stream and of the manager, step by step.
LEMMA StreamTypesHold ==
    ASSUME StreamTypeOK, NEW q \in Queries, StreamStep(q)
    PROVE  StreamTypeOK'
<1>1. CASE Start(q)
  BY <1>1 DEF Start, StreamTypeOK
<1>2. CASE Load(q)
  BY <1>2 DEF Load, StreamTypeOK
<1>3. CASE ParkOrResume(q)
  BY <1>3 DEF ParkOrResume, StreamTypeOK
<1>4. CASE LetGo(q)
  BY <1>4 DEF LetGo, StreamTypeOK
<1>5. CASE Cancel(q)
  BY <1>5 DEF Cancel, StreamTypeOK
<1>6. ASSUME NEW p \in Ended, End(q, p) PROVE StreamTypeOK'
  BY <1>6 DEF End, StreamTypeOK
<1> QED BY <1>1, <1>2, <1>3, <1>4, <1>5, <1>6 DEF StreamStep

\* What the manager's step does to the stream is a step of the stream or none.
LEMMA MgrMovesTheStream ==
    ASSUME NEW q \in Queries,
           \/ Run(q) \/ Register(q) \/ CancelQuery(q) \/ ServerCancel(q) \/ CloseQuery(q)
           \/ Disconnect(q) \/ Supervise(q) \/ Release(q) \/ StreamRuns(q)
    PROVE  StreamStep(q) \/ UNCHANGED streamVars
BY DEF Run, Register, CancelQuery, ServerCancel, CloseQuery, Disconnect, Supervise, Release,
       StreamRuns, StreamStep

LEMMA MgrTypesHold == ASSUME MgrInv, Next PROVE MgrTypeOK'
<1>1. PICK q \in Queries :
        \/ Run(q) \/ Register(q) \/ CancelQuery(q) \/ ServerCancel(q) \/ CloseQuery(q)
        \/ Disconnect(q) \/ Supervise(q) \/ Release(q) \/ StreamRuns(q)
  BY DEF Next
<1>2. MgrTypeOK /\ MgrPlace /\ Owners
  BY DEF MgrInv
<1>3. StreamTypeOK'
  <2>1. CASE StreamStep(q)
    BY <1>2, <2>1, StreamTypesHold DEF MgrTypeOK
  <2>2. CASE UNCHANGED streamVars
    BY <1>2, <2>2 DEF MgrTypeOK, StreamTypeOK, streamVars
  <2> QED BY <1>1, <2>1, <2>2, MgrMovesTheStream
<1>4. CASE Run(q)
  BY <1>2, <1>3, <1>4 DEF Run, MgrTypeOK
<1>5. CASE Register(q)
  BY <1>2, <1>3, <1>5 DEF Register, Tell, MgrTypeOK, Events
<1>6. CASE CancelQuery(q)
  <2>1. asking[q] + 1 \in 0 .. MaxCancels /\ asked[q] + 1 \in 0 .. MaxCancels
    BY <1>2, <1>6 DEF CancelQuery, MgrTypeOK, MgrPlace
  <2> QED BY <1>2, <1>3, <1>6, <2>1 DEF CancelQuery, MgrTypeOK
<1>7. CASE ServerCancel(q)
  <2>1. asking[q] - 1 \in 0 .. MaxCancels
    BY <1>2, <1>7 DEF ServerCancel, MgrTypeOK
  <2>2. victims' \subseteq Queries \X Queries
    BY <1>2, <1>7 DEF ServerCancel, MgrTypeOK, RunningOn
  <2> QED BY <1>2, <1>3, <1>7, <2>1, <2>2 DEF ServerCancel, MgrTypeOK
<1>8. CASE CloseQuery(q)
  BY <1>2, <1>3, <1>8 DEF CloseQuery, MgrTypeOK
<1>9. CASE Disconnect(q) \/ StreamRuns(q)
  BY <1>2, <1>3, <1>9 DEF Disconnect, StreamRuns, mgrVars, MgrTypeOK
<1>10. CASE Supervise(q)
  <2>1. LastWords(phase[q]) \subseteq Events
    BY <1>10 DEF Supervise, LastWords, Events
  <2> QED BY <1>2, <1>3, <1>10, <2>1 DEF Supervise, Tell, MgrTypeOK
<1>11. CASE Release(q)
  <2>1. conn[q] \in Conns
    BY <1>2, <1>11 DEF Release, MgrPlace, Owners
  <2> QED BY <1>2, <1>3, <1>11, <2>1 DEF Release, MgrTypeOK
<1> QED BY <1>1, <1>4, <1>5, <1>6, <1>7, <1>8, <1>9, <1>10, <1>11

----------------------------------------------------------------------------
(* Places and owners *)

LEMMA PlaceHolds == ASSUME MgrInv, Next PROVE MgrPlace'
<1>1. PICK q \in Queries :
        \/ Run(q) \/ Register(q) \/ CancelQuery(q) \/ ServerCancel(q) \/ CloseQuery(q)
        \/ Disconnect(q) \/ Supervise(q) \/ Release(q) \/ StreamRuns(q)
  BY DEF Next
<1> USE DEF MgrInv, MgrTypeOK, StreamTypeOK, MgrPlace
<1>2. CASE Run(q)
  BY <1>2 DEF Run, Start
<1>3. CASE Register(q)
  BY <1>3 DEF Register, Tell, streamVars
<1>4. CASE CancelQuery(q)
  BY <1>4 DEF CancelQuery, Cancel
<1>5. CASE ServerCancel(q)
  BY <1>5 DEF ServerCancel, streamVars
<1>6. CASE CloseQuery(q)
  BY <1>6 DEF CloseQuery, Cancel
<1>7. CASE Disconnect(q)
  BY <1>7 DEF Disconnect, Cancel, mgrVars
<1>8. CASE Supervise(q)
  BY <1>8 DEF Supervise, Tell, streamVars
<1>9. CASE Release(q)
  BY <1>9 DEF Release, streamVars
<1>10. CASE StreamRuns(q)
  BY <1>10 DEF StreamRuns, Load, ParkOrResume, LetGo, End, mgrVars
<1> QED BY <1>1, <1>2, <1>3, <1>4, <1>5, <1>6, <1>7, <1>8, <1>9, <1>10

LEMMA OwnersHold == ASSUME MgrInv, Next PROVE Owners'
<1>1. PICK q \in Queries :
        \/ Run(q) \/ Register(q) \/ CancelQuery(q) \/ ServerCancel(q) \/ CloseQuery(q)
        \/ Disconnect(q) \/ Supervise(q) \/ Release(q) \/ StreamRuns(q)
  BY DEF Next
<1>2. MgrTypeOK /\ MgrPlace /\ Owners
  BY DEF MgrInv
<1>3. CASE Run(q)
  <2>1. PICK c \in idle : conn' = [conn EXCEPT ![q] = c] /\ idle' = idle \ {c}
    BY <1>3 DEF Run
  <2>2. ~lease[q] /\ c \in Conns
    BY <1>2, <1>3 DEF Run, Start, MgrPlace, MgrTypeOK
  <2>3. /\ \A p \in Queries : lease'[p] <=> p = q \/ lease[p]
        /\ \A p \in Queries : conn'[p] = IF p = q THEN c ELSE conn[p]
    BY <1>2, <1>3, <2>1 DEF Run, MgrTypeOK
  <2>4. \A p \in Queries : lease'[p] => conn'[p] \in Conns \ idle'
    BY <1>2, <2>1, <2>2, <2>3 DEF Owners
  <2>5. \A p, r \in Queries : lease'[p] /\ lease'[r] /\ conn'[p] = conn'[r] => p = r
    BY <1>2, <2>2, <2>3 DEF Owners
  <2>6. \A d \in Conns \ idle' : \E p \in Queries : lease'[p] /\ conn'[p] = d
    <3>1. SUFFICES ASSUME NEW d \in Conns \ idle' PROVE \E p \in Queries : lease'[p] /\ conn'[p] = d
      OBVIOUS
    <3>2. CASE d = c
      BY <2>3, <3>2
    <3>3. CASE d # c
      <4>1. PICK p \in Queries : lease[p] /\ conn[p] = d
        BY <1>2, <2>1, <3>3 DEF Owners
      <4> QED BY <2>2, <2>3, <4>1
    <3> QED BY <3>2, <3>3
  <2> QED BY <2>4, <2>5, <2>6 DEF Owners
<1>4. CASE Release(q)
  <2>1. lease[q] /\ idle' = idle \cup {conn[q]} /\ conn' = conn
    BY <1>2, <1>4 DEF Release, MgrPlace
  <2>2. \A p \in Queries : lease'[p] <=> p # q /\ lease[p]
    BY <1>2, <1>4 DEF Release, MgrTypeOK
  <2>3. \A p \in Queries : lease'[p] => conn'[p] \in Conns \ idle'
    BY <1>2, <2>1, <2>2 DEF Owners
  <2>4. \A p, r \in Queries : lease'[p] /\ lease'[r] /\ conn'[p] = conn'[r] => p = r
    BY <1>2, <2>1, <2>2 DEF Owners
  <2>5. ASSUME NEW d \in Conns \ idle' PROVE \E p \in Queries : lease'[p] /\ conn'[p] = d
    <3>1. d \in Conns \ idle /\ d # conn[q]
      BY <2>1
    <3>2. PICK p \in Queries : lease[p] /\ conn[p] = d
      BY <1>2, <3>1 DEF Owners
    <3> QED BY <2>1, <2>2, <3>1, <3>2
  <2> QED BY <2>3, <2>4, <2>5 DEF Owners
<1>5. CASE UNCHANGED <<conn, lease, idle>>
  BY <1>2, <1>5 DEF Owners
<1>6. CASE Register(q) \/ CancelQuery(q) \/ ServerCancel(q) \/ CloseQuery(q)
  BY <1>5, <1>6 DEF Register, CancelQuery, ServerCancel, CloseQuery
<1>7. CASE Disconnect(q) \/ Supervise(q) \/ StreamRuns(q)
  BY <1>5, <1>7 DEF Disconnect, Supervise, StreamRuns, mgrVars
<1> QED BY <1>1, <1>3, <1>4, <1>6, <1>7

----------------------------------------------------------------------------
(* Ends *)

\* Nobody's end is undone, and an end that is not a cancel finds the feeder gone.
LEMMA EndHolds == ASSUME MgrInv, Next PROVE EndPlace'
<1>1. PICK q \in Queries :
        \/ Run(q) \/ Register(q) \/ CancelQuery(q) \/ ServerCancel(q) \/ CloseQuery(q)
        \/ Disconnect(q) \/ Supervise(q) \/ Release(q) \/ StreamRuns(q)
  BY DEF Next
<1> USE DEF MgrInv, MgrTypeOK, StreamTypeOK, MgrPlace, EndPlace
<1>2. CASE Run(q)
  BY <1>2 DEF Run, Start
<1>3. CASE CancelQuery(q)
  BY <1>3 DEF CancelQuery, Cancel
<1>4. CASE CloseQuery(q)
  BY <1>4 DEF CloseQuery, Cancel
<1>5. CASE Disconnect(q)
  BY <1>5 DEF Disconnect, Cancel, mgrVars
<1>6. CASE Supervise(q) \/ Release(q)
  BY <1>6 DEF Supervise, Release, streamVars
<1>7. CASE StreamRuns(q)
  <2>1. CASE Load(q)
    BY <1>7, <2>1 DEF StreamRuns, Load, mgrVars
  <2>2. CASE ParkOrResume(q)
    BY <1>7, <2>2 DEF StreamRuns, ParkOrResume, mgrVars
  <2>3. CASE LetGo(q)
    BY <1>7, <2>3 DEF StreamRuns, LetGo, mgrVars
  <2>4. ASSUME NEW p \in Ended, End(q, p) PROVE EndPlace'
    BY <1>7, <2>4 DEF StreamRuns, End, mgrVars
  <2> QED BY <1>7, <2>1, <2>2, <2>3, <2>4 DEF StreamRuns
<1>8. CASE Register(q) \/ ServerCancel(q)
  BY <1>8 DEF Register, ServerCancel, streamVars
<1> QED BY <1>1, <1>2, <1>3, <1>4, <1>5, <1>6, <1>7, <1>8

LEMMA EventsHold == ASSUME MgrInv, Next PROVE EventsTellThePhase'
<1>1. PICK q \in Queries :
        \/ Run(q) \/ Register(q) \/ CancelQuery(q) \/ ServerCancel(q) \/ CloseQuery(q)
        \/ Disconnect(q) \/ Supervise(q) \/ Release(q) \/ StreamRuns(q)
  BY DEF Next
<1> USE DEF MgrInv, MgrTypeOK, StreamTypeOK, MgrPlace, EventsTellThePhase
<1>2. CASE Run(q)
  BY <1>2 DEF Run, Start
<1>3. CASE Register(q)
  BY <1>3 DEF Register, Tell, streamVars
<1>4. CASE Supervise(q)
  BY <1>4 DEF Supervise, Tell, LastWords, streamVars
<1>5. CASE UNCHANGED <<phase, told>>
  BY <1>5
<1>6. CASE CancelQuery(q) \/ CloseQuery(q) \/ Disconnect(q)
  BY <1>5, <1>6 DEF CancelQuery, CloseQuery, Disconnect, Cancel, mgrVars
<1>7. CASE ServerCancel(q) \/ Release(q)
  BY <1>5, <1>7 DEF ServerCancel, Release, streamVars
<1>8. CASE StreamRuns(q)
  <2>1. told' = told /\ \A p \in Queries : phase[p] \in Ended => phase'[p] = phase[p]
    BY <1>8 DEF StreamRuns, Load, ParkOrResume, LetGo, End, mgrVars
  <2> QED BY <2>1
<1> QED BY <1>1, <1>2, <1>3, <1>4, <1>6, <1>7, <1>8

LEMMA StepHolds == MgrInv /\ [Next]_vars => MgrInv'
<1>1. ASSUME MgrInv, UNCHANGED vars PROVE MgrInv'
  BY <1>1 DEF vars, streamVars, mgrVars, MgrInv, MgrTypeOK, StreamTypeOK, MgrPlace, Owners, EndPlace,
              EventsTellThePhase
<1>2. ASSUME MgrInv, Next PROVE MgrInv'
  BY <1>2, MgrTypesHold, PlaceHolds, OwnersHold, EndHolds, EventsHold DEF MgrInv
<1> QED BY <1>1, <1>2

----------------------------------------------------------------------------
\* Whatever the order of a query's end, its cancels, its close and the disconnect of its
\* connection, the lease goes back exactly once, and no connection has two queries.
THEOREM ConnectionsHaveOneOwner == Spec => []OneOwner
<1>1. MgrInv => OneOwner
  BY DEF MgrInv, Owners, OneOwner
<1> QED BY <1>1, InitHolds, StepHolds, PTL DEF Spec

\* A query that nobody cancelled gives its connection back after its feeder has let go,
\* and the events about its end say how its result ended.
THEOREM EndsAreHonest == Spec => []QuietEndIsHonest
<1>1. MgrInv => QuietEndIsHonest
  BY DEF MgrInv, MgrTypeOK, StreamTypeOK, EndPlace, QuietEndIsHonest, QuietEndFreesTheSocket
<1> QED BY <1>1, InitHolds, StepHolds, PTL DEF Spec

----------------------------------------------------------------------------
(* QueryMgr implements Leases *)

\* Leases counts as its users do.
LEMMA CountsAlike == \A S : MgrLeases!Cardinality(S) = Cardinality(S)
BY DEF MgrLeases!Cardinality, Cardinality

LEMMA MgrLeasesStart == Init => MgrLeases!LeaseInit
<1>1. Cardinality(Conns) <= Cardinality(Conns)
  BY FS_CardinalityType
<1>2. ASSUME Init PROVE [q \in Queries |-> IF lease[q] THEN conn[q] ELSE NoConn] = [q \in Queries |-> NoConn]
  BY <1>2 DEF Init
<1> QED BY <1>1, <1>2, CountsAlike DEF Init, MgrLeases!LeaseInit

LEMMA MgrLeasesMove == ASSUME MgrInv, [Next]_vars PROVE [MgrLeases!LeaseNext]_(MgrLeases!leaseVars)
<1> DEFINE holds == [q \in Queries |-> IF lease[q] THEN conn[q] ELSE NoConn]
<1>1. MgrTypeOK /\ MgrPlace
  BY DEF MgrInv
<1>2. ASSUME UNCHANGED <<conn, lease, idle>> PROVE UNCHANGED MgrLeases!leaseVars
  BY <1>2 DEF MgrLeases!leaseVars
<1>3. ASSUME NEW q \in Queries, Run(q) PROVE MgrLeases!Take(q)
  <2>1. PICK c \in idle : conn' = [conn EXCEPT ![q] = c] /\ idle' = idle \ {c}
    BY <1>3 DEF Run
  <2>2. ~lease[q] /\ lease' = [lease EXCEPT ![q] = TRUE]
    BY <1>1, <1>3 DEF Run, Start, MgrPlace
  <2>3. holds' = [holds EXCEPT ![q] = c] /\ holds[q] = NoConn
    BY <1>1, <2>1, <2>2 DEF MgrTypeOK
  <2> QED BY <2>1, <2>3 DEF MgrLeases!Take
<1>4. ASSUME NEW q \in Queries, Release(q) PROVE MgrLeases!GiveBack(q)
  <2>1. lease[q] /\ idle' = idle \cup {conn[q]} /\ conn' = conn /\ lease' = [lease EXCEPT ![q] = FALSE]
    BY <1>1, <1>4 DEF Release, MgrPlace
  <2>2. conn[q] \in Conns
    BY <2>1 DEF MgrInv, Owners
  <2>3. holds' = [holds EXCEPT ![q] = NoConn] /\ holds[q] = conn[q] /\ conn[q] # NoConn
    BY <1>1, <2>1, <2>2 DEF MgrTypeOK
  <2> QED BY <2>1, <2>3 DEF MgrLeases!GiveBack
<1>5. ASSUME NEW q \in Queries,
             \/ Register(q) \/ CancelQuery(q) \/ ServerCancel(q) \/ CloseQuery(q)
             \/ Disconnect(q) \/ Supervise(q) \/ StreamRuns(q)
      PROVE  UNCHANGED <<conn, lease, idle>>
  BY <1>5 DEF Register, CancelQuery, ServerCancel, CloseQuery, Disconnect, Supervise, StreamRuns, mgrVars
<1> QED BY <1>2, <1>3, <1>4, <1>5 DEF Next, MgrLeases!LeaseNext, vars, mgrVars

\* A query takes a connection of the pool when it has none and gives it back once, while
\* it still has it, in whatever order it ends, is cancelled, closed and disconnected: the
\* query manager asks of the pool what SessionPool is proved to give (query.rs:358).
THEOREM QueriesUseLeases == Spec => MgrImplementsLeases
BY MgrLeasesStart, MgrLeasesMove, InitHolds, StepHolds, PTL DEF Spec, MgrImplementsLeases, MgrLeases!LeaseSpec
=============================================================================
