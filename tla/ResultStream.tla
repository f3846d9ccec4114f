---------------------------- MODULE ResultStream ----------------------------
(***************************************************************************)
(* What a running query promises to whoever watches it: the query manager, *)
(* the supervisor and the frontends see no more of a result than this.     *)
(*                                                                         *)
(* A result is a growing prefix of the source's rows under a phase.  The   *)
(* phase moves between Loading and Parked until it becomes terminal, once. *)
(* Complete, Capped and Failed are said only after the feeder has let go   *)
(* of the connection; Cancelled is said without waiting for it.            *)
(*                                                                         *)
(* Pipeline.tla implements this module, QueryMgr.tla is built on it.       *)
(***************************************************************************)
EXTENDS Naturals

CONSTANTS
    Queries,    \* queries that may be opened
    MaxSource,  \* a source holds 0..MaxSource rows
    RowCap      \* rows after which a result is cut

ASSUME StreamAssumption == MaxSource \in Nat /\ RowCap \in Nat

VARIABLES
    source,     \* rows the query's result really has
    shown,      \* rows the reader can see
    phase,      \* StorePhase; "None" before the query is opened
    feeding,    \* whether the feeder still uses the connection
    cancelled   \* the query's cancellation token

streamVars == <<source, shown, phase, feeding, cancelled>>

Ended   == {"Complete", "Capped", "Failed", "Cancelled"}
Open    == {"Loading", "Parked"}

StreamTypeOK ==
    /\ source \in [Queries -> 0 .. MaxSource]
    /\ shown \in [Queries -> 0 .. MaxSource]
    /\ phase \in [Queries -> {"None"} \cup Open \cup Ended]
    /\ feeding \in [Queries -> BOOLEAN]
    /\ cancelled \in [Queries -> BOOLEAN]

StreamInit ==
    /\ source \in [Queries -> 0 .. MaxSource]
    /\ shown = [q \in Queries |-> 0]
    /\ phase \in [Queries -> {"None", "Loading"}]
    /\ feeding = [q \in Queries |-> phase[q] = "Loading"]
    /\ cancelled = [q \in Queries |-> FALSE]

\* The request was accepted: feeder and store are running.
Start(q) ==
    /\ phase[q] = "None"
    /\ phase' = [phase EXCEPT ![q] = "Loading"]
    /\ feeding' = [feeding EXCEPT ![q] = TRUE]
    /\ UNCHANGED <<source, shown, cancelled>>

\* More rows, as far as the source and the cap go.
Load(q) ==
    /\ phase[q] \in Open
    /\ \E n \in shown[q] + 1 .. source[q] :
        /\ n <= RowCap
        /\ shown' = [shown EXCEPT ![q] = n]
    /\ phase' = [phase EXCEPT ![q] = "Loading"]
    /\ UNCHANGED <<source, feeding, cancelled>>

\* The store parks the feeder, or lets it go on.
ParkOrResume(q) ==
    /\ phase[q] \in Open
    /\ \E p \in Open : phase' = [phase EXCEPT ![q] = p]
    /\ UNCHANGED <<source, shown, feeding, cancelled>>

\* The feeder closes its cursor and stops using the connection.
LetGo(q) ==
    /\ feeding[q]
    /\ feeding' = [feeding EXCEPT ![q] = FALSE]
    /\ UNCHANGED <<source, shown, phase, cancelled>>

Cancel(q) ==
    /\ phase[q] # "None"
    /\ cancelled' = [cancelled EXCEPT ![q] = TRUE]
    /\ UNCHANGED <<source, shown, phase, feeding>>

\* Fault: the end is announced while the feeder still closes its cursor.
EndEarly(q, p) ==
    /\ phase[q] \in Open
    /\ p = "Cancelled" => cancelled[q]
    /\ phase' = [phase EXCEPT ![q] = p]
    /\ UNCHANGED <<source, shown, feeding, cancelled>>

\* The last word.
End(q, p) ==
    /\ phase[q] \in Open
    /\ p = "Complete"  => ~feeding[q] /\ shown[q] = source[q]
    /\ p = "Capped"    => ~feeding[q] /\ shown[q] = RowCap
    /\ p = "Failed"    => ~feeding[q]
    /\ p = "Cancelled" => cancelled[q] \/ ~feeding[q]
    /\ phase' = [phase EXCEPT ![q] = p]
    /\ UNCHANGED <<source, shown, feeding, cancelled>>

StreamStep(q) == \/ Start(q) \/ Load(q) \/ ParkOrResume(q) \/ LetGo(q) \/ Cancel(q)
                 \/ \E p \in Ended : End(q, p)

StreamNext == \E q \in Queries : StreamStep(q)
StreamSpec == StreamInit /\ [][StreamNext]_streamVars
=============================================================================
