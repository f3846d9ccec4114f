------------------------------ MODULE Pipeline ------------------------------
(***************************************************************************)
(* How the rows of a query reach its result store.                         *)
(*                                                                         *)
(* Every open query owns two tasks.  The feeder (feeder.rs) pulls batches  *)
(* from the driver's cursor and sends them on a channel that holds Bound   *)
(* of them.  The writer (store.rs, run_store) receives them, reserves      *)
(* their bytes in a budget that ALL queries share, publishes them as       *)
(* chunks and keeps the resident part under a hot window by spilling old   *)
(* chunks to disk.  When there is nothing left to spill it parks the       *)
(* feeder.  The frontend reads windows of rows (which resumes a parked     *)
(* feeder), stops queries and drops them, at any moment.                   *)
(*                                                                         *)
(* A row weighs one unit, so a chunk's bytes are its rows and the two hot  *)
(* limits (bytes, rows) are one, HotWindow.                                *)
(***************************************************************************)
EXTENDS Naturals, Sequences, FiniteSets, Functions

CONSTANTS
    Queries,        \* the open queries
    Tables,         \* those whose result is a table; the others are documents
    MaxSource,      \* a source holds 0..MaxSource rows
    BatchRows,      \* how many rows one next_batch may return
    MaxBlank,       \* bound: batches without rows a cursor may return
    Bound,          \* DATA_CHANNEL_BOUND
    RowCap,         \* soft_row_cap
    HotWindow,      \* per_query_hot / hot_window_rows
    SampleBatches,  \* chunks after which a table's schema is settled
    Limit,          \* total_result_budget
    SpillWorks,     \* possible results of writing a chunk to the spill file
    CursorMay       \* how a cursor may misbehave: subset of Mishaps

Mishaps == {"cancelled", "error", "panic"}

ASSUME QueriesAssumption == IsFiniteSet(Queries) /\ Tables \subseteq Queries
ASSUME SizesAssumption ==
    /\ MaxSource \in Nat /\ MaxBlank \in Nat /\ SampleBatches \in Nat
    /\ HotWindow \in Nat /\ Limit \in Nat
    /\ Bound \in Nat \ {0} /\ RowCap \in Nat \ {0}
    /\ BatchRows \subseteq Nat \ {0}
ASSUME OutcomesAssumption == SpillWorks \subseteq BOOLEAN /\ CursorMay \subseteq Mishaps

VARIABLES
    \* the cursor
    source,     \* rows the query's result really has
    pos,        \* rows the cursor has handed out
    blanks,     \* empty batches it has handed out
    \* the feeder task and its control block (FeedCtl)
    fpc,        \* where the feeder is
    paused,     \* FeedCtl.paused
    woken,      \* the Notified the feeder has enabled was notified
    feedState,  \* the watch channel feeder -> store
    ending,     \* what pull_loop returned
    fed,        \* FeedCtl.rows
    chan,       \* the mpsc channel
    txOpen,     \* the feeder still holds the sender
    overrun,    \* history: batches fed since the feeder was last parked
    \* the store's writer task
    spc,        \* where the writer is
    cur,        \* the batch it works on
    parked,     \* local of admit: this call has parked the feeder
    freed,      \* the Notified of GlobalBudget.freed was notified
    phase,      \* StoreState.phase
    rows,       \* StoreState.rows
    resident,   \* StoreState.resident_bytes
    chunks,     \* StoreState.chunks
    \* memory
    held,       \* BudgetLease.held
    releasing,  \* bytes taken off held but not yet off the budget
    used,       \* GlobalBudget.used
    \* the frontend
    cancelled,  \* the query's cancellation token
    alive       \* somebody still holds the ResultStore

cursorVars == <<source, pos, blanks>>
feedVars   == <<fpc, feedState, ending, fed, txOpen>>
ctlVars    == <<paused, woken, overrun>>
docVars    == <<phase, rows, resident, chunks>>
memVars    == <<held, releasing, used>>
userVars   == <<cancelled, alive>>
vars == <<cursorVars, feedVars, ctlVars, chan, spc, cur, parked, freed,
          docVars, memVars, userVars>>
-----------------------------------------------------------------------------
Endings   == {"Done", "Capped", "Cancelled", "Failed"}
FeederPcs == {"top", "gate", "parked", "enable", "reserve", "pull", "close", "final", "ended"}
WriterPcs == {"recv", "admit", "spill", "park", "wait", "publish", "enforce",
              "evict", "terminal", "finished"}
Terminal  == {"Capped", "Complete", "Cancelled", "Failed"}
Phases    == {"Loading", "ParkedBudget", "ParkedHot"} \cup Terminal

\* A batch remembers where its rows stand in the source.
Batch    == [at : Nat, rows : Nat]
NoBatch  == [at |-> 0, rows |-> 0]
Chunk    == [first_row : Nat, at : Nat, rows : Nat, spilled : BOOLEAN]

Least(a, b) == IF a <= b THEN a ELSE b
Minus(a, b) == IF a <= b THEN 0 ELSE a - b      \* saturating_sub

IsTerminal(p) == p \in Terminal

\* The converter has seen enough chunks to fix the schema, so they can be spilled.
Settled(q) == q \in Tables /\ Len(chunks[q]) >= SampleBatches

Spillable(q) == {i \in DOMAIN chunks[q] : ~chunks[q][i].spilled}

Init ==
    /\ source \in [Queries -> 0 .. MaxSource]
    /\ pos = [q \in Queries |-> 0]
    /\ blanks = [q \in Queries |-> 0]
    /\ fpc = [q \in Queries |-> "top"]
    /\ paused = [q \in Queries |-> FALSE]
    /\ woken = [q \in Queries |-> FALSE]
    /\ feedState = [q \in Queries |-> "Streaming"]
    /\ ending = [q \in Queries |-> "Done"]
    /\ fed = [q \in Queries |-> 0]
    /\ chan = [q \in Queries |-> <<>>]
    /\ txOpen = [q \in Queries |-> TRUE]
    /\ overrun = [q \in Queries |-> 0]
    /\ spc = [q \in Queries |-> "recv"]
    /\ cur = [q \in Queries |-> NoBatch]
    /\ parked = [q \in Queries |-> FALSE]
    /\ freed = [q \in Queries |-> FALSE]
    /\ phase = [q \in Queries |-> "Loading"]
    /\ rows = [q \in Queries |-> 0]
    /\ resident = [q \in Queries |-> 0]
    /\ chunks = [q \in Queries |-> <<>>]
    /\ held = [q \in Queries |-> 0]
    /\ releasing = [q \in Queries |-> 0]
    /\ used = 0
    /\ cancelled = [q \in Queries |-> FALSE]
    /\ alive = [q \in Queries |-> TRUE]
-----------------------------------------------------------------------------
(* The feeder. *)

Goto(q, pc) == fpc' = [fpc EXCEPT ![q] = pc]

\* Fault: the ending is not kept, so "Done" stands.
ReturnUnsaid(q, how) == Goto(q, "close") /\ UNCHANGED ending

\* pull_loop returns; the cursor is still to be closed.
Return(q, how) ==
    /\ Goto(q, "close")
    /\ ending' = [ending EXCEPT ![q] = how]

\* Fault: the park flag is looked at before the first batch only.
TopSkipsGate(q) ==
    /\ fpc[q] = "top"
    /\ \/ cancelled[q] /\ Return(q, "Cancelled")
       \/ ~cancelled[q] /\ fed[q] >= RowCap /\ Return(q, "Capped")
       \/ ~cancelled[q] /\ fed[q] < RowCap /\ UNCHANGED ending
          /\ Goto(q, IF fed[q] = 0 THEN "gate" ELSE "enable")
    /\ UNCHANGED <<cursorVars, feedState, fed, txOpen, ctlVars, chan, spc, cur,
                   parked, freed, docVars, memVars, userVars>>

\* The head of the loop: the token, then the row cap.
Top(q) ==
    /\ fpc[q] = "top"
    /\ \/ cancelled[q] /\ Return(q, "Cancelled")
       \/ ~cancelled[q] /\ fed[q] >= RowCap /\ Return(q, "Capped")
       \/ ~cancelled[q] /\ fed[q] < RowCap /\ Goto(q, "gate") /\ UNCHANGED ending
    /\ UNCHANGED <<cursorVars, feedState, fed, txOpen, ctlVars, chan, spc, cur,
                   parked, freed, docVars, memVars, userVars>>

\* The inner loop enables a Notified first and reads the flag after, so a
\* resume between the two is not missed.
Gate(q) ==
    /\ fpc[q] = "gate"
    /\ woken' = [woken EXCEPT ![q] = FALSE]
    /\ \/ paused[q] /\ Goto(q, "parked") /\ feedState' = [feedState EXCEPT ![q] = "Parked"]
       \/ ~paused[q] /\ Goto(q, "enable") /\ UNCHANGED feedState
    /\ UNCHANGED <<cursorVars, ending, fed, txOpen, paused, overrun, chan, spc, cur,
                   parked, freed, docVars, memVars, userVars>>

\* Fault: a parked feeder does not watch the token.
ParkedDeaf(q) ==
    /\ fpc[q] = "parked" /\ woken[q]
    /\ Goto(q, "gate")
    /\ UNCHANGED <<cursorVars, ending, feedState, fed, txOpen, ctlVars, chan, spc, cur,
                   parked, freed, docVars, memVars, userVars>>

\* select! without `biased`: either branch when both are ready.
Parked(q) ==
    /\ fpc[q] = "parked"
    /\ \/ woken[q] /\ Goto(q, "gate") /\ UNCHANGED ending
       \/ cancelled[q] /\ Return(q, "Cancelled")
    /\ UNCHANGED <<cursorVars, feedState, fed, txOpen, ctlVars, chan, spc, cur,
                   parked, freed, docVars, memVars, userVars>>

\* A fresh Notified guards the wait for a channel slot.  A park between the
\* gate and this step is not seen until the next time round.
Enable(q) ==
    /\ fpc[q] = "enable"
    /\ feedState' = [feedState EXCEPT ![q] = "Streaming"]
    /\ woken' = [woken EXCEPT ![q] = FALSE]
    /\ Goto(q, "reserve")
    /\ UNCHANGED <<cursorVars, ending, fed, txOpen, paused, overrun, chan, spc, cur,
                   parked, freed, docVars, memVars, userVars>>

\* A biased select!: the token, then a wake-up, then a closed channel ...
Reserve(q) ==
    /\ fpc[q] = "reserve"
    /\ \/ cancelled[q] /\ Return(q, "Cancelled")
       \/ /\ ~cancelled[q] /\ woken[q]
          /\ Goto(q, "top") /\ UNCHANGED ending
       \/ /\ ~cancelled[q] /\ ~woken[q] /\ spc[q] = "finished"
          /\ Return(q, "Done")
    /\ UNCHANGED <<cursorVars, feedState, fed, txOpen, ctlVars, chan, spc, cur,
                   parked, freed, docVars, memVars, userVars>>

\* ... or a free slot.
TakeSlot(q) ==
    /\ fpc[q] = "reserve"
    /\ ~cancelled[q] /\ ~woken[q] /\ spc[q] # "finished"
    /\ Len(chan[q]) < Bound
    /\ Goto(q, "pull")
    /\ UNCHANGED <<cursorVars, feedState, ending, fed, txOpen, ctlVars, chan, spc, cur,
                   parked, freed, docVars, memVars, userVars>>

\* The token fires while next_batch is pending: the call is dropped.
PullCancelled(q) ==
    /\ fpc[q] = "pull" /\ cancelled[q]
    /\ Return(q, "Cancelled")
    /\ UNCHANGED <<cursorVars, feedState, fed, txOpen, ctlVars, chan, spc, cur,
                   parked, freed, docVars, memVars, userVars>>

\* Fault: what was pulled while the feeder was being parked is dropped.
SendUnlessParked(q, b) ==
    chan' = IF spc[q] = "finished" \/ paused[q] THEN chan ELSE [chan EXCEPT ![q] = Append(@, b)]

\* permit.send: the receiver may be gone, and then the batch is lost with it.
Send(q, b) ==
    chan' = IF spc[q] = "finished" THEN chan ELSE [chan EXCEPT ![q] = Append(@, b)]

\* next_batch returned rows.  The batch is cut at the cap, counted, sent.
PullRows(q) ==
    /\ fpc[q] = "pull" /\ ~cancelled[q]
    /\ \E n \in BatchRows :
        LET kept == Least(n, Minus(RowCap, fed[q]))
        IN  /\ n <= source[q] - pos[q]
            /\ pos' = [pos EXCEPT ![q] = @ + n]
            /\ fed' = [fed EXCEPT ![q] = @ + kept]
            /\ Send(q, [at |-> pos[q], rows |-> kept])
            /\ IF fed[q] + kept >= RowCap
                 THEN Return(q, "Capped")
                 ELSE Goto(q, "top") /\ UNCHANGED ending
    /\ overrun' = [overrun EXCEPT ![q] = IF paused[q] THEN @ + 1 ELSE 0]
    /\ UNCHANGED <<source, blanks, feedState, txOpen, paused, woken, spc, cur,
                   parked, freed, docVars, memVars, userVars>>

\* next_batch returned a batch without rows (a notice, a scan page with no hit).
PullBlank(q) ==
    /\ fpc[q] = "pull" /\ ~cancelled[q]
    /\ blanks[q] < MaxBlank
    /\ blanks' = [blanks EXCEPT ![q] = @ + 1]
    /\ Send(q, [at |-> pos[q], rows |-> 0])
    /\ overrun' = [overrun EXCEPT ![q] = IF paused[q] THEN @ + 1 ELSE 0]
    /\ Goto(q, "top")
    /\ UNCHANGED <<source, pos, ending, fed, feedState, txOpen, paused, woken, spc, cur,
                   parked, freed, docVars, memVars, userVars>>

\* next_batch returned None, or an error.
PullEnd(q) ==
    /\ fpc[q] = "pull" /\ ~cancelled[q]
    /\ \/ pos[q] = source[q] /\ Return(q, "Done")
       \/ "cancelled" \in CursorMay /\ Return(q, "Cancelled")
       \/ "error" \in CursorMay /\ Return(q, "Failed")
    /\ UNCHANGED <<cursorVars, feedState, fed, txOpen, ctlVars, chan, spc, cur,
                   parked, freed, docVars, memVars, userVars>>

\* next_batch panicked: the task unwinds, the cursor is dropped and so is the
\* sender, and nobody publishes a final state.
PullPanic(q) ==
    /\ fpc[q] = "pull" /\ "panic" \in CursorMay
    /\ Goto(q, "ended")
    /\ txOpen' = [txOpen EXCEPT ![q] = FALSE]
    /\ UNCHANGED <<cursorVars, feedState, ending, fed, ctlVars, chan, spc, cur,
                   parked, freed, docVars, memVars, userVars>>

\* cursor.close() has returned: the final state goes out ...
Close(q) ==
    /\ fpc[q] = "close"
    /\ Goto(q, "final")
    /\ feedState' = [feedState EXCEPT ![q] = ending[q]]
    /\ UNCHANGED <<cursorVars, ending, fed, txOpen, ctlVars, chan, spc, cur,
                   parked, freed, docVars, memVars, userVars>>

\* ... and only then is the sender dropped.
DropSender(q) ==
    /\ fpc[q] = "final"
    /\ Goto(q, "ended")
    /\ txOpen' = [txOpen EXCEPT ![q] = FALSE]
    /\ UNCHANGED <<cursorVars, feedState, ending, fed, ctlVars, chan, spc, cur,
                   parked, freed, docVars, memVars, userVars>>
-----------------------------------------------------------------------------
(* The feeder's handle, as the writer and the frontend use it. *)

Park(q) ==
    /\ paused' = [paused EXCEPT ![q] = TRUE]
    /\ woken' = [woken EXCEPT ![q] = TRUE]
    /\ overrun' = [overrun EXCEPT ![q] = IF paused[q] THEN @ ELSE 0]

\* Fault: the flag is cleared and nobody is told.
ResumeUnnotified(q) ==
    /\ paused' = [paused EXCEPT ![q] = FALSE]
    /\ overrun' = [overrun EXCEPT ![q] = 0]
    /\ UNCHANGED woken

Resume(q) ==
    /\ paused' = [paused EXCEPT ![q] = FALSE]
    /\ woken' = [woken EXCEPT ![q] = TRUE]
    /\ overrun' = [overrun EXCEPT ![q] = 0]
-----------------------------------------------------------------------------
(* The writer. *)

Step(q, pc) == spc' = [spc EXCEPT ![q] = pc]

\* Publishing the final phase ends the task and drops the receiver.
Finish(q, p) ==
    /\ phase' = [phase EXCEPT ![q] = p]
    /\ Step(q, "finished")
    /\ chan' = [chan EXCEPT ![q] = <<>>]
    /\ cur' = [cur EXCEPT ![q] = NoBatch]
    /\ UNCHANGED <<rows, resident, chunks>>

\* A biased select!: the token first.  A batch without rows makes no chunk.
Receive(q) ==
    /\ spc[q] = "recv"
    /\ \/ cancelled[q] /\ Finish(q, "Cancelled")
       \/ /\ ~cancelled[q] /\ chan[q] # <<>>
          /\ chan' = [chan EXCEPT ![q] = Tail(@)]
          /\ IF Head(chan[q]).rows > 0
               THEN cur' = [cur EXCEPT ![q] = Head(chan[q])] /\ Step(q, "admit")
               ELSE UNCHANGED <<cur, spc>>
          /\ UNCHANGED docVars
       \/ /\ ~cancelled[q] /\ chan[q] = <<>> /\ ~txOpen[q]
          /\ Step(q, "terminal")
          /\ UNCHANGED <<chan, cur, docVars>>
    /\ parked' = [parked EXCEPT ![q] = FALSE]
    /\ UNCHANGED <<cursorVars, feedVars, ctlVars, freed, memVars, userVars>>

\* try_reserve, with the Notified enabled before the attempt.  After a wait
\* that parked the feeder, success resumes it.
Admit(q) ==
    /\ spc[q] = "admit" /\ releasing[q] = 0
    /\ freed' = [freed EXCEPT ![q] = FALSE]
    /\ IF used + cur[q].rows <= Limit
         THEN /\ used' = used + cur[q].rows
              /\ held' = [held EXCEPT ![q] = @ + cur[q].rows]
              /\ Step(q, "publish")
              /\ IF parked[q]
                   THEN /\ Resume(q)
                        /\ phase' = [phase EXCEPT ![q] =
                              IF @ \in {"ParkedBudget", "ParkedHot"} THEN "Loading" ELSE @]
                   ELSE UNCHANGED <<ctlVars, phase>>
         ELSE Step(q, "spill") /\ UNCHANGED <<used, held, ctlVars, phase>>
    /\ UNCHANGED <<cursorVars, feedVars, chan, cur, parked, rows, resident, chunks,
                   releasing, userVars>>

\* The first resident chunk.
Oldest(q, i) == i \in Spillable(q) /\ \A j \in Spillable(q) : i <= j

\* Fault: the spilled bytes still count as resident.
SpillOldestStillCounted(q) ==
    \E i \in DOMAIN chunks[q] :
        LET bytes == chunks[q][i].rows
        IN  /\ Oldest(q, i)
            /\ chunks' = [chunks EXCEPT ![q][i].spilled = TRUE]
            /\ held' = [held EXCEPT ![q] = Minus(@, bytes)]
            /\ releasing' = [releasing EXCEPT ![q] = Least(bytes, held[q])]
            /\ UNCHANGED resident

\* spill_oldest: the first resident chunk goes to the file, its bytes leave
\* the lease; the budget itself follows in Released.
SpillOldest(q) ==
    \E i \in DOMAIN chunks[q] :
        LET bytes == chunks[q][i].rows
        IN  /\ Oldest(q, i)
            /\ chunks' = [chunks EXCEPT ![q][i].spilled = TRUE]
            /\ resident' = [resident EXCEPT ![q] = Minus(@, bytes)]
            /\ held' = [held EXCEPT ![q] = Minus(@, bytes)]
            /\ releasing' = [releasing EXCEPT ![q] = Least(bytes, held[q])]

CanSpill(q) == Settled(q) /\ Spillable(q) # {} /\ TRUE \in SpillWorks

\* There is a reason for spill_oldest to return false.
CannotSpill(q) == ~Settled(q) \/ Spillable(q) = {} \/ FALSE \in SpillWorks

\* admit prefers giving memory back over stopping the stream.
Spill(q) ==
    /\ spc[q] = "spill"
    /\ \/ CanSpill(q) /\ SpillOldest(q) /\ Step(q, "admit")
       \/ /\ CannotSpill(q)
          /\ Step(q, "park")
          /\ UNCHANGED <<chunks, resident, held, releasing>>
    /\ UNCHANGED <<cursorVars, feedVars, ctlVars, chan, cur, parked, freed,
                   phase, rows, used, userVars>>

\* Fault: the Notified is enabled only now, after the failed reservation.
ParkForBudgetListensLate(q) ==
    /\ spc[q] = "park"
    /\ Step(q, "wait")
    /\ parked' = [parked EXCEPT ![q] = TRUE]
    /\ Park(q)
    /\ phase' = [phase EXCEPT ![q] = "ParkedBudget"]
    /\ freed' = [freed EXCEPT ![q] = FALSE]
    /\ UNCHANGED <<cursorVars, feedVars, chan, cur, rows, resident, chunks, memVars, userVars>>

\* Park the feeder, once per call of admit, and say so.
ParkForBudget(q) ==
    /\ spc[q] = "park"
    /\ Step(q, "wait")
    /\ IF parked[q]
         THEN UNCHANGED <<parked, ctlVars, phase>>
         ELSE /\ parked' = [parked EXCEPT ![q] = TRUE]
              /\ Park(q)
              /\ phase' = [phase EXCEPT ![q] = "ParkedBudget"]
    /\ UNCHANGED <<cursorVars, feedVars, chan, cur, freed, rows, resident, chunks,
                   memVars, userVars>>

\* Wait for the token or for somebody to free memory.
Wait(q) ==
    /\ spc[q] = "wait"
    /\ \/ cancelled[q] /\ Finish(q, "Cancelled")
       \/ /\ ~cancelled[q] /\ freed[q]
          /\ Step(q, "admit")
          /\ UNCHANGED <<chan, cur, docVars>>
    /\ UNCHANGED <<cursorVars, feedVars, ctlVars, parked, freed, memVars, userVars>>

Publish(q) ==
    /\ spc[q] = "publish"
    /\ chunks' = [chunks EXCEPT ![q] =
                    Append(@, [first_row |-> rows[q], at |-> cur[q].at,
                               rows |-> cur[q].rows, spilled |-> FALSE])]
    /\ rows' = [rows EXCEPT ![q] = @ + cur[q].rows]
    /\ resident' = [resident EXCEPT ![q] = @ + cur[q].rows]
    /\ phase' = [phase EXCEPT ![q] = IF IsTerminal(@) THEN @ ELSE "Loading"]
    /\ cur' = [cur EXCEPT ![q] = NoBatch]
    /\ Step(q, "enforce")
    /\ UNCHANGED <<cursorVars, feedVars, ctlVars, chan, parked, freed, memVars, userVars>>

OverHot(q) == resident[q] > HotWindow

\* enforce_hot_window: nothing to do, or something to evict.
Enforce(q) ==
    /\ spc[q] = "enforce" /\ releasing[q] = 0
    /\ Step(q, IF OverHot(q) THEN "evict" ELSE "recv")
    /\ UNCHANGED <<cursorVars, feedVars, ctlVars, chan, cur, parked, freed, docVars,
                   memVars, userVars>>

\* Spill one chunk and look again, or park the feeder if the schema is settled.
Evict(q) ==
    /\ spc[q] = "evict"
    /\ \/ /\ CanSpill(q) /\ SpillOldest(q) /\ Step(q, "enforce")
          /\ UNCHANGED <<ctlVars, phase>>
       \/ /\ CannotSpill(q)
          /\ Step(q, "recv")
          /\ IF Settled(q)
               THEN /\ Park(q)
                    /\ phase' = [phase EXCEPT ![q] = IF IsTerminal(@) THEN @ ELSE "ParkedHot"]
               ELSE UNCHANGED <<ctlVars, phase>>
          /\ UNCHANGED <<chunks, resident, held, releasing>>
    /\ UNCHANGED <<cursorVars, feedVars, chan, cur, parked, freed, rows, used, userVars>>

\* Every sender is gone: the feeder's last word is the phase.
Conclude(q) ==
    /\ spc[q] = "terminal"
    /\ Finish(q, IF feedState[q] \in {"Capped", "Cancelled", "Failed"}
                   THEN feedState[q] ELSE "Complete")
    /\ UNCHANGED <<cursorVars, feedVars, ctlVars, parked, freed, memVars, userVars>>
-----------------------------------------------------------------------------
(* Memory going back to the budget. *)

\* Once the writer has ended and nobody holds the store, its lease is dropped.
DropLease(q) ==
    /\ spc[q] = "finished" /\ ~alive[q] /\ held[q] > 0
    /\ held' = [held EXCEPT ![q] = 0]
    /\ releasing' = [releasing EXCEPT ![q] = held[q]]
    /\ UNCHANGED <<cursorVars, feedVars, ctlVars, chan, spc, cur, parked, freed, docVars,
                   used, userVars>>

\* Fault: only one waiter is notified, and it is the one that released.
ReleasedNotifiesOne(q) ==
    /\ releasing[q] > 0
    /\ used' = Minus(used, releasing[q])
    /\ releasing' = [releasing EXCEPT ![q] = 0]
    /\ freed' = [freed EXCEPT ![q] = TRUE]
    /\ UNCHANGED <<cursorVars, feedVars, ctlVars, chan, spc, cur, parked, docVars,
                   held, userVars>>

\* GlobalBudget::release: the bytes leave the counter, then every enabled
\* waiter is notified.  The code takes min(bytes, used()) and subtracts it in
\* two steps; BudgetExact says the min never bites, so one step is as good.
Released(q) ==
    /\ releasing[q] > 0
    /\ used' = Minus(used, releasing[q])
    /\ releasing' = [releasing EXCEPT ![q] = 0]
    /\ freed' = [p \in Queries |-> TRUE]
    /\ UNCHANGED <<cursorVars, feedVars, ctlVars, chan, spc, cur, parked, docVars,
                   held, userVars>>
-----------------------------------------------------------------------------
(* The frontend. *)

\* get_rows past what is loaded: a running query is resumed.
GetRows(q) ==
    /\ alive[q] /\ ~IsTerminal(phase[q])
    /\ Resume(q)
    /\ UNCHANGED <<cursorVars, feedVars, chan, spc, cur, parked, freed, docVars,
                   memVars, userVars>>

\* ResultStore::stop, or a cancelled ancestor of the token.
Stop(q) ==
    /\ alive[q] /\ ~cancelled[q]
    /\ cancelled' = [cancelled EXCEPT ![q] = TRUE]
    /\ woken' = [woken EXCEPT ![q] = TRUE]
    /\ UNCHANGED <<cursorVars, feedVars, paused, overrun, chan, spc, cur, parked, freed,
                   docVars, memVars, alive>>

\* Fault: Drop forgets to stop the query.
DropStoreLeavesItRunning(q) ==
    /\ alive[q]
    /\ alive' = [alive EXCEPT ![q] = FALSE]
    /\ UNCHANGED <<cursorVars, feedVars, ctlVars, chan, spc, cur, parked, freed, docVars,
                   memVars, cancelled>>

\* The last handle to the store goes away; its Drop stops the query.
DropStore(q) ==
    /\ alive[q]
    /\ alive' = [alive EXCEPT ![q] = FALSE]
    /\ cancelled' = [cancelled EXCEPT ![q] = TRUE]
    /\ woken' = [woken EXCEPT ![q] = TRUE]
    /\ UNCHANGED <<cursorVars, feedVars, paused, overrun, chan, spc, cur, parked, freed,
                   docVars, memVars>>
-----------------------------------------------------------------------------
\* The feeder's own steps, and the driver's answers it waits for.
Feeder(q) == \/ Top(q) \/ Gate(q) \/ Parked(q) \/ Enable(q) \/ Reserve(q)
             \/ TakeSlot(q) \/ PullCancelled(q) \/ Close(q) \/ DropSender(q)
Answer(q) == PullRows(q) \/ PullBlank(q) \/ PullEnd(q) \/ PullPanic(q)
Writer(q) == \/ Receive(q) \/ Admit(q) \/ Spill(q) \/ ParkForBudget(q) \/ Wait(q)
             \/ Publish(q) \/ Enforce(q) \/ Evict(q) \/ Conclude(q)
Memory(q) == DropLease(q) \/ Released(q)
User(q)   == GetRows(q) \/ Stop(q) \/ DropStore(q)

Next == \E q \in Queries : Feeder(q) \/ Answer(q) \/ Writer(q) \/ Memory(q) \/ User(q)

Spec == Init /\ [][Next]_vars

\* The runtime schedules every task that can run.  Nothing obliges a server
\* to answer or a user to do anything.
TaskFairness == \A q \in Queries : /\ WF_vars(Feeder(q))
                                   /\ WF_vars(Writer(q))
                                   /\ WF_vars(Memory(q))
FairSpec == Spec /\ TaskFairness
-----------------------------------------------------------------------------
CursorTypes ==
    /\ source \in [Queries -> 0 .. MaxSource]
    /\ pos \in [Queries -> Nat] /\ blanks \in [Queries -> 0 .. MaxBlank]

FeedTypes ==
    /\ fpc \in [Queries -> FeederPcs]
    /\ feedState \in [Queries -> {"Streaming", "Parked"} \cup Endings]
    /\ ending \in [Queries -> Endings]
    /\ fed \in [Queries -> Nat] /\ txOpen \in [Queries -> BOOLEAN]

CtlTypes ==
    /\ paused \in [Queries -> BOOLEAN] /\ woken \in [Queries -> BOOLEAN]
    /\ overrun \in [Queries -> Nat]

WriterTypes ==
    /\ chan \in [Queries -> Seq(Batch)] /\ cur \in [Queries -> Batch]
    /\ spc \in [Queries -> WriterPcs]
    /\ parked \in [Queries -> BOOLEAN] /\ freed \in [Queries -> BOOLEAN]

DocTypes ==
    /\ phase \in [Queries -> Phases]
    /\ rows \in [Queries -> Nat] /\ resident \in [Queries -> Nat]
    /\ chunks \in [Queries -> Seq(Chunk)]

MemTypes ==
    /\ held \in [Queries -> Nat] /\ releasing \in [Queries -> Nat] /\ used \in Nat

UserTypes ==
    /\ cancelled \in [Queries -> BOOLEAN] /\ alive \in [Queries -> BOOLEAN]

\* Every variable holds what its field or channel in the code can hold.
TypeOK == /\ CursorTypes /\ FeedTypes /\ CtlTypes /\ WriterTypes
          /\ DocTypes /\ MemTypes /\ UserTypes

\* A lease holds the bytes of the resident chunks, and of the chunk that has
\* been admitted but is not published yet, until the store itself is dropped:
\* spilling, publishing and cancelling neither leak bytes nor return them twice.
LeaseCoversResident ==
    \A q \in Queries :
        LET InMemory == {i \in DOMAIN chunks[q] : ~chunks[q][i].spilled}
            weight   == [i \in DOMAIN chunks[q] |-> chunks[q][i].rows]
        IN  /\ resident[q] = SumFunctionOnSet(weight, InMemory)
            /\ \/ held[q] = resident[q] + (IF spc[q] = "publish" THEN cur[q].rows ELSE 0)
               \/ ~alive[q] /\ spc[q] = "finished" /\ held[q] = 0

\* The budget all queries share counts exactly what their leases hold (plus
\* what is on its way back), and is never overrun; and they hold what is in memory.
WithinLimit == used <= Limit
BudgetExact ==
    /\ WithinLimit
    /\ used = SumFunctionOnSet(held, Queries) + SumFunctionOnSet(releasing, Queries)
    /\ LeaseCoversResident

\* What is published is a prefix of the source: the store numbers a chunk's
\* first row as the source does, whatever was parked, spilled or cut.
PublishedInOrder ==
    \A q \in Queries :
        /\ \A i \in DOMAIN chunks[q] :
              /\ chunks[q][i].first_row = chunks[q][i].at
              /\ i > 1 => chunks[q][i].at = chunks[q][i - 1].at + chunks[q][i - 1].rows
        /\ chunks[q] # <<>> =>
              LET last == chunks[q][Len(chunks[q])] IN rows[q] = last.at + last.rows

\* Once a feeder is parked, and until somebody resumes it, it feeds at most
\* the one batch it was already committed to.
ParkHolds == \A q \in Queries : overrun[q] <= 1

\* A writer that waits for memory while its chunk would fit has been
\* notified: no release is lost between a failed reservation and the wait.
FreedIsNotLost ==
    \A q \in Queries :
        spc[q] \in {"spill", "park", "wait"} /\ used + cur[q].rows <= Limit => freed[q]

\* Stopping a query ends both its tasks (the feeder closes its cursor on the
\* way), wherever they wait: parked, on a full channel, on the driver, on the budget.
StopTakesEffect ==
    \A q \in Queries : cancelled[q] ~> fpc[q] = "ended" /\ spc[q] = "finished"

\* A dropped store gives all its memory back.
DropReturnsMemory ==
    \A q \in Queries : ~alive[q] ~> held[q] = 0 /\ releasing[q] = 0

\* A query that waits for memory goes on once the other queries are dropped,
\* if its own chunks leave room for one more.
DroppingOthersResumes ==
    \A q \in Queries :
        /\ spc[q] = "wait" /\ held[q] + cur[q].rows <= Limit
        /\ \A p \in Queries \ {q} : ~alive[p]
        ~> spc[q] # "wait"

\* A reader who keeps asking sees a query to its end if the driver answers,
\* or sees it stop for good where its own chunks fill the budget and cannot be
\* spilled, and that is what the phase says.  The reader must not ask so fast that
\* the feeder, woken every time, never gets to take a slot.
Reader == \A q \in Queries : /\ WF_vars(Answer(q)) /\ WF_vars(GetRows(q))
                             /\ SF_vars(TakeSlot(q))
ReaderReachesTheEnd ==
    Reader => \A q \in Queries : <>IsTerminal(phase[q]) \/ <>[](phase[q] = "ParkedBudget")
-----------------------------------------------------------------------------
(* The pipeline implements the contract the rest of the program relies on. *)

\* Who watches a query tells running, parked and ended apart, not why it is parked ...
SeenPhase == [q \in Queries |-> IF phase[q] \in {"ParkedBudget", "ParkedHot"}
                                  THEN "Parked" ELSE phase[q]]

\* ... and the connection is in use until the cursor is closed.
Feeding == [q \in Queries |-> fpc[q] \notin {"final", "ended"}]

Stream == INSTANCE ResultStream WITH shown <- rows, phase <- SeenPhase, feeding <- Feeding

\* Every step of feeder, writer and frontend is a step of ResultStream or
\* none: what is shown only grows, phases end once, and Complete, Capped and
\* Failed are said only when the feeder has let go of the connection.
ImplementsStream == Stream!StreamSpec
=============================================================================
