--------------------------- MODULE Pipeline_proofs ---------------------------
(***************************************************************************)
(* What is proved of Pipeline for any number of queries, any sizes of the  *)
(* channel, the cap, the hot window and the budget, and any misbehaviour   *)
(* of cursors and spill files that Pipeline allows.                        *)
(*                                                                         *)
(* The types come first, one lemma per process, since every later proof    *)
(* rests on them.  Then the limit, the park flag, the order of the rows,   *)
(* the budget with the sums it needs, and that Pipeline implements         *)
(* ResultStream.                                                           *)
(***************************************************************************)
EXTENDS Pipeline, TLAPS, SequenceTheorems, FiniteSetTheorems, WellFoundedInduction

USE QueriesAssumption, SizesAssumption, OutcomesAssumption

\* The tasks start with values of the right types.
LEMMA InitType == Init => TypeOK
BY DEF Init, TypeOK, CursorTypes, FeedTypes, CtlTypes, WriterTypes, DocTypes, MemTypes,
       UserTypes, FeederPcs, WriterPcs, Endings, Phases, Terminal, Batch, NoBatch

\* A group of variables a step does not touch keeps its types.
LEMMA KeptTypes ==
    ASSUME TypeOK
    PROVE  /\ UNCHANGED cursorVars => CursorTypes'
           /\ UNCHANGED feedVars => FeedTypes'
           /\ UNCHANGED ctlVars => CtlTypes'
           /\ UNCHANGED <<chan, spc, cur, parked, freed>> => WriterTypes'
           /\ UNCHANGED docVars => DocTypes'
           /\ UNCHANGED memVars => MemTypes'
           /\ UNCHANGED userVars => UserTypes'
BY DEF TypeOK, CursorTypes, FeedTypes, CtlTypes, WriterTypes, DocTypes, MemTypes, UserTypes,
       cursorVars, feedVars, ctlVars, docVars, memVars, userVars

\* min and saturating_sub yield naturals, no larger than what they start from.
LEMMA ArithmeticType ==
    ASSUME NEW a \in Nat, NEW b \in Nat
    PROVE  /\ Least(a, b) \in Nat /\ Least(a, b) <= a /\ Least(a, b) <= b
           /\ Minus(a, b) \in Nat /\ Minus(a, b) <= a
BY DEF Least, Minus

\* Sending a batch (permit.send in the feeder) leaves batches in the channel.
LEMMA SendType ==
    ASSUME TypeOK, NEW q \in Queries, NEW b \in Batch, Send(q, b)
    PROVE  chan' \in [Queries -> Seq(Batch)]
<1>1. Append(chan[q], b) \in Seq(Batch)
  BY DEF TypeOK, WriterTypes
<1> QED
  BY <1>1 DEF Send, TypeOK, WriterTypes

\* Parking and resuming a feeder through its handle keep the types of its flags.
LEMMA HandleType ==
    ASSUME TypeOK, NEW q \in Queries, Park(q) \/ Resume(q)
    PROVE  CtlTypes'
<1>1. overrun[q] \in Nat
  BY DEF TypeOK, CtlTypes
<1>2. CASE Park(q)
  <2>1. PICK n \in Nat : overrun' = [overrun EXCEPT ![q] = n]
    BY <1>1, <1>2 DEF Park
  <2> QED
    BY <1>2, <2>1 DEF Park, TypeOK, CtlTypes
<1>3. CASE Resume(q)
  BY <1>3 DEF Resume, TypeOK, CtlTypes
<1> QED
  BY <1>2, <1>3

\* The writer's end, with whatever phase, keeps the types of what it publishes.
LEMMA FinishType ==
    ASSUME TypeOK, NEW q \in Queries, NEW p \in Terminal, Finish(q, p)
    PROVE  /\ spc' \in [Queries -> WriterPcs]
           /\ chan' \in [Queries -> Seq(Batch)] /\ cur' \in [Queries -> Batch]
           /\ DocTypes'
<1>1. NoBatch \in Batch
  BY DEF NoBatch, Batch
<1>2. <<>> \in Seq(Batch)
  OBVIOUS
<1> QED
  BY <1>1, <1>2 DEF Finish, Step, TypeOK, WriterTypes, DocTypes, WriterPcs, Phases

\* Spilling a chunk keeps chunks, resident bytes and lease well typed.
LEMMA SpillOldestType ==
    ASSUME TypeOK, NEW q \in Queries, SpillOldest(q)
    PROVE  /\ chunks' \in [Queries -> Seq(Chunk)] /\ resident' \in [Queries -> Nat]
           /\ held' \in [Queries -> Nat] /\ releasing' \in [Queries -> Nat]
<1>1. PICK i \in DOMAIN chunks[q] :
        /\ chunks' = [chunks EXCEPT ![q][i].spilled = TRUE]
        /\ resident' = [resident EXCEPT ![q] = Minus(@, chunks[q][i].rows)]
        /\ held' = [held EXCEPT ![q] = Minus(@, chunks[q][i].rows)]
        /\ releasing' = [releasing EXCEPT ![q] = Least(chunks[q][i].rows, held[q])]
  BY DEF SpillOldest
<1>2. chunks[q] \in Seq(Chunk) /\ i \in 1 .. Len(chunks[q])
  BY DEF TypeOK, DocTypes
<1>3. chunks[q][i] \in Chunk
  BY <1>2
<1>4. [chunks[q][i] EXCEPT !.spilled = TRUE] \in Chunk
  BY <1>3 DEF Chunk
<1>5. [chunks[q] EXCEPT ![i] = [chunks[q][i] EXCEPT !.spilled = TRUE]] \in Seq(Chunk)
  BY <1>2, <1>4
<1>6. chunks' \in [Queries -> Seq(Chunk)]
  BY <1>1, <1>5 DEF TypeOK, DocTypes
<1>7. chunks[q][i].rows \in Nat /\ resident[q] \in Nat /\ held[q] \in Nat
  BY <1>3 DEF Chunk, TypeOK, DocTypes, MemTypes
<1> QED
  BY <1>1, <1>6, <1>7, ArithmeticType DEF TypeOK, DocTypes, MemTypes

\* The feeder's own steps (pull_loop, run_feeder) keep the types.
LEMMA FeederType ==
    ASSUME TypeOK, NEW q \in Queries, Feeder(q)
    PROVE  TypeOK'
<1>1. CASE Top(q)
  <2>1. FeedTypes'
    BY <1>1 DEF Top, Goto, Return, TypeOK, FeedTypes, FeederPcs, Endings
  <2> QED
    BY <1>1, <2>1, KeptTypes DEF Top, TypeOK
<1>2. CASE Gate(q)
  <2>1. FeedTypes' /\ CtlTypes'
    BY <1>2 DEF Gate, Goto, TypeOK, FeedTypes, CtlTypes, FeederPcs
  <2> QED
    BY <1>2, <2>1, KeptTypes DEF Gate, TypeOK
<1>3. CASE Parked(q)
  <2>1. FeedTypes'
    BY <1>3 DEF Parked, Goto, Return, TypeOK, FeedTypes, FeederPcs, Endings
  <2> QED
    BY <1>3, <2>1, KeptTypes DEF Parked, TypeOK
<1>4. CASE Enable(q)
  <2>1. FeedTypes' /\ CtlTypes'
    BY <1>4 DEF Enable, Goto, TypeOK, FeedTypes, CtlTypes, FeederPcs
  <2> QED
    BY <1>4, <2>1, KeptTypes DEF Enable, TypeOK
<1>5. CASE Reserve(q)
  <2>1. FeedTypes'
    BY <1>5 DEF Reserve, Goto, Return, TypeOK, FeedTypes, FeederPcs, Endings
  <2> QED
    BY <1>5, <2>1, KeptTypes DEF Reserve, TypeOK
<1>6. CASE TakeSlot(q)
  <2>1. FeedTypes'
    BY <1>6 DEF TakeSlot, Goto, TypeOK, FeedTypes, FeederPcs
  <2> QED
    BY <1>6, <2>1, KeptTypes DEF TakeSlot, TypeOK
<1>7. CASE PullCancelled(q)
  <2>1. FeedTypes'
    BY <1>7 DEF PullCancelled, Goto, Return, TypeOK, FeedTypes, FeederPcs, Endings
  <2> QED
    BY <1>7, <2>1, KeptTypes DEF PullCancelled, TypeOK
<1>8. CASE Close(q)
  <2>1. FeedTypes'
    BY <1>8 DEF Close, Goto, TypeOK, FeedTypes, FeederPcs
  <2> QED
    BY <1>8, <2>1, KeptTypes DEF Close, TypeOK
<1>9. CASE DropSender(q)
  <2>1. FeedTypes'
    BY <1>9 DEF DropSender, Goto, TypeOK, FeedTypes, FeederPcs
  <2> QED
    BY <1>9, <2>1, KeptTypes DEF DropSender, TypeOK
<1> QED
  BY <1>1, <1>2, <1>3, <1>4, <1>5, <1>6, <1>7, <1>8, <1>9 DEF Feeder

\* So do the answers of next_batch ...
LEMMA AnswerType ==
    ASSUME TypeOK, NEW q \in Queries, Answer(q)
    PROVE  TypeOK'
<1>1. CASE PullRows(q)
  <2>1. PICK n \in BatchRows :
          LET kept == Least(n, Minus(RowCap, fed[q]))
          IN  /\ pos' = [pos EXCEPT ![q] = @ + n]
              /\ fed' = [fed EXCEPT ![q] = @ + kept]
              /\ Send(q, [at |-> pos[q], rows |-> kept])
              /\ IF fed[q] + kept >= RowCap
                   THEN Return(q, "Capped")
                   ELSE Goto(q, "top") /\ UNCHANGED ending
    BY <1>1 DEF PullRows
  <2> DEFINE kept == Least(n, Minus(RowCap, fed[q]))
  <2>2. kept \in Nat
    BY ArithmeticType DEF TypeOK, FeedTypes
  <2> HIDE DEF kept
  <2>3. [at |-> pos[q], rows |-> kept] \in Batch
    BY <2>2 DEF Batch, TypeOK, CursorTypes
  <2>4. WriterTypes'
    BY <1>1, <2>1, <2>3, SendType DEF PullRows, TypeOK, WriterTypes, kept
  <2>5. FeedTypes'
    BY <1>1, <2>1, <2>2 DEF PullRows, Goto, Return, TypeOK, FeedTypes, FeederPcs, Endings, kept
  <2>6. CursorTypes'
    <3>1. UNCHANGED <<source, blanks>>
      BY <1>1 DEF PullRows
    <3>2. pos' = [pos EXCEPT ![q] = @ + n] /\ n \in Nat
      BY <2>1
    <3> QED
      BY <3>1, <3>2 DEF TypeOK, CursorTypes
  <2>7. CtlTypes'
    <3>1. overrun[q] + 1 \in Nat
      BY DEF TypeOK, CtlTypes
    <3>2. PICK k \in Nat : overrun' = [overrun EXCEPT ![q] = k]
      BY <1>1, <3>1 DEF PullRows
    <3> QED
      BY <1>1, <3>2 DEF PullRows, TypeOK, CtlTypes
  <2> QED
    BY <1>1, <2>4, <2>5, <2>6, <2>7, KeptTypes DEF PullRows, TypeOK
<1>2. CASE PullBlank(q)
  <2>1. [at |-> pos[q], rows |-> 0] \in Batch
    BY DEF Batch, TypeOK, CursorTypes
  <2>2. WriterTypes'
    BY <1>2, <2>1, SendType DEF PullBlank, TypeOK, WriterTypes
  <2>3. FeedTypes' /\ CursorTypes' /\ CtlTypes'
    BY <1>2 DEF PullBlank, Goto, TypeOK, FeedTypes, CursorTypes, CtlTypes, FeederPcs
  <2> QED
    BY <1>2, <2>2, <2>3, KeptTypes DEF PullBlank, TypeOK
<1>3. CASE PullEnd(q)
  <2>1. FeedTypes'
    BY <1>3 DEF PullEnd, Goto, Return, TypeOK, FeedTypes, FeederPcs, Endings
  <2> QED
    BY <1>3, <2>1, KeptTypes DEF PullEnd, TypeOK
<1>4. CASE PullPanic(q)
  <2>1. FeedTypes'
    BY <1>4 DEF PullPanic, Goto, TypeOK, FeedTypes, FeederPcs
  <2> QED
    BY <1>4, <2>1, KeptTypes DEF PullPanic, TypeOK
<1> QED
  BY <1>1, <1>2, <1>3, <1>4 DEF Answer

\* ... the steps of the writer (run_store, admit, enforce_hot_window) ...
LEMMA WriterType ==
    ASSUME TypeOK, NEW q \in Queries, Writer(q)
    PROVE  TypeOK'
<1>1. CASE Receive(q)
  <2>1. CASE cancelled[q] /\ Finish(q, "Cancelled")
    <3>1. DocTypes' /\ WriterTypes'
      BY <1>1, <2>1, FinishType DEF Receive, Terminal, TypeOK, WriterTypes
    <3> QED
      BY <1>1, <3>1, KeptTypes DEF Receive, TypeOK
  <2>2. CASE /\ chan[q] # <<>>
             /\ chan' = [chan EXCEPT ![q] = Tail(@)]
             /\ IF Head(chan[q]).rows > 0
                  THEN cur' = [cur EXCEPT ![q] = Head(chan[q])] /\ Step(q, "admit")
                  ELSE UNCHANGED <<cur, spc>>
             /\ UNCHANGED docVars
    <3>1. Head(chan[q]) \in Batch /\ Tail(chan[q]) \in Seq(Batch)
      BY <2>2 DEF TypeOK, WriterTypes
    <3>2. chan' \in [Queries -> Seq(Batch)]
      BY <2>2, <3>1 DEF TypeOK, WriterTypes
    <3>3. cur' \in [Queries -> Batch]
      BY <2>2, <3>1 DEF TypeOK, WriterTypes
    <3>4. spc' \in [Queries -> WriterPcs]
      BY <2>2 DEF Step, TypeOK, WriterTypes, WriterPcs
    <3>5. parked' \in [Queries -> BOOLEAN] /\ freed' \in [Queries -> BOOLEAN]
      BY <1>1 DEF Receive, TypeOK, WriterTypes
    <3>6. WriterTypes'
      BY <3>2, <3>3, <3>4, <3>5 DEF WriterTypes
    <3> QED
      BY <1>1, <2>2, <3>6, KeptTypes DEF Receive, TypeOK
  <2>3. CASE Step(q, "terminal") /\ UNCHANGED <<chan, cur, docVars>>
    <3>1. WriterTypes'
      BY <1>1, <2>3 DEF Receive, Step, TypeOK, WriterTypes, WriterPcs
    <3> QED
      BY <1>1, <2>3, <3>1, KeptTypes DEF Receive, TypeOK
  <2> QED
    BY <1>1, <2>1, <2>2, <2>3 DEF Receive
<1>2. CASE Admit(q)
  <2>1. WriterTypes'
    BY <1>2 DEF Admit, Step, TypeOK, WriterTypes, WriterPcs
  <2>2. CtlTypes'
    BY <1>2, HandleType, KeptTypes DEF Admit
  <2>3. cur[q].rows \in Nat
    BY DEF TypeOK, WriterTypes, Batch
  <2>4. MemTypes'
    BY <1>2, <2>3 DEF Admit, TypeOK, MemTypes
  <2>5. DocTypes'
    BY <1>2 DEF Admit, TypeOK, DocTypes, Phases
  <2> QED
    BY <1>2, <2>1, <2>2, <2>4, <2>5, KeptTypes DEF Admit, TypeOK
<1>3. CASE Spill(q)
  <2>1. WriterTypes'
    BY <1>3 DEF Spill, Step, TypeOK, WriterTypes, WriterPcs
  <2>2. DocTypes' /\ MemTypes'
    BY <1>3, SpillOldestType DEF Spill, TypeOK, DocTypes, MemTypes
  <2> QED
    BY <1>3, <2>1, <2>2, KeptTypes DEF Spill, TypeOK
<1>4. CASE ParkForBudget(q)
  <2>1. WriterTypes'
    BY <1>4 DEF ParkForBudget, Step, TypeOK, WriterTypes, WriterPcs
  <2>2. CtlTypes'
    BY <1>4, HandleType, KeptTypes DEF ParkForBudget
  <2>3. DocTypes'
    BY <1>4 DEF ParkForBudget, TypeOK, DocTypes, Phases
  <2> QED
    BY <1>4, <2>1, <2>2, <2>3, KeptTypes DEF ParkForBudget, TypeOK
<1>5. CASE Wait(q)
  <2>1. CASE Finish(q, "Cancelled")
    <3>1. DocTypes' /\ WriterTypes'
      BY <1>5, <2>1, FinishType DEF Wait, Terminal, TypeOK, WriterTypes
    <3> QED
      BY <1>5, <3>1, KeptTypes DEF Wait, TypeOK
  <2>2. CASE Step(q, "admit") /\ UNCHANGED <<chan, cur, docVars>>
    <3>1. WriterTypes'
      BY <1>5, <2>2 DEF Wait, Step, TypeOK, WriterTypes, WriterPcs
    <3> QED
      BY <1>5, <2>2, <3>1, KeptTypes DEF Wait, TypeOK
  <2> QED
    BY <1>5, <2>1, <2>2 DEF Wait
<1>6. CASE Publish(q)
  <2> DEFINE c == [first_row |-> rows[q], at |-> cur[q].at, rows |-> cur[q].rows,
                   spilled |-> FALSE]
  <2>1. cur[q].rows \in Nat /\ cur[q].at \in Nat
    BY DEF TypeOK, WriterTypes, Batch
  <2>2. c \in Chunk
    BY <2>1 DEF Chunk, TypeOK, DocTypes
  <2>3. Append(chunks[q], c) \in Seq(Chunk)
    BY <2>2 DEF TypeOK, DocTypes
  <2>4. chunks' \in [Queries -> Seq(Chunk)]
    BY <1>6, <2>3 DEF Publish, TypeOK, DocTypes
  <2>5. DocTypes'
    BY <1>6, <2>1, <2>4 DEF Publish, TypeOK, DocTypes, Phases
  <2>6. NoBatch \in Batch
    BY DEF NoBatch, Batch
  <2>7. WriterTypes'
    BY <1>6, <2>6 DEF Publish, Step, TypeOK, WriterTypes, WriterPcs
  <2> QED
    BY <1>6, <2>5, <2>7, KeptTypes DEF Publish, TypeOK
<1>7. CASE Enforce(q)
  <2>1. WriterTypes'
    BY <1>7 DEF Enforce, Step, TypeOK, WriterTypes, WriterPcs
  <2> QED
    BY <1>7, <2>1, KeptTypes DEF Enforce, TypeOK
<1>8. CASE Evict(q)
  <2>1. WriterTypes'
    BY <1>8 DEF Evict, Step, TypeOK, WriterTypes, WriterPcs
  <2>2. CtlTypes'
    BY <1>8, HandleType, KeptTypes DEF Evict
  <2>3. phase' \in [Queries -> Phases]
    BY <1>8 DEF Evict, TypeOK, DocTypes, Phases
  <2>4. DocTypes' /\ MemTypes'
    BY <1>8, <2>3, SpillOldestType DEF Evict, TypeOK, DocTypes, MemTypes
  <2> QED
    BY <1>8, <2>1, <2>2, <2>4, KeptTypes DEF Evict, TypeOK
<1>9. CASE Conclude(q)
  <2>1. PICK p \in Terminal : Finish(q, p)
    BY <1>9 DEF Conclude, Terminal
  <2>2. DocTypes' /\ WriterTypes'
    BY <1>9, <2>1, FinishType DEF Conclude, TypeOK, WriterTypes
  <2> QED
    BY <1>9, <2>2, KeptTypes DEF Conclude, TypeOK
<1> QED
  BY <1>1, <1>2, <1>3, <1>4, <1>5, <1>6, <1>7, <1>8, <1>9 DEF Writer

\* ... memory on its way back to the budget ...
LEMMA MemoryType ==
    ASSUME TypeOK, NEW q \in Queries, Memory(q)
    PROVE  TypeOK'
<1>1. CASE DropLease(q)
  <2>1. MemTypes'
    BY <1>1 DEF DropLease, TypeOK, MemTypes
  <2> QED
    BY <1>1, <2>1, KeptTypes DEF DropLease, TypeOK
<1>2. CASE Released(q)
  <2>1. MemTypes'
    BY <1>2, ArithmeticType DEF Released, TypeOK, MemTypes
  <2>2. WriterTypes'
    BY <1>2 DEF Released, TypeOK, WriterTypes
  <2> QED
    BY <1>2, <2>1, <2>2, KeptTypes DEF Released, TypeOK
<1> QED
  BY <1>1, <1>2 DEF Memory

\* ... and what the frontend does.
LEMMA UserType ==
    ASSUME TypeOK, NEW q \in Queries, User(q)
    PROVE  TypeOK'
<1>1. CASE GetRows(q)
  <2>1. CtlTypes'
    BY <1>1 DEF GetRows, Resume, TypeOK, CtlTypes
  <2> QED
    BY <1>1, <2>1, KeptTypes DEF GetRows, TypeOK
<1>2. CASE Stop(q)
  <2>1. CtlTypes' /\ UserTypes'
    BY <1>2 DEF Stop, TypeOK, CtlTypes, UserTypes
  <2> QED
    BY <1>2, <2>1, KeptTypes DEF Stop, TypeOK
<1>3. CASE DropStore(q)
  <2>1. CtlTypes' /\ UserTypes'
    BY <1>3 DEF DropStore, TypeOK, CtlTypes, UserTypes
  <2> QED
    BY <1>3, <2>1, KeptTypes DEF DropStore, TypeOK
<1> QED
  BY <1>1, <1>2, <1>3 DEF User

\* Every variable of feeder, store and budget always has its type: no counter
\* goes below zero, no task is in a place the code does not have.
THEOREM TypeCorrect == Spec => []TypeOK
<1>1. TypeOK /\ [Next]_vars => TypeOK'
  <2> SUFFICES ASSUME TypeOK, [Next]_vars PROVE TypeOK'
    OBVIOUS
  <2>1. CASE UNCHANGED vars
    BY <2>1, KeptTypes DEF vars, TypeOK
  <2>2. CASE Next
    BY <2>2, FeederType, AnswerType, WriterType, MemoryType, UserType DEF Next
  <2> QED
    BY <2>1, <2>2
<1> QED
  BY InitType, <1>1, PTL DEF Spec
-----------------------------------------------------------------------------
\* Feeder, driver and frontend touch neither the writer's place nor any memory.
LEMMA OnlyTheWriter ==
    ASSUME NEW q \in Queries, Feeder(q) \/ Answer(q) \/ User(q)
    PROVE  UNCHANGED <<spc, cur, parked, freed, docVars, memVars>>
<1>1. CASE Feeder(q)
  BY <1>1 DEF Feeder, Top, Gate, Parked, Enable, Reserve, TakeSlot, PullCancelled, Close,
              DropSender
<1>2. CASE Answer(q)
  BY <1>2 DEF Answer, PullRows, PullBlank, PullEnd, PullPanic
<1>3. CASE User(q)
  BY <1>3 DEF User, GetRows, Stop, DropStore
<1> QED
  BY <1>1, <1>2, <1>3

\* Of the writer's steps only a reservation touches the budget or its listener.
LEMMA WriterBudget ==
    ASSUME NEW q \in Queries, Writer(q), ~Admit(q)
    PROVE  UNCHANGED <<used, freed>>
BY DEF Writer, Receive, Spill, ParkForBudget, Wait, Publish, Enforce, Evict, Conclude, memVars

\* The reservation has failed and the writer is on its way to sleep, or asleep.
Waiting(q) == spc[q] \in {"spill", "park", "wait"}

\* No step but a reservation brings a writer there, and its chunk stays the same.
LEMMA WaitsOn ==
    ASSUME TypeOK, NEW q \in Queries, Writer(q), ~Admit(q),
           NEW p \in Queries, Waiting(p)'
    PROVE  Waiting(p) /\ cur'[p] = cur[p]
<1>1. spc \in [Queries -> WriterPcs] /\ cur \in [Queries -> Batch]
  BY DEF TypeOK, WriterTypes
<1>2. CASE Receive(q)
  BY <1>1, <1>2 DEF Receive, Finish, Step, Waiting
<1>3. CASE Spill(q)
  BY <1>1, <1>3 DEF Spill, Step, Waiting
<1>4. CASE ParkForBudget(q)
  BY <1>1, <1>4 DEF ParkForBudget, Step, Waiting
<1>5. CASE Wait(q)
  BY <1>1, <1>5 DEF Wait, Finish, Step, Waiting
<1>6. CASE Publish(q)
  BY <1>1, <1>6 DEF Publish, Step, Waiting
<1>7. CASE Enforce(q)
  BY <1>1, <1>7 DEF Enforce, Step, Waiting
<1>8. CASE Evict(q)
  BY <1>1, <1>8 DEF Evict, Step, Waiting
<1>9. CASE Conclude(q)
  BY <1>1, <1>9 DEF Conclude, Finish, Step, Waiting
<1> QED
  BY <1>2, <1>3, <1>4, <1>5, <1>6, <1>7, <1>8, <1>9 DEF Writer

\* No step takes the budget over its limit.
LEMMA LimitStep ==
    ASSUME TypeOK, WithinLimit, [Next]_vars
    PROVE  WithinLimit'
<1>1. ASSUME NEW q \in Queries, Feeder(q) \/ Answer(q) \/ User(q)
      PROVE  used' = used
  BY <1>1, OnlyTheWriter DEF memVars
<1>2. ASSUME NEW q \in Queries, Admit(q)
      PROVE  used' = used \/ used' <= Limit
  BY <1>2 DEF Admit
<1>3. ASSUME NEW q \in Queries, Writer(q), ~Admit(q)
      PROVE  used' = used
  BY <1>3, WriterBudget
<1>4. ASSUME NEW q \in Queries, Memory(q)
      PROVE  used' \in Nat /\ used' <= used
  <2>1. used \in Nat /\ releasing[q] \in Nat
    BY DEF TypeOK, MemTypes
  <2>2. Minus(used, releasing[q]) \in Nat /\ Minus(used, releasing[q]) <= used
    BY <2>1, ArithmeticType
  <2> QED
    BY <1>4, <2>1, <2>2 DEF Memory, DropLease, Released
<1>5. CASE UNCHANGED vars
  BY <1>5 DEF vars, memVars, WithinLimit
<1>6. used \in Nat
  BY DEF TypeOK, MemTypes
<1> QED
  BY <1>1, <1>2, <1>3, <1>4, <1>5, <1>6 DEF Next, WithinLimit

\* No step leaves a waiting writer unnotified while its chunk fits: a failed
\* reservation means it does not fit, a smaller budget comes with a notification.
LEMMA FreedStep ==
    ASSUME TypeOK, FreedIsNotLost, [Next]_vars
    PROVE  FreedIsNotLost'
<1> SUFFICES ASSUME NEW p \in Queries
             PROVE  Waiting(p)' /\ used' + cur'[p].rows <= Limit => freed'[p]
  BY DEF FreedIsNotLost, Waiting
<1>0. /\ Waiting(p) /\ used + cur[p].rows <= Limit => freed[p]
      /\ used \in Nat /\ cur[p].rows \in Nat
  BY DEF FreedIsNotLost, Waiting, TypeOK, WriterTypes, MemTypes, Batch
<1>1. CASE UNCHANGED vars
  BY <1>0, <1>1 DEF vars, memVars, Waiting
<1>2. ASSUME NEW q \in Queries, Feeder(q) \/ Answer(q) \/ User(q)
      PROVE  Waiting(p)' /\ used' + cur'[p].rows <= Limit => freed'[p]
  BY <1>0, <1>2, OnlyTheWriter DEF memVars, Waiting
<1>3. ASSUME NEW q \in Queries, Admit(q)
      PROVE  Waiting(p)' /\ used' + cur'[p].rows <= Limit => freed'[p]
  <2>1. spc \in [Queries -> WriterPcs] /\ freed \in [Queries -> BOOLEAN]
        /\ cur[q].rows \in Nat /\ cur' = cur
    BY <1>3 DEF TypeOK, WriterTypes, Batch, Admit
  <2>2. CASE used + cur[q].rows <= Limit
    <3>1. used' = used + cur[q].rows /\ Step(q, "publish")
      BY <1>3, <2>2 DEF Admit
    <3>2. CASE p = q
      BY <2>1, <2>2, <3>1, <3>2 DEF Step, Waiting
    <3>3. CASE p # q
      <4>1. spc'[p] = spc[p] /\ freed'[p] = freed[p]
        BY <1>3, <2>1, <3>1, <3>3 DEF Admit, Step
      <4> QED
        BY <1>0, <2>1, <2>2, <3>1, <4>1 DEF Waiting
    <3> QED
      BY <3>2, <3>3
  <2>3. CASE ~(used + cur[q].rows <= Limit)
    <3>1. used' = used /\ Step(q, "spill")
      BY <1>3, <2>3 DEF Admit
    <3>2. CASE p = q
      BY <2>1, <2>3, <3>1, <3>2
    <3>3. CASE p # q
      <4>1. spc'[p] = spc[p] /\ freed'[p] = freed[p]
        BY <1>3, <2>1, <3>1, <3>3 DEF Admit, Step
      <4> QED
        BY <1>0, <2>1, <3>1, <4>1 DEF Waiting
    <3> QED
      BY <1>0, <3>1, <3>2, <3>3
  <2> QED
    BY <2>2, <2>3
<1>4. ASSUME NEW q \in Queries, Writer(q), ~Admit(q)
      PROVE  Waiting(p)' /\ used' + cur'[p].rows <= Limit => freed'[p]
  BY <1>0, <1>4, WriterBudget, WaitsOn
<1>5. ASSUME NEW q \in Queries, Memory(q)
      PROVE  Waiting(p)' /\ used' + cur'[p].rows <= Limit => freed'[p]
  <2>1. CASE DropLease(q)
    BY <1>0, <2>1 DEF DropLease, Waiting
  <2>2. CASE Released(q)
    <3>1. releasing[q] \in Nat
      BY DEF TypeOK, MemTypes
    <3>2. used' \in Nat /\ used' <= used
      BY <1>0, <2>2, <3>1, ArithmeticType DEF Released
    <3>3. freed'[p]
      BY <2>2 DEF Released
    <3> QED
      BY <1>0, <3>2, <3>3
  <2> QED
    BY <1>5, <2>1, <2>2 DEF Memory
<1> QED
  BY <1>1, <1>2, <1>3, <1>4, <1>5 DEF Next

\* A writer that waits for memory while its chunk fits has been notified: a
\* release between a failed reservation and the wait for it is never lost.
THEOREM NoReleaseIsLost == Spec => []FreedIsNotLost
<1>1. Init => FreedIsNotLost
  BY DEF Init, FreedIsNotLost
<1>2. TypeOK /\ FreedIsNotLost /\ [Next]_vars => FreedIsNotLost'
  BY FreedStep
<1> QED
  BY TypeCorrect, <1>1, <1>2, PTL DEF Spec

\* All results together never hold more than the total budget.
THEOREM NeverOverTheLimit == Spec => []WithinLimit
<1>1. Init => WithinLimit
  BY DEF Init, WithinLimit
<1>2. TypeOK /\ WithinLimit /\ [Next]_vars => WithinLimit'
  BY LimitStep
<1> QED
  BY TypeCorrect, <1>1, <1>2, PTL DEF Spec
-----------------------------------------------------------------------------
\* A feeder that is past the gate has not fed since it was parked, if it was.
Committed(q) == fpc[q] \in {"enable", "reserve", "pull"}
ParkInv ==
    \A q \in Queries : /\ overrun[q] <= 1
                       /\ ~paused[q] \/ Committed(q) => overrun[q] = 0

\* Writer, memory and frontend move the feeder's flags through its handle only.
LEMMA OnlyByHandle ==
    ASSUME NEW q \in Queries, Writer(q) \/ Memory(q) \/ User(q)
    PROVE  /\ UNCHANGED fpc
           /\ Park(q) \/ Resume(q) \/ UNCHANGED <<paused, overrun>>
<1>1. CASE Writer(q)
  BY <1>1 DEF Writer, Receive, Admit, Spill, ParkForBudget, Wait, Publish, Enforce, Evict,
              Conclude, feedVars, ctlVars
<1>2. CASE Memory(q)
  BY <1>2 DEF Memory, DropLease, Released, feedVars, ctlVars
<1>3. CASE User(q)
  BY <1>3 DEF User, GetRows, Stop, DropStore, feedVars
<1> QED
  BY <1>1, <1>2, <1>3

\* Every step keeps ParkInv.
LEMMA ParkStep ==
    ASSUME TypeOK, ParkInv, [Next]_vars
    PROVE  ParkInv'
<1>0. /\ fpc \in [Queries -> FeederPcs] /\ paused \in [Queries -> BOOLEAN]
      /\ overrun \in [Queries -> Nat]
  BY DEF TypeOK, FeedTypes, CtlTypes
<1>1. CASE UNCHANGED vars
  BY <1>1 DEF vars, feedVars, ctlVars, ParkInv, Committed
<1>2. ASSUME NEW q \in Queries, Feeder(q)
      PROVE  ParkInv'
  <2>1. UNCHANGED <<paused, overrun>>
    BY <1>2 DEF Feeder, Top, Gate, Parked, Enable, Reserve, TakeSlot, PullCancelled, Close,
                DropSender, ctlVars
  <2>2. PICK pc \in FeederPcs : Goto(q, pc)
    BY <1>2 DEF Feeder, Top, Gate, Parked, Enable, Reserve, TakeSlot, PullCancelled, Close,
                DropSender, Return, FeederPcs
  <2>3. pc \in {"enable", "reserve", "pull"} => ~paused[q] \/ Committed(q)
    BY <1>0, <1>2, <2>2 DEF Feeder, Top, Gate, Parked, Enable, Reserve, TakeSlot,
                PullCancelled, Close, DropSender, Goto, Return, Committed
  <2> QED
    BY <1>0, <2>1, <2>2, <2>3 DEF Goto, ParkInv, Committed
<1>3. ASSUME NEW q \in Queries, Answer(q)
      PROVE  ParkInv'
  <2>1. UNCHANGED paused /\ Committed(q) /\ overrun[q] = 0
    BY <1>3 DEF Answer, PullRows, PullBlank, PullEnd, PullPanic, ctlVars, ParkInv, Committed
  <2>2. PICK n \in {0, 1} : overrun' = [overrun EXCEPT ![q] = n] /\ (~paused[q] => n = 0)
    BY <1>0, <1>3, <2>1 DEF Answer, PullRows, PullBlank, PullEnd, PullPanic, ctlVars
  <2>3. PICK pc \in {"top", "close", "ended"} : Goto(q, pc)
    BY <1>3 DEF Answer, PullRows, PullBlank, PullEnd, PullPanic, Return
  <2> QED
    BY <1>0, <2>1, <2>2, <2>3 DEF Goto, ParkInv, Committed
<1>4. ASSUME NEW q \in Queries, Writer(q) \/ Memory(q) \/ User(q)
      PROVE  ParkInv'
  <2>1. CASE Park(q)
    BY <1>0, <1>4, <2>1, OnlyByHandle DEF Park, ParkInv, Committed
  <2>2. CASE Resume(q)
    <3>1. \A p \in Queries : /\ fpc'[p] = fpc[p]
                             /\ overrun'[p] = 0 \/ UNCHANGED <<paused[p], overrun[p]>>
      BY <1>0, <1>4, <2>2, OnlyByHandle DEF Resume
    <3> QED
      BY <1>0, <3>1 DEF ParkInv, Committed
  <2>3. CASE UNCHANGED <<paused, overrun>>
    BY <1>4, <2>3, OnlyByHandle DEF ParkInv, Committed
  <2> QED
    BY <1>4, <2>1, <2>2, <2>3, OnlyByHandle
<1> QED
  BY <1>1, <1>2, <1>3, <1>4 DEF Next

\* A parked feeder feeds at most the one batch it was committed to when it was
\* parked, until it is resumed: the hot window and the budget really stop it.
THEOREM ParkedFeederStops == Spec => []ParkHolds
<1>1. Init => ParkInv
  BY DEF Init, ParkInv, Committed
<1>2. TypeOK /\ ParkInv /\ [Next]_vars => ParkInv'
  BY ParkStep
<1>3. ParkInv => ParkHolds
  BY DEF ParkInv, ParkHolds
<1> QED
  BY TypeCorrect, <1>1, <1>2, <1>3, PTL DEF Spec
-----------------------------------------------------------------------------
(***************************************************************************)
(* Rows are published in the order of the source, without a gap.           *)
(*                                                                         *)
(* The invariant follows a row from the cursor to its chunk.  What the     *)
(* feeder has fed ends where the channel ends, each batch in the channel   *)
(* begins where the one before it ends, the first where the batch that the *)
(* writer carries ends, and that one where the published chunks end.       *)
(***************************************************************************)

\* The writer has taken a batch off the channel and not published it yet.
Carrying(q) == spc[q] \in {"admit", "spill", "park", "wait", "publish"}

\* Where batch i of the channel ends; before the first, where the writer is.
Edge(q, i) == IF i > 0 THEN chan[q][i].at + chan[q][i].rows
              ELSE IF Carrying(q) THEN rows[q] + cur[q].rows ELSE rows[q]

ChunksInOrder(q) ==
    /\ \A i \in 1 .. Len(chunks[q]) :
          /\ chunks[q][i].first_row = chunks[q][i].at
          /\ i > 1 => chunks[q][i].at = chunks[q][i - 1].at + chunks[q][i - 1].rows
    /\ Len(chunks[q]) > 0 =>
          rows[q] = chunks[q][Len(chunks[q])].at + chunks[q][Len(chunks[q])].rows

WriterInOrder(q) == Carrying(q) => cur[q].at = rows[q]

ChannelInOrder(q) ==
    spc[q] # "finished" =>
        /\ \A i \in 1 .. Len(chan[q]) : chan[q][i].at = Edge(q, i - 1)
        /\ Edge(q, Len(chan[q])) = fed[q]

FeederInOrder(q) == fpc[q] \notin {"close", "final", "ended"} => fed[q] = pos[q]

InOrder(q) == ChunksInOrder(q) /\ WriterInOrder(q) /\ ChannelInOrder(q) /\ FeederInOrder(q)

OrderInv == \A q \in Queries : InOrder(q)
-----------------------------------------------------------------------------
\* What InOrder looks at.
Own(q) == <<fpc[q], fed[q], pos[q], chan[q], spc[q], cur[q], rows[q], chunks[q]>>

\* The variables of one query are functions on the queries.
LEMMA Domains ==
    ASSUME TypeOK
    PROVE  /\ fpc \in [Queries -> FeederPcs] /\ fed \in [Queries -> Nat]
           /\ pos \in [Queries -> Nat] /\ chan \in [Queries -> Seq(Batch)]
           /\ spc \in [Queries -> WriterPcs] /\ cur \in [Queries -> Batch]
           /\ rows \in [Queries -> Nat] /\ chunks \in [Queries -> Seq(Chunk)]
BY DEF TypeOK, CursorTypes, FeedTypes, WriterTypes, DocTypes

\* A step that leaves a query's variables alone leaves it in order.
LEMMA OwnKeepsOrder ==
    ASSUME NEW q \in Queries, InOrder(q), UNCHANGED Own(q)
    PROVE  InOrder(q)'
BY DEF InOrder, Own, ChunksInOrder, WriterInOrder, ChannelInOrder, FeederInOrder, Edge, Carrying

\* A step of one query leaves the variables of all others alone.
LEMMA OthersStand ==
    ASSUME TypeOK, NEW q \in Queries, NEW p \in Queries \ {q},
           Feeder(q) \/ Answer(q) \/ Writer(q) \/ Memory(q) \/ User(q)
    PROVE  UNCHANGED Own(p)
<1> USE Domains DEF Own, cursorVars, feedVars, docVars
<1>1. CASE Feeder(q)
  BY <1>1 DEF Feeder, Top, Gate, Parked, Enable, Reserve, TakeSlot, PullCancelled, Close,
              DropSender, Goto, Return
<1>2. CASE PullRows(q)
  <2>1. UNCHANGED <<spc, cur, rows, chunks>>
    BY <1>2 DEF PullRows
  <2>2. UNCHANGED <<fed[p], pos[p], chan[p], fpc[p]>>
    BY <1>2 DEF PullRows, Send, Goto, Return
  <2> QED
    BY <2>1, <2>2
<1>3. CASE PullBlank(q) \/ PullEnd(q) \/ PullPanic(q)
  BY <1>3 DEF PullBlank, PullEnd, PullPanic, Send, Goto, Return
<1>4. CASE Receive(q) \/ Admit(q) \/ Wait(q) \/ Conclude(q)
  BY <1>4 DEF Receive, Admit, Wait, Conclude, Finish, Step
<1>5. CASE Spill(q) \/ ParkForBudget(q) \/ Publish(q) \/ Enforce(q) \/ Evict(q)
  BY <1>5 DEF Spill, ParkForBudget, Publish, Enforce, Evict, SpillOldest, Step
<1>6. CASE Memory(q) \/ User(q)
  BY <1>6 DEF Memory, DropLease, Released, User, GetRows, Stop, DropStore
<1> QED
  BY <1>1, <1>2, <1>3, <1>4, <1>5, <1>6 DEF Answer, Writer
-----------------------------------------------------------------------------
\* The feeder's own steps pull nothing: what was fed stays what was pulled.
LEMMA FeederOrder ==
    ASSUME TypeOK, NEW q \in Queries, InOrder(q), Feeder(q)
    PROVE  InOrder(q)'
<1>1. UNCHANGED <<fed, pos, chan, spc, cur, rows, chunks>>
  BY DEF Feeder, Top, Gate, Parked, Enable, Reserve, TakeSlot, PullCancelled, Close,
         DropSender, cursorVars, docVars
<1>2. fpc'[q] \notin {"close", "final", "ended"} => fpc[q] \notin {"close", "final", "ended"}
  BY Domains DEF Feeder, Top, Gate, Parked, Enable, Reserve, TakeSlot, PullCancelled, Close,
         DropSender, Goto, Return
<1> QED
  BY <1>1, <1>2 DEF InOrder, ChunksInOrder, WriterInOrder, ChannelInOrder, FeederInOrder,
                    Edge, Carrying

\* A batch that begins where the feeder is extends the channel in order.
LEMMA SendOrder ==
    ASSUME TypeOK, NEW q \in Queries, ChannelInOrder(q), NEW b \in Batch,
           Send(q, b), b.at = fed[q], fed'[q] = fed[q] + b.rows,
           UNCHANGED <<spc, cur, rows>>
    PROVE  ChannelInOrder(q)'
<1>0. chan[q] \in Seq(Batch) /\ fed[q] \in Nat /\ Len(chan[q]) \in Nat
  BY Domains
<1>1. CASE spc[q] = "finished"
  BY <1>1 DEF ChannelInOrder
<1>2. CASE spc[q] # "finished"
  <2>1. chan'[q] = Append(chan[q], b)
    BY <1>2, Domains DEF Send
  <2>2. /\ Len(chan'[q]) = Len(chan[q]) + 1
        /\ \A i \in 1 .. Len(chan[q]) : chan'[q][i] = chan[q][i]
        /\ chan'[q][Len(chan[q]) + 1] = b
    BY <1>0, <2>1
  <2>3. \A i \in 0 .. Len(chan[q]) : Edge(q, i)' = Edge(q, i)
    BY <1>0, <2>2 DEF Edge, Carrying
  <2>4. \A i \in 1 .. Len(chan[q]) : chan[q][i].at = Edge(q, i - 1)
    BY <1>2 DEF ChannelInOrder
  <2>5. Edge(q, Len(chan[q])) = fed[q]
    BY <1>2 DEF ChannelInOrder
  <2>6. \A i \in 1 .. Len(chan'[q]) : chan'[q][i].at = Edge(q, i - 1)'
    <3>1. SUFFICES ASSUME NEW i \in 1 .. Len(chan'[q])
                   PROVE  chan'[q][i].at = Edge(q, i - 1)'
      OBVIOUS
    <3>2. CASE i <= Len(chan[q])
      <4>1. i \in 1 .. Len(chan[q]) /\ i - 1 \in 0 .. Len(chan[q])
        BY <1>0, <3>2
      <4> QED
        BY <2>2, <2>3, <2>4, <4>1
    <3>3. CASE i = Len(chan[q]) + 1
      <4>1. i - 1 = Len(chan[q]) /\ Len(chan[q]) \in 0 .. Len(chan[q])
        BY <1>0, <3>3
      <4> QED
        BY <2>2, <2>3, <2>5, <3>3, <4>1
    <3> QED
      BY <1>0, <2>2, <3>2, <3>3
  <2>7. Edge(q, Len(chan[q]))' = fed'[q]
    BY <1>0, <2>2 DEF Edge
  <2> QED
    BY <2>2, <2>6, <2>7 DEF ChannelInOrder
<1> QED
  BY <1>1, <1>2

\* The cut at the row cap: a batch that stays below it is whole.
LEMMA CutAtCap ==
    ASSUME NEW n \in Nat, NEW f \in Nat
    PROVE  /\ Least(n, Minus(RowCap, f)) \in Nat
           /\ f + Least(n, Minus(RowCap, f)) >= RowCap \/ Least(n, Minus(RowCap, f)) = n
<1>1. Minus(RowCap, f) \in Nat /\ f + Minus(RowCap, f) >= RowCap
  BY DEF Minus
<1>2. Least(n, Minus(RowCap, f)) \in {n, Minus(RowCap, f)}
  BY DEF Least
<1> QED
  BY <1>1, <1>2

\* What next_batch answers is sent as it stands in the source; a batch that is
\* cut is the last.
LEMMA AnswerOrder ==
    ASSUME TypeOK, NEW q \in Queries, InOrder(q), Answer(q)
    PROVE  InOrder(q)'
<1>0. fed[q] \in Nat /\ pos[q] \in Nat
  BY Domains
<1>1. UNCHANGED <<spc, cur, rows, chunks>> /\ fpc[q] = "pull"
  BY DEF Answer, PullRows, PullBlank, PullEnd, PullPanic, docVars
<1>2. ChunksInOrder(q)' /\ WriterInOrder(q)'
  BY <1>1 DEF InOrder, ChunksInOrder, WriterInOrder, Carrying
<1>3. fed[q] = pos[q]
  BY <1>1 DEF InOrder, FeederInOrder
<1>4. CASE PullRows(q)
  <2>1. PICK n \in BatchRows :
          LET kept == Least(n, Minus(RowCap, fed[q]))
          IN  /\ pos' = [pos EXCEPT ![q] = @ + n]
              /\ fed' = [fed EXCEPT ![q] = @ + kept]
              /\ Send(q, [at |-> pos[q], rows |-> kept])
              /\ IF fed[q] + kept >= RowCap
                   THEN Return(q, "Capped")
                   ELSE Goto(q, "top") /\ UNCHANGED ending
    BY <1>4 DEF PullRows
  <2> DEFINE kept == Least(n, Minus(RowCap, fed[q]))
             b == [at |-> pos[q], rows |-> kept]
  <2>2. kept \in Nat /\ (fed[q] + kept >= RowCap \/ kept = n)
    <3>1. n \in Nat
      OBVIOUS
    <3> QED
      BY <1>0, <3>1, CutAtCap
  <2>3. b \in Batch
    BY <1>0, <2>2 DEF Batch
  <2>4. fed'[q] = fed[q] + kept /\ pos'[q] = pos[q] + n
    BY <2>1, Domains
  <2>5. ChannelInOrder(q)'
    <3>1. Send(q, b) /\ b.at = fed[q] /\ fed'[q] = fed[q] + b.rows
      BY <1>3, <2>1, <2>4
    <3> HIDE DEF b
    <3> QED
      BY <1>1, <2>3, <3>1, SendOrder DEF InOrder
  <2>6. FeederInOrder(q)'
    <3>1. CASE fed[q] + kept >= RowCap
      <4>1. fpc'[q] = "close"
        BY <2>1, <3>1, Domains DEF Return, Goto
      <4> QED
        BY <4>1 DEF FeederInOrder
    <3>2. CASE ~(fed[q] + kept >= RowCap)
      <4>1. kept = n
        BY <2>2, <3>2
      <4> QED
        BY <1>3, <2>4, <4>1 DEF FeederInOrder
    <3> QED
      BY <3>1, <3>2
  <2> QED
    BY <1>2, <2>5, <2>6 DEF InOrder
<1>5. CASE PullBlank(q)
  <2> DEFINE b == [at |-> pos[q], rows |-> 0]
  <2>1. Send(q, b) /\ UNCHANGED <<fed, pos>>
    BY <1>5 DEF PullBlank
  <2>2. b \in Batch /\ b.at = fed[q] /\ fed'[q] = fed[q] + b.rows
    BY <1>0, <1>3, <2>1 DEF Batch
  <2>3. ChannelInOrder(q)'
    <3> HIDE DEF b
    <3> QED
      BY <1>1, <2>1, <2>2, SendOrder DEF InOrder
  <2>4. FeederInOrder(q)'
    BY <1>3, <2>1 DEF FeederInOrder
  <2> QED
    BY <1>2, <2>3, <2>4 DEF InOrder
<1>6. CASE PullEnd(q) \/ PullPanic(q)
  <2>1. UNCHANGED <<fed, pos, chan>>
    BY <1>6 DEF PullEnd, PullPanic, cursorVars
  <2> QED
    BY <1>1, <1>2, <1>3, <2>1 DEF InOrder, ChannelInOrder, FeederInOrder, Edge, Carrying
<1> QED
  BY <1>4, <1>5, <1>6 DEF Answer
-----------------------------------------------------------------------------
\* The writer's end leaves what is published, and the channel is gone.
LEMMA FinishOrder ==
    ASSUME TypeOK, NEW q \in Queries, InOrder(q), NEW p, Finish(q, p),
           UNCHANGED <<fpc, fed, pos>>
    PROVE  InOrder(q)'
<1>1. spc'[q] = "finished" /\ UNCHANGED <<rows, chunks>>
  BY Domains DEF Finish, Step
<1> QED
  BY <1>1 DEF InOrder, ChunksInOrder, WriterInOrder, ChannelInOrder, FeederInOrder, Carrying

\* Spilling a chunk does not move it.
LEMMA SpillOrder ==
    ASSUME TypeOK, NEW q \in Queries, ChunksInOrder(q), SpillOldest(q), UNCHANGED rows
    PROVE  ChunksInOrder(q)'
<1>1. PICK k \in DOMAIN chunks[q] : chunks' = [chunks EXCEPT ![q][k].spilled = TRUE]
  BY DEF SpillOldest
<1>2. chunks[q] \in Seq(Chunk)
  BY Domains
<1>3. \A i \in 1 .. Len(chunks[q]) : chunks[q][i] \in Chunk
  BY <1>2
<1>4. chunks'[q] = [chunks[q] EXCEPT ![k] = [chunks[q][k] EXCEPT !.spilled = TRUE]]
  BY <1>1, Domains
<1>5. Len(chunks'[q]) = Len(chunks[q])
  BY <1>2, <1>4
<1>6. \A i \in 1 .. Len(chunks[q]) : /\ chunks'[q][i].first_row = chunks[q][i].first_row
                                     /\ chunks'[q][i].at = chunks[q][i].at
                                     /\ chunks'[q][i].rows = chunks[q][i].rows
  <2>1. SUFFICES ASSUME NEW i \in 1 .. Len(chunks[q])
                 PROVE  /\ chunks'[q][i].first_row = chunks[q][i].first_row
                        /\ chunks'[q][i].at = chunks[q][i].at
                        /\ chunks'[q][i].rows = chunks[q][i].rows
    OBVIOUS
  <2>2. CASE i = k
    BY <1>2, <1>3, <1>4, <2>2 DEF Chunk
  <2>3. CASE i # k
    BY <1>2, <1>4, <2>3
  <2> QED
    BY <2>2, <2>3
<1>7. Len(chunks[q]) \in Nat
  BY <1>2
<1>8. rows'[q] = rows[q]
  OBVIOUS
<1>9. \A i \in 1 .. Len(chunks'[q]) :
        /\ chunks'[q][i].first_row = chunks'[q][i].at
        /\ i > 1 => chunks'[q][i].at = chunks'[q][i - 1].at + chunks'[q][i - 1].rows
  <2>1. SUFFICES ASSUME NEW i \in 1 .. Len(chunks'[q])
                 PROVE  /\ chunks'[q][i].first_row = chunks'[q][i].at
                        /\ i > 1 => chunks'[q][i].at =
                                      chunks'[q][i - 1].at + chunks'[q][i - 1].rows
    OBVIOUS
  <2>2. i \in 1 .. Len(chunks[q]) /\ (i > 1 => i - 1 \in 1 .. Len(chunks[q]))
    BY <1>5, <1>7
  <2> QED
    BY <1>6, <2>2 DEF ChunksInOrder
<1>10. Len(chunks'[q]) > 0 =>
          rows'[q] = chunks'[q][Len(chunks'[q])].at + chunks'[q][Len(chunks'[q])].rows
  BY <1>5, <1>6, <1>7, <1>8 DEF ChunksInOrder
<1> QED
  BY <1>9, <1>10 DEF ChunksInOrder

\* A step on which the writer neither takes nor publishes a batch.
LEMMA QuietWriterOrder ==
    ASSUME TypeOK, NEW q \in Queries, InOrder(q), ChunksInOrder(q)',
           UNCHANGED <<fpc, fed, pos, chan, cur, rows>>,
           spc[q] # "finished", Carrying(q)' <=> Carrying(q)
    PROVE  InOrder(q)'
BY DEF InOrder, WriterInOrder, ChannelInOrder, FeederInOrder, Edge

\* Taking a batch off the channel: what the writer carries begins where it is.
LEMMA TakeOrder ==
    ASSUME TypeOK, NEW q \in Queries, InOrder(q), spc[q] = "recv", chan[q] # <<>>,
           chan' = [chan EXCEPT ![q] = Tail(@)],
           IF Head(chan[q]).rows > 0
             THEN cur' = [cur EXCEPT ![q] = Head(chan[q])] /\ Step(q, "admit")
             ELSE UNCHANGED <<cur, spc>>,
           UNCHANGED <<fpc, fed, pos, rows, chunks>>
    PROVE  InOrder(q)'
<1>0. /\ chan[q] \in Seq(Batch) /\ Len(chan[q]) \in Nat \ {0} /\ rows[q] \in Nat
      /\ Head(chan[q]) = chan[q][1] /\ chan[q][1] \in Batch
  BY Domains
<1>1. /\ \A i \in 1 .. Len(chan[q]) : chan[q][i].at = Edge(q, i - 1)
      /\ Edge(q, Len(chan[q])) = fed[q]
  BY DEF InOrder, ChannelInOrder
<1>2. chan[q][1].at = rows[q]
  BY <1>0, <1>1 DEF Edge, Carrying
<1>3. chan'[q] = Tail(chan[q])
  BY Domains
<1>4. /\ Len(chan'[q]) = Len(chan[q]) - 1
      /\ \A i \in 1 .. Len(chan[q]) - 1 : chan'[q][i] = chan[q][i + 1]
  <2>1. chan[q] # <<>>
    OBVIOUS
  <2>2. /\ Len(Tail(chan[q])) = Len(chan[q]) - 1
        /\ \A i \in 1 .. Len(Tail(chan[q])) : Tail(chan[q])[i] = chan[q][i + 1]
    BY <1>0, <2>1, HeadTailProperties
  <2> QED
    BY <1>3, <2>2
<1>5. Edge(q, 0)' = Edge(q, 1) /\ WriterInOrder(q)' /\ spc'[q] # "finished"
  <2>1. CASE Head(chan[q]).rows > 0
    <3>1. cur'[q] = chan[q][1] /\ spc'[q] = "admit"
      BY <1>0, <2>1, Domains DEF Step
    <3> QED
      BY <1>2, <3>1 DEF Edge, Carrying, WriterInOrder
  <2>2. CASE ~(Head(chan[q]).rows > 0)
    <3>1. chan[q][1].rows = 0
      BY <1>0, <2>2 DEF Batch
    <3> QED
      BY <1>0, <1>2, <2>2, <3>1 DEF Edge, Carrying, WriterInOrder
  <2> QED
    BY <2>1, <2>2
<1>6. \A i \in 0 .. Len(chan[q]) - 1 : Edge(q, i)' = Edge(q, i + 1)
  <2>1. SUFFICES ASSUME NEW i \in 1 .. Len(chan[q]) - 1
                 PROVE  Edge(q, i)' = Edge(q, i + 1)
    BY <1>0, <1>5
  <2> QED
    BY <1>0, <1>4 DEF Edge
<1>7. ChannelInOrder(q)'
  <2>1. \A i \in 1 .. Len(chan'[q]) : chan'[q][i].at = Edge(q, i - 1)'
    <3>1. SUFFICES ASSUME NEW i \in 1 .. Len(chan'[q])
                   PROVE  chan'[q][i].at = Edge(q, i - 1)'
      OBVIOUS
    <3>2. i \in 1 .. Len(chan[q]) - 1 /\ i + 1 \in 1 .. Len(chan[q]) /\ (i + 1) - 1 = i
      BY <1>0, <1>4, <3>1
    <3>3. chan[q][i + 1].at = Edge(q, i)
      BY <1>1, <3>2
    <3>4. i - 1 \in 0 .. Len(chan[q]) - 1 /\ (i - 1) + 1 = i
      BY <1>0, <3>2
    <3>5. Edge(q, i - 1)' = Edge(q, i)
      BY <1>6, <3>4
    <3> QED
      BY <1>4, <3>2, <3>3, <3>5
  <2>2. Edge(q, Len(chan[q]))' = fed'[q]
    <3>1. Len(chan[q]) - 1 \in 0 .. Len(chan[q]) - 1 /\ (Len(chan[q]) - 1) + 1 = Len(chan[q])
      BY <1>0
    <3>2. \A i : i = Len(chan'[q]) => Edge(q, i)' = Edge(q, Len(chan[q]))
      BY <1>4, <1>6, <3>1
    <3> QED
      BY <1>1, <3>2
  <2> QED
    BY <2>1, <2>2 DEF ChannelInOrder
<1> QED
  BY <1>5, <1>7 DEF InOrder, ChunksInOrder, FeederInOrder

\* The chunk that is published begins where the published rows end.
LEMMA PublishOrder ==
    ASSUME TypeOK, NEW q \in Queries, InOrder(q), Publish(q)
    PROVE  InOrder(q)'
<1> DEFINE c == [first_row |-> rows[q], at |-> cur[q].at, rows |-> cur[q].rows,
                 spilled |-> FALSE]
<1>0. /\ chunks[q] \in Seq(Chunk) /\ Len(chunks[q]) \in Nat /\ rows[q] \in Nat
      /\ cur[q].rows \in Nat /\ cur[q].at \in Nat /\ Len(chan[q]) \in Nat
  BY Domains DEF Batch
<1>1. /\ spc[q] = "publish" /\ spc'[q] = "enforce" /\ rows'[q] = rows[q] + cur[q].rows
      /\ chunks'[q] = Append(chunks[q], c)
      /\ UNCHANGED <<fpc, fed, pos, chan>>
  BY Domains DEF Publish, Step, cursorVars, feedVars
<1>2. cur[q].at = rows[q]
  BY <1>1 DEF InOrder, WriterInOrder, Carrying
<1>3. ChunksInOrder(q)'
  <2>1. c \in Chunk
    BY <1>0 DEF Chunk
  <2>2. c.first_row = rows[q] /\ c.at = rows[q] /\ c.rows = cur[q].rows
    BY <1>2
  <2> HIDE DEF c
  <2>3. /\ Len(chunks'[q]) = Len(chunks[q]) + 1
        /\ \A i \in 1 .. Len(chunks[q]) : chunks'[q][i] = chunks[q][i]
        /\ chunks'[q][Len(chunks[q]) + 1] = c
    BY <1>0, <1>1, <2>1
  <2>4. \A i \in 1 .. Len(chunks'[q]) :
          /\ chunks'[q][i].first_row = chunks'[q][i].at
          /\ i > 1 => chunks'[q][i].at = chunks'[q][i - 1].at + chunks'[q][i - 1].rows
    <3>1. SUFFICES ASSUME NEW i \in 1 .. Len(chunks'[q])
                   PROVE  /\ chunks'[q][i].first_row = chunks'[q][i].at
                          /\ i > 1 => chunks'[q][i].at =
                                        chunks'[q][i - 1].at + chunks'[q][i - 1].rows
      OBVIOUS
    <3>2. CASE i <= Len(chunks[q])
      <4>1. i \in 1 .. Len(chunks[q]) /\ (i > 1 => i - 1 \in 1 .. Len(chunks[q]))
        BY <1>0, <2>3, <3>2
      <4> QED
        BY <2>3, <4>1 DEF InOrder, ChunksInOrder
    <3>3. CASE i = Len(chunks[q]) + 1
      <4>1. CASE Len(chunks[q]) = 0
        BY <1>0, <2>2, <2>3, <3>3, <4>1
      <4>2. CASE Len(chunks[q]) > 0
        BY <1>0, <2>2, <2>3, <3>3, <4>2 DEF InOrder, ChunksInOrder
      <4> QED
        BY <1>0, <4>1, <4>2
    <3> QED
      BY <1>0, <2>3, <3>2, <3>3
  <2> QED
    BY <1>0, <1>1, <2>2, <2>3, <2>4 DEF ChunksInOrder
<1>4. \A i \in 0 .. Len(chan[q]) : Edge(q, i)' = Edge(q, i)
  BY <1>0, <1>1 DEF Edge, Carrying
<1>5. ChannelInOrder(q)'
  BY <1>0, <1>1, <1>4 DEF InOrder, ChannelInOrder
<1> QED
  BY <1>1, <1>3, <1>5 DEF InOrder, WriterInOrder, FeederInOrder, Carrying

\* Every step of the writer leaves its query in order.
LEMMA WriterOrder ==
    ASSUME TypeOK, NEW q \in Queries, InOrder(q), Writer(q)
    PROVE  InOrder(q)'
<1>0. UNCHANGED <<fpc, fed, pos>>
  BY DEF Writer, Receive, Admit, Spill, ParkForBudget, Wait, Publish, Enforce, Evict, Conclude,
         cursorVars, feedVars
<1>1. CASE Receive(q)
  <2>1. CASE Finish(q, "Cancelled")
    BY <1>0, <2>1, FinishOrder
  <2>2. CASE /\ chan[q] # <<>>
             /\ chan' = [chan EXCEPT ![q] = Tail(@)]
             /\ IF Head(chan[q]).rows > 0
                  THEN cur' = [cur EXCEPT ![q] = Head(chan[q])] /\ Step(q, "admit")
                  ELSE UNCHANGED <<cur, spc>>
             /\ UNCHANGED docVars
    <3>1. spc[q] = "recv" /\ UNCHANGED <<rows, chunks>>
      BY <1>1, <2>2 DEF Receive, docVars
    <3> QED
      BY <1>0, <2>2, <3>1, TakeOrder
  <2>3. CASE Step(q, "terminal") /\ UNCHANGED <<chan, cur, docVars>>
    <3>1. spc[q] = "recv" /\ spc'[q] = "terminal"
      BY <1>1, <2>3, Domains DEF Receive, Step
    <3>2. UNCHANGED <<chan, cur, rows, chunks>> /\ ChunksInOrder(q)'
      BY <2>3 DEF docVars, InOrder, ChunksInOrder
    <3> QED
      BY <1>0, <3>1, <3>2, QuietWriterOrder DEF Carrying
  <2> QED
    BY <1>1, <2>1, <2>2, <2>3 DEF Receive
<1>2. CASE Admit(q) \/ ParkForBudget(q) \/ Enforce(q)
  <2>1. UNCHANGED <<chan, cur, rows, chunks>>
    BY <1>2 DEF Admit, ParkForBudget, Enforce, docVars
  <2>2. spc[q] # "finished" /\ (Carrying(q)' <=> Carrying(q))
    BY <1>2, Domains DEF Admit, ParkForBudget, Enforce, Step, Carrying
  <2>3. ChunksInOrder(q)'
    BY <2>1 DEF InOrder, ChunksInOrder
  <2> QED
    BY <1>0, <2>1, <2>2, <2>3, QuietWriterOrder
<1>3. CASE Spill(q) \/ Evict(q)
  <2>1. UNCHANGED <<chan, cur, rows>>
    BY <1>3 DEF Spill, Evict
  <2>2. spc[q] # "finished" /\ (Carrying(q)' <=> Carrying(q))
    BY <1>3, Domains DEF Spill, Evict, Step, Carrying
  <2>3. SpillOldest(q) \/ UNCHANGED chunks
    BY <1>3 DEF Spill, Evict
  <2>4. ChunksInOrder(q)'
    BY <2>1, <2>3, SpillOrder DEF InOrder, ChunksInOrder
  <2> QED
    BY <1>0, <2>1, <2>2, <2>4, QuietWriterOrder
<1>4. CASE Wait(q)
  <2>1. CASE Finish(q, "Cancelled")
    BY <1>0, <2>1, FinishOrder
  <2>2. CASE Step(q, "admit") /\ UNCHANGED <<chan, cur, docVars>>
    <3>1. spc[q] = "wait" /\ spc'[q] = "admit"
      BY <1>4, <2>2, Domains DEF Wait, Step
    <3>2. UNCHANGED <<chan, cur, rows, chunks>> /\ ChunksInOrder(q)'
      BY <2>2 DEF docVars, InOrder, ChunksInOrder
    <3> QED
      BY <1>0, <3>1, <3>2, QuietWriterOrder DEF Carrying
  <2> QED
    BY <1>4, <2>1, <2>2 DEF Wait
<1>5. CASE Publish(q)
  BY <1>5, PublishOrder
<1>6. CASE Conclude(q)
  <2>1. PICK p : Finish(q, p)
    BY <1>6 DEF Conclude
  <2> QED
    BY <1>0, <2>1, FinishOrder
<1> QED
  BY <1>1, <1>2, <1>3, <1>4, <1>5, <1>6 DEF Writer

\* Every step leaves every query in order.
LEMMA OrderStep ==
    ASSUME TypeOK, OrderInv, [Next]_vars
    PROVE  OrderInv'
<1>1. SUFFICES ASSUME NEW p \in Queries
               PROVE  InOrder(p)'
  BY DEF OrderInv
<1>2. InOrder(p)
  BY DEF OrderInv
<1>3. CASE UNCHANGED vars
  BY <1>2, <1>3, OwnKeepsOrder DEF vars, Own, cursorVars, feedVars, docVars
<1>4. ASSUME NEW q \in Queries \ {p},
             Feeder(q) \/ Answer(q) \/ Writer(q) \/ Memory(q) \/ User(q)
      PROVE  InOrder(p)'
  BY <1>2, <1>4, OthersStand, OwnKeepsOrder
<1>5. CASE Memory(p) \/ User(p)
  BY <1>2, <1>5, OwnKeepsOrder DEF Memory, DropLease, Released, User, GetRows, Stop, DropStore,
     Own, cursorVars, feedVars, docVars
<1>6. CASE Feeder(p) \/ Answer(p) \/ Writer(p)
  BY <1>2, <1>6, FeederOrder, AnswerOrder, WriterOrder
<1> QED
  BY <1>3, <1>4, <1>5, <1>6 DEF Next

LEMMA OrderKept == Spec => []OrderInv
<1>1. Init => OrderInv
  BY DEF Init, OrderInv, InOrder, ChunksInOrder, WriterInOrder, ChannelInOrder, FeederInOrder,
         Edge, Carrying
<1>2. TypeOK /\ OrderInv /\ [Next]_vars => OrderInv'
  BY OrderStep
<1> QED
  BY TypeCorrect, <1>1, <1>2, PTL DEF Spec

\* What is published is a prefix of the source in its order, whatever is
\* parked, resumed, spilled, cut at the cap or cancelled.
THEOREM RowsInOrder == Spec => []PublishedInOrder
<1>1. TypeOK /\ OrderInv => PublishedInOrder
  <2>1. SUFFICES ASSUME TypeOK, OrderInv, NEW q \in Queries
                 PROVE  /\ \A i \in DOMAIN chunks[q] :
                             /\ chunks[q][i].first_row = chunks[q][i].at
                             /\ i > 1 => chunks[q][i].at =
                                           chunks[q][i - 1].at + chunks[q][i - 1].rows
                        /\ chunks[q] # <<>> =>
                             LET last == chunks[q][Len(chunks[q])]
                             IN  rows[q] = last.at + last.rows
    BY DEF PublishedInOrder
  <2>2. chunks[q] \in Seq(Chunk)
    BY <2>1, Domains
  <2>3. DOMAIN chunks[q] = 1 .. Len(chunks[q]) /\ (chunks[q] # <<>> => Len(chunks[q]) > 0)
    BY <2>2
  <2> QED
    BY <2>1, <2>3 DEF OrderInv, InOrder, ChunksInOrder
<1> QED
  BY TypeCorrect, OrderKept, <1>1, PTL
-----------------------------------------------------------------------------
(* Sums.  The library's induction theorems speak of a property; here a set   *)
(* of sets stands for it, and well-foundedness for the induction.            *)

LEMMA LessIsARelation == OpToRel(<, Nat) = {p \in Nat \X Nat : p[1] < p[2]}
BY DEF OpToRel

LEMMA LeastElement == ASSUME NEW S, S \subseteq Nat, S # {} PROVE \E m \in S : \A k \in S : m <= k
<1>1. PICK m \in S : \A k \in S : ~(<<k, m>> \in OpToRel(<, Nat))
  BY WFMin, NatLessThanWellFounded
<1>2. PICK R : R = OpToRel(<, Nat)
  OBVIOUS
<1>3. \A j, k \in Nat : j < k => <<j, k>> \in R
  BY <1>2, LessIsARelation
<1>4. \A k \in S : ~(k < m)
  BY <1>1, <1>2, <1>3
<1> QED BY <1>4

\* Induction over the subsets of a finite set, for a set of them instead of a property.
LEMMA SubsetInduction ==
    ASSUME NEW S, IsFiniteSet(S), NEW G,
           \A T \in SUBSET S : (\A x \in T : T \ {x} \in G) => T \in G
    PROVE  \A T \in SUBSET S : T \in G
<1> SUFFICES ASSUME NEW A \in SUBSET S, A \notin G PROVE FALSE
  OBVIOUS
<1> DEFINE bad == {n \in Nat : \E T \in SUBSET S : T \notin G /\ Cardinality(T) = n}
<1>1. \A T \in SUBSET S : IsFiniteSet(T) /\ Cardinality(T) \in Nat
  BY FS_Subset, FS_CardinalityType
<1>2. Cardinality(A) \in bad
  BY <1>1
<1>3. PICK m \in bad : \A k \in bad : m <= k
  BY <1>2, LeastElement
<1>4. PICK T \in SUBSET S : T \notin G /\ Cardinality(T) = m
  BY <1>3
<1>5. PICK x \in T : T \ {x} \notin G
  BY <1>4
<1>6. Cardinality(T \ {x}) = Cardinality(T) - 1
  BY <1>1, <1>5, FS_RemoveElement
<1>7. Cardinality(T \ {x}) \in bad /\ Cardinality(T) \in Nat
  BY <1>1, <1>5
<1> HIDE DEF bad
<1>8. m <= Cardinality(T \ {x})
  BY <1>3, <1>7
<1> QED BY <1>4, <1>6, <1>7, <1>8


\* The element a fold takes next.
Pick(s) == CHOOSE x \in s : TRUE

\* g adds the values of f up, as SumFunctionOnSet does.
Adds(g, f, S) ==
    \A s \in SUBSET S : g[s] = IF s = {} THEN 0 ELSE f[Pick(s)] + g[s \ {Pick(s)}]

\* A sum is what such a function says of the whole set: there is one, built for ever larger sets.
LEMMA SumAdds ==
    ASSUME NEW f, NEW S, IsFiniteSet(S)
    PROVE  \E g : Adds(g, f, S) /\ SumFunctionOnSet(f, S) = g[S]
<1> DEFINE F(g) == [s \in SUBSET S |-> IF s = {} THEN 0 ELSE f[Pick(s)] + g[s \ {Pick(s)}]]
           Upto(g, n) == \A s \in SUBSET S : Cardinality(s) <= n => g[s] = F(g)[s]
           good == {n \in Nat : \E g : Upto(g, n)}
<1>1. \A T \in SUBSET S : IsFiniteSet(T) /\ Cardinality(T) \in Nat /\ (Cardinality(T) = 0 <=> T = {})
  BY FS_Subset, FS_CardinalityType, FS_EmptySet
<1>2. \A T \in SUBSET S : T # {} => Pick(T) \in T /\ T \ {Pick(T)} \in SUBSET S /\ Cardinality(T \ {Pick(T)}) = Cardinality(T) - 1
  BY <1>1, FS_RemoveElement DEF Pick
<1>3. 0 \in good
  <2> DEFINE z == [s \in SUBSET S |-> 0]
  <2>1. Upto(z, 0)
    BY <1>1
  <2> QED BY <2>1
<1>4. ASSUME NEW n \in good PROVE n + 1 \in good
  <2>1. PICK g : Upto(g, n)
    OBVIOUS
  <2> DEFINE h == [s \in SUBSET S |-> IF Cardinality(s) <= n THEN g[s] ELSE F(g)[s]]
  <2>2. ASSUME NEW s \in SUBSET S, Cardinality(s) <= n + 1 PROVE h[s] = F(h)[s]
    <3>1. CASE s = {}
      BY <1>1, <2>1, <3>1
    <3>2. CASE s # {}
      <4>1. Cardinality(s \ {Pick(s)}) <= n /\ s \ {Pick(s)} \in SUBSET S
        BY <1>1, <1>2, <2>2, <3>2
      <4>2. h[s \ {Pick(s)}] = g[s \ {Pick(s)}]
        BY <4>1
      <4>3. F(h)[s] = F(g)[s]
        BY <4>2
      <4>4. h[s] = F(g)[s]
        BY <2>1
      <4> QED BY <4>3, <4>4
    <3> QED BY <3>1, <3>2
  <2> HIDE DEF h
  <2>3. \E k : Upto(k, n + 1)
    BY <2>2
  <2> HIDE DEF Upto
  <2> QED BY <2>3
<1>5. \A n \in Nat : n \in good
  <2> SUFFICES ASSUME NEW m \in Nat, m \notin good PROVE FALSE
    OBVIOUS
  <2> DEFINE bad == Nat \ good
  <2>1. PICK k \in bad : \A j \in bad : k <= j
    BY LeastElement
  <2> HIDE DEF good
  <2>2. k # 0 /\ k - 1 \in Nat
    BY <1>3, <2>1
  <2>3. k - 1 \in good
    BY <2>1, <2>2
  <2>4. (k - 1) + 1 \in good
    BY <1>4, <2>3
  <2> QED BY <2>1, <2>2, <2>4
<1>6. PICK g : Upto(g, Cardinality(S))
  BY <1>1, <1>5
<1>7. \A T \in SUBSET S : Cardinality(T) <= Cardinality(S)
  BY FS_Subset
<1>8. \E h : h = F(h)
  <2> DEFINE h == [s \in SUBSET S |-> g[s]]
  <2>1. \A s \in SUBSET S : g[s] = F(g)[s]
    BY <1>6, <1>7
  <2>2. \A s \in SUBSET S : F(g)[s] = F(h)[s]
    BY <1>2
  <2>3. h = F(h)
    BY <2>1, <2>2
  <2> QED BY <2>3
<1> DEFINE i == CHOOSE h : h = F(h)
<1>9. i = F(i)
  BY <1>8
<1>10. SumFunctionOnSet(f, S) = i[S]
  BY DEF SumFunctionOnSet, FoldFunctionOnSet, MapThenFoldSet, Pick
<1>11. Adds(i, f, S)
  <2> HIDE DEF i
  <2> QED BY <1>9 DEF Adds
<1> QED BY <1>10, <1>11

\* Whoever adds the same values up gets the same.
LEMMA AddsAgree ==
    ASSUME NEW S, IsFiniteSet(S), NEW T \in SUBSET S, NEW f, NEW d, NEW g, NEW h,
           Adds(g, f, S), Adds(h, d, T), \A x \in T : f[x] = d[x]
    PROVE  g[T] = h[T]
<1> DEFINE same == {U \in SUBSET T : g[U] = h[U]}
<1>1. IsFiniteSet(T)
  BY FS_Subset
<1>2. ASSUME NEW U \in SUBSET T, \A x \in U : U \ {x} \in same PROVE U \in same
  <2>1. CASE U = {}
    BY <2>1 DEF Adds
  <2>2. CASE U # {}
    <3>1. Pick(U) \in U
      BY <2>2 DEF Pick
    <3>2. g[U \ {Pick(U)}] = h[U \ {Pick(U)}]
      BY <1>2, <3>1
    <3>3. g[U] = f[Pick(U)] + g[U \ {Pick(U)}] /\ h[U] = d[Pick(U)] + h[U \ {Pick(U)}]
      BY <2>2 DEF Adds
    <3> QED BY <3>1, <3>2, <3>3
  <2> QED BY <2>1, <2>2
<1> HIDE DEF same
<1>3. \A U \in SUBSET T : U \in same
  BY <1>1, <1>2, SubsetInduction
<1> QED BY <1>3 DEF same

\* A sum depends on the values that are added up and on nothing else.
LEMMA SumAgrees ==
    ASSUME NEW S, IsFiniteSet(S), NEW f, NEW d, \A x \in S : f[x] = d[x]
    PROVE  SumFunctionOnSet(f, S) = SumFunctionOnSet(d, S)
<1>1. PICK g : Adds(g, f, S) /\ SumFunctionOnSet(f, S) = g[S]
  BY SumAdds
<1>2. PICK h : Adds(h, d, S) /\ SumFunctionOnSet(d, S) = h[S]
  BY SumAdds
<1>3. g[S] = h[S]
  BY <1>1, <1>2, AddsAgree
<1> QED BY <1>1, <1>2, <1>3

\* A sum is what any one of its terms and the sum of the others are.
LEMMA SumSplits ==
    ASSUME NEW S, IsFiniteSet(S), NEW f, \A x \in S : f[x] \in Nat
    PROVE  /\ SumFunctionOnSet(f, S) \in Nat
           /\ S = {} => SumFunctionOnSet(f, S) = 0
           /\ \A x \in S : SumFunctionOnSet(f, S) = f[x] + SumFunctionOnSet(f, S \ {x})
<1>1. PICK g : Adds(g, f, S) /\ SumFunctionOnSet(f, S) = g[S]
  BY SumAdds
<1> DEFINE splits == {T \in SUBSET S :
                       g[T] \in Nat /\ \A x \in T : g[T \ {x}] \in Nat /\ g[T] = f[x] + g[T \ {x}]}
<1>2. ASSUME NEW T \in SUBSET S, \A x \in T : T \ {x} \in splits PROVE T \in splits
  <2>1. CASE T = {}
    <3>1. g[T] = 0
      BY <1>1, <2>1 DEF Adds
    <3> QED BY <2>1, <3>1
  <2>2. CASE T # {}
    <3>1. PICK p : p = Pick(T)
      OBVIOUS
    <3>2. p \in T /\ g[T] = f[p] + g[T \ {p}]
      BY <1>1, <2>2, <3>1 DEF Adds, Pick
    <3>3. \A x \in T : g[T \ {x}] \in Nat /\ \A y \in T \ {x} :
             g[(T \ {x}) \ {y}] \in Nat /\ g[T \ {x}] = f[y] + g[(T \ {x}) \ {y}]
      BY <1>2
    <3> HIDE DEF splits
    <3>4. ASSUME NEW x \in T, x # p PROVE g[T] = f[x] + g[T \ {x}]
      <4>1. /\ g[T \ {p}] = f[x] + g[(T \ {p}) \ {x}]
            /\ g[T \ {x}] = f[p] + g[(T \ {x}) \ {p}]
        BY <3>2, <3>3, <3>4
      <4>2. (T \ {p}) \ {x} = (T \ {x}) \ {p}
        OBVIOUS
      <4>3. g[(T \ {p}) \ {x}] \in Nat
        BY <3>2, <3>3, <3>4
      <4>4. f[x] \in Nat /\ f[p] \in Nat
        BY <3>2
      <4>5. PICK a, b, c \in Nat : a = f[x] /\ b = f[p] /\ c = g[(T \ {p}) \ {x}]
        BY <4>3, <4>4
      <4>6. g[T] = b + (a + c) /\ g[T \ {x}] = b + c
        BY <3>2, <4>1, <4>2, <4>5
      <4>7. b + (a + c) = a + (b + c)
        OBVIOUS
      <4> QED BY <4>5, <4>6, <4>7
    <3>5. g[T] \in Nat
      <4>1. f[p] \in Nat /\ g[T \ {p}] \in Nat
        BY <3>2, <3>3
      <4> QED BY <3>2, <4>1
    <3> QED BY <3>2, <3>3, <3>4, <3>5 DEF splits
  <2> QED BY <2>1, <2>2
<1> HIDE DEF splits
<1>3. \A T \in SUBSET S : T \in splits
  BY <1>2, SubsetInduction
<1>4. ASSUME NEW x \in S PROVE SumFunctionOnSet(f, S \ {x}) = g[S \ {x}]
  <2>1. PICK h : Adds(h, f, S \ {x}) /\ SumFunctionOnSet(f, S \ {x}) = h[S \ {x}]
    BY SumAdds, FS_Subset
  <2>2. g[S \ {x}] = h[S \ {x}]
    BY <1>1, <2>1, AddsAgree
  <2> QED BY <2>1, <2>2
<1>5. S = {} => g[S] = 0
  BY <1>1 DEF Adds
<1> QED BY <1>1, <1>3, <1>4, <1>5 DEF splits
-----------------------------------------------------------------------------
\* A sum moves by as much as the only term that changes.
LEMMA SumMoves ==
    ASSUME NEW S, IsFiniteSet(S), NEW f, NEW d, NEW x \in S,
           \A y \in S : f[y] \in Nat /\ d[y] \in Nat,
           \A y \in S \ {x} : d[y] = f[y]
    PROVE  SumFunctionOnSet(d, S) + f[x] = SumFunctionOnSet(f, S) + d[x]
<1>1. IsFiniteSet(S \ {x})
  BY FS_Subset
<1>2. PICK r : r = SumFunctionOnSet(f, S \ {x})
  OBVIOUS
<1>3. r \in Nat
  BY <1>1, <1>2, SumSplits
<1>4. SumFunctionOnSet(d, S \ {x}) = r
  BY <1>1, <1>2, SumAgrees
<1>5. SumFunctionOnSet(f, S) = f[x] + r
  BY <1>2, SumSplits
<1>6. SumFunctionOnSet(d, S) = d[x] + r
  BY <1>4, SumSplits
<1>7. \A a, b, c \in Nat : (b + c) + a = (a + c) + b
  OBVIOUS
<1> QED BY <1>3, <1>5, <1>6, <1>7

\* Adding zeros up.
LEMMA SumOfNothing ==
    ASSUME NEW S, IsFiniteSet(S), NEW f, \A x \in S : f[x] = 0
    PROVE  SumFunctionOnSet(f, S) = 0
<1> DEFINE none == {T \in SUBSET S : SumFunctionOnSet(f, T) = 0}
<1>1. ASSUME NEW T \in SUBSET S, \A x \in T : T \ {x} \in none PROVE T \in none
  <2>1. IsFiniteSet(T) /\ \A x \in T : f[x] \in Nat
    BY FS_Subset
  <2>2. /\ T = {} => SumFunctionOnSet(f, T) = 0
        /\ \A x \in T : SumFunctionOnSet(f, T) = f[x] + SumFunctionOnSet(f, T \ {x})
    BY <2>1, SumSplits
  <2>3. ASSUME NEW x \in T PROVE SumFunctionOnSet(f, T) = 0
    <3>1. f[x] = 0 /\ SumFunctionOnSet(f, T \ {x}) = 0
      BY <1>1
    <3> QED BY <2>2, <3>1
  <2> QED BY <2>2, <2>3
<1> HIDE DEF none
<1>2. \A T \in SUBSET S : T \in none
  BY <1>1, SubsetInduction
<1> QED BY <1>2 DEF none

-----------------------------------------------------------------------------
\* What a list of chunks keeps in memory, as LeaseCoversResident counts it.
InMemory(c) == {i \in DOMAIN c : ~c[i].spilled}
Weights(c) == [i \in DOMAIN c |-> c[i].rows]
Bytes(c) == SumFunctionOnSet(Weights(c), InMemory(c))

LEMMA BytesType ==
    ASSUME NEW c \in Seq(Chunk)
    PROVE  /\ IsFiniteSet(InMemory(c)) /\ \A i \in InMemory(c) : Weights(c)[i] \in Nat
           /\ Bytes(c) \in Nat
<1>1. Len(c) \in Nat /\ DOMAIN c = 1 .. Len(c)
  OBVIOUS
<1>2. IsFiniteSet(1 .. Len(c)) /\ InMemory(c) \subseteq 1 .. Len(c)
  BY <1>1, FS_Interval DEF InMemory
<1>3. IsFiniteSet(InMemory(c))
  BY <1>2, FS_Subset
<1>4. \A i \in InMemory(c) : Weights(c)[i] \in Nat
  <2>1. \A i \in DOMAIN c : c[i] \in Chunk
    BY <1>1
  <2>2. \A i \in DOMAIN c : c[i].rows \in Nat
    BY <2>1 DEF Chunk
  <2> QED BY <2>2 DEF InMemory, Weights
<1> QED BY <1>3, <1>4, SumSplits DEF Bytes

\* Publishing a chunk adds its bytes ...
LEMMA BytesOfOneMore ==
    ASSUME NEW c \in Seq(Chunk), NEW e \in Chunk, ~e.spilled
    PROVE  Bytes(Append(c, e)) = Bytes(c) + e.rows
<1> DEFINE d == Append(c, e)
           n == Len(c) + 1
<1>1. /\ d \in Seq(Chunk) /\ n \in Nat \ {0} /\ DOMAIN d = 1 .. n /\ DOMAIN c = 1 .. Len(c) /\ n \notin 1 .. Len(c)
      /\ d[n] = e /\ \A i \in 1 .. Len(c) : i \in 1 .. n /\ d[i] = c[i]
      /\ \A i \in 1 .. n : i # n => i \in 1 .. Len(c)
  <2>1. d \in Seq(Chunk) /\ Len(d) = n /\ Len(c) \in Nat
    OBVIOUS
  <2>2. d[n] = e /\ \A i \in 1 .. Len(c) : d[i] = c[i]
    OBVIOUS
  <2> HIDE DEF d
  <2>3. DOMAIN d = 1 .. n /\ DOMAIN c = 1 .. Len(c)
    BY <2>1
  <2> QED BY <2>1, <2>2, <2>3
<1> HIDE DEF d, n
<1>2. n \in InMemory(d) /\ InMemory(d) \ {n} = InMemory(c) /\ Weights(d)[n] = e.rows
  <2>1. n \in DOMAIN d /\ ~d[n].spilled /\ d[n].rows = e.rows
    BY <1>1
  <2>2. \A i \in 1 .. n : i # n => i \in DOMAIN c /\ c[i] = d[i]
    BY <1>1
  <2>3. InMemory(d) \ {n} \subseteq InMemory(c)
    BY <1>1, <2>2 DEF InMemory
  <2>4. InMemory(c) \subseteq InMemory(d) \ {n}
    BY <1>1 DEF InMemory
  <2> QED BY <2>1, <2>3, <2>4 DEF InMemory, Weights
<1>3. \A i \in InMemory(c) : Weights(d)[i] = Weights(c)[i]
  BY <1>1 DEF InMemory, Weights
<1>4. SumFunctionOnSet(Weights(d), InMemory(c)) = Bytes(c)
  BY <1>3, BytesType, SumAgrees DEF Bytes
<1>5. Bytes(d) = Weights(d)[n] + SumFunctionOnSet(Weights(d), InMemory(d) \ {n})
  BY <1>1, <1>2, BytesType, SumSplits DEF Bytes
<1>6. Bytes(c) \in Nat /\ e.rows \in Nat
  BY BytesType DEF Chunk
<1>7. Bytes(d) = e.rows + Bytes(c)
  BY <1>2, <1>4, <1>5
<1> QED BY <1>6, <1>7 DEF d

\* ... and spilling one takes them off.
LEMMA BytesOfOneLess ==
    ASSUME NEW c \in Seq(Chunk), NEW i \in DOMAIN c, ~c[i].spilled
    PROVE  Bytes(c) = c[i].rows + Bytes([c EXCEPT ![i].spilled = TRUE])
<1> DEFINE d == [c EXCEPT ![i].spilled = TRUE]
<1>1. /\ DOMAIN d = DOMAIN c /\ d[i].spilled /\ d[i].rows = c[i].rows
      /\ \A j \in DOMAIN c : j # i => d[j] = c[j]
  <2>1. c[i] \in Chunk
    OBVIOUS
  <2>2. d = [c EXCEPT ![i] = [c[i] EXCEPT !.spilled = TRUE]]
    OBVIOUS
  <2>3. [c[i] EXCEPT !.spilled = TRUE].spilled /\ [c[i] EXCEPT !.spilled = TRUE].rows = c[i].rows
    BY <2>1 DEF Chunk
  <2> QED BY <2>2, <2>3
<1> HIDE DEF d
<1>2. i \in InMemory(c) /\ InMemory(d) = InMemory(c) \ {i} /\ Weights(c)[i] = c[i].rows
  BY <1>1 DEF InMemory, Weights
<1>3. Weights(d) = Weights(c)
  BY <1>1 DEF Weights
<1>4. Bytes(c) = Weights(c)[i] + SumFunctionOnSet(Weights(c), InMemory(c) \ {i})
  BY <1>2, BytesType, SumSplits DEF Bytes
<1> QED BY <1>2, <1>3, <1>4 DEF Bytes, d

-----------------------------------------------------------------------------
(* The budget *)

\* A query's lease covers what it has in memory, and what its chunk on the way to be
\* published takes; bytes that have left the lease are on their way only while the
\* writer stands before its next reservation or eviction, or has gone.
Covered(q) == resident[q] = Bytes(chunks[q])
OnLease(q) == IF spc[q] = "publish" THEN resident[q] + cur[q].rows ELSE resident[q]
Leased(q) ==
    \/ held[q] = OnLease(q) /\ (releasing[q] > 0 => spc[q] \in {"admit", "enforce"})
    \/ ~alive[q] /\ spc[q] = "finished" /\ held[q] = 0
QueryBudget(q) == Covered(q) /\ Leased(q)
Sums == used = SumFunctionOnSet(held, Queries) + SumFunctionOnSet(releasing, Queries)
BudgetInv == (\A q \in Queries : QueryBudget(q)) /\ Sums

\* What BudgetExact says beside the limit.
LEMMA BudgetSays == TypeOK /\ BudgetInv /\ WithinLimit => BudgetExact
<1> SUFFICES ASSUME TypeOK, BudgetInv, WithinLimit PROVE BudgetExact
  OBVIOUS
<1>1. ASSUME NEW q \in Queries
      PROVE  resident[q] + (IF spc[q] = "publish" THEN cur[q].rows ELSE 0) = OnLease(q)
  <2>1. resident[q] \in Nat
    BY DEF TypeOK, DocTypes
  <2> QED BY <2>1 DEF OnLease
<1>2. LeaseCoversResident
  BY <1>1 DEF BudgetInv, QueryBudget, Covered, Leased, LeaseCoversResident, Bytes, Weights, InMemory
<1> QED BY <1>2 DEF BudgetInv, Sums, BudgetExact

LEMMA BudgetInit == Init => BudgetInv
<1> SUFFICES ASSUME Init PROVE BudgetInv
  OBVIOUS
<1>1. \A q \in Queries : held[q] = 0 /\ releasing[q] = 0
  BY DEF Init
<1>2. Sums
  <2>1. SumFunctionOnSet(held, Queries) = 0
    BY <1>1, SumOfNothing
  <2>2. SumFunctionOnSet(releasing, Queries) = 0
    BY <1>1, SumOfNothing
  <2> QED BY <2>1, <2>2 DEF Init, Sums
<1>3. Bytes(<<>>) = 0
  <2>1. InMemory(<<>>) = {}
    BY DEF InMemory
  <2>2. \A f : SumFunctionOnSet(f, {}) = 0
    BY FS_EmptySet, SumOfNothing
  <2> QED BY <2>1, <2>2 DEF Bytes
<1>4. ASSUME NEW q \in Queries PROVE QueryBudget(q)
  BY <1>3 DEF Init, QueryBudget, Covered, Leased, OnLease
<1> QED BY <1>2, <1>4 DEF BudgetInv

\* What the budget looks at, beside Own.
Share(q) == <<resident[q], held[q], releasing[q], alive[q]>>

LEMMA ShareDomains ==
    ASSUME TypeOK
    PROVE  /\ resident \in [Queries -> Nat] /\ held \in [Queries -> Nat]
           /\ releasing \in [Queries -> Nat] /\ alive \in [Queries -> BOOLEAN] /\ used \in Nat
BY DEF TypeOK, DocTypes, MemTypes, UserTypes

LEMMA OthersKeepShares ==
    ASSUME TypeOK, NEW q \in Queries, NEW p \in Queries \ {q},
           Feeder(q) \/ Answer(q) \/ Writer(q) \/ Memory(q) \/ User(q)
    PROVE  UNCHANGED Share(p)
<1> USE ShareDomains DEF Share, docVars, memVars, userVars
<1>1. CASE Feeder(q)
  BY <1>1 DEF Feeder, Top, Gate, Parked, Enable, Reserve, TakeSlot, PullCancelled, Close,
              DropSender
<1>2. CASE Answer(q)
  BY <1>2 DEF Answer, PullRows, PullBlank, PullEnd, PullPanic
<1>3. CASE Receive(q) \/ Admit(q) \/ Wait(q) \/ Conclude(q)
  BY <1>3 DEF Receive, Admit, Wait, Conclude, Finish
<1>4. CASE Spill(q) \/ ParkForBudget(q) \/ Publish(q) \/ Enforce(q) \/ Evict(q)
  BY <1>4 DEF Spill, ParkForBudget, Publish, Enforce, Evict, SpillOldest
<1>5. CASE Memory(q) \/ User(q)
  BY <1>5 DEF Memory, DropLease, Released, User, GetRows, Stop, DropStore
<1> QED
  BY <1>1, <1>2, <1>3, <1>4, <1>5 DEF Writer

LEMMA OthersBudget ==
    ASSUME TypeOK, NEW q \in Queries, NEW p \in Queries \ {q}, QueryBudget(p),
           Feeder(q) \/ Answer(q) \/ Writer(q) \/ Memory(q) \/ User(q)
    PROVE  QueryBudget(p)'
<1>1. UNCHANGED Own(p) /\ UNCHANGED Share(p)
  BY OthersStand, OthersKeepShares
<1>2. Bytes(chunks[p])' = Bytes(chunks[p])
  BY <1>1 DEF Own
<1> QED
  BY <1>1, <1>2 DEF Own, Share, QueryBudget, Covered, Leased, OnLease

\* Steps that touch no memory, unless the writer stands where bytes are on their way.
LEMMA QuietBudget ==
    ASSUME TypeOK, BudgetInv, NEW q \in Queries, UNCHANGED <<used, held, releasing, resident, chunks, alive>>,
           spc[q] \notin {"finished", "publish"}, spc'[q] # "publish",
           releasing[q] = 0 \/ spc[q] \notin {"admit", "enforce"}
    PROVE  QueryBudget(q)' /\ Sums'
<1>1. releasing[q] \in Nat
  BY ShareDomains
<1>2. Covered(q) /\ Leased(q)
  BY DEF BudgetInv, QueryBudget
<1>3. Covered(q)'
  BY <1>2 DEF Covered
<1>4. Leased(q)'
  BY <1>1, <1>2 DEF Leased, OnLease
<1>5. Sums'
  BY DEF BudgetInv, Sums
<1> QED BY <1>3, <1>4, <1>5 DEF QueryBudget

\* The sums follow a lease that grows, or one whose bytes leave it.
LEMMA LeaseSums ==
    ASSUME TypeOK, TypeOK', Sums, NEW q \in Queries, NEW h \in Nat, NEW r \in Nat,
           held' = [held EXCEPT ![q] = h], releasing' = [releasing EXCEPT ![q] = r],
           used' + held[q] + releasing[q] = used + h + r
    PROVE  Sums'
<1>1. /\ \A p \in Queries : held[p] \in Nat /\ held'[p] \in Nat /\ releasing[p] \in Nat /\ releasing'[p] \in Nat
      /\ \A p \in Queries \ {q} : held'[p] = held[p] /\ releasing'[p] = releasing[p]
      /\ held'[q] = h /\ releasing'[q] = r /\ used \in Nat /\ used' \in Nat
  BY ShareDomains DEF TypeOK, MemTypes
<1>2. PICK f, g, k, m : f = held /\ g = held' /\ k = releasing /\ m = releasing'
  OBVIOUS
<1>3. PICK a : a = SumFunctionOnSet(f, Queries)
  OBVIOUS
<1>4. PICK b : b = SumFunctionOnSet(k, Queries)
  OBVIOUS
<1>5. PICK c : c = SumFunctionOnSet(g, Queries)
  OBVIOUS
<1>6. PICK d : d = SumFunctionOnSet(m, Queries)
  OBVIOUS
<1>7. a \in Nat /\ b \in Nat /\ c \in Nat /\ d \in Nat
  BY <1>1, <1>2, <1>3, <1>4, <1>5, <1>6, SumSplits
<1>8. c + f[q] = a + g[q]
  <2>1. \A p \in Queries : f[p] \in Nat /\ g[p] \in Nat
    BY <1>1, <1>2
  <2>2. \A p \in Queries \ {q} : g[p] = f[p]
    BY <1>1, <1>2
  <2> QED BY <1>3, <1>5, <2>1, <2>2, SumMoves
<1>9. d + k[q] = b + m[q]
  <2>1. \A p \in Queries : k[p] \in Nat /\ m[p] \in Nat
    BY <1>1, <1>2
  <2>2. \A p \in Queries \ {q} : m[p] = k[p]
    BY <1>1, <1>2
  <2> QED BY <1>4, <1>6, <2>1, <2>2, SumMoves
<1>10. used = a + b
  BY <1>2, <1>3, <1>4 DEF Sums
<1>11. used' = c + d
  BY <1>1, <1>2, <1>7, <1>8, <1>9, <1>10
<1> QED BY <1>2, <1>5, <1>6, <1>11 DEF Sums

\* A reservation goes to the lease and the budget at once.
LEMMA AdmitBudget ==
    ASSUME TypeOK, TypeOK', BudgetInv, NEW q \in Queries, Admit(q)
    PROVE  QueryBudget(q)' /\ Sums'
<1>0. /\ spc[q] = "admit" /\ releasing[q] = 0 /\ UNCHANGED <<releasing, resident, chunks, alive, cur>>
      /\ spc \in [Queries -> WriterPcs] /\ cur[q].rows \in Nat
  BY Domains DEF Admit, userVars, Batch
<1>1. CASE used + cur[q].rows <= Limit
  <2>1. /\ used' = used + cur[q].rows /\ held' = [held EXCEPT ![q] = @ + cur[q].rows]
        /\ spc' = [spc EXCEPT ![q] = "publish"]
    BY <1>1 DEF Admit, Step
  <2>2. spc'[q] = "publish" /\ held'[q] = held[q] + cur[q].rows
    BY <1>0, <2>1, ShareDomains
  <2>3. Covered(q)' /\ Leased(q)'
    <3>1. Covered(q) /\ held[q] = resident[q]
      BY <1>0 DEF BudgetInv, QueryBudget, Leased, OnLease
    <3>2. Covered(q)'
      BY <1>0, <3>1 DEF Covered
    <3> QED BY <1>0, <2>2, <3>1, <3>2 DEF Leased, OnLease
  <2>4. Sums'
    <3>1. releasing' = [releasing EXCEPT ![q] = 0]
      BY <1>0, ShareDomains
    <3>2. held[q] + cur[q].rows \in Nat /\ used' + held[q] + releasing[q] = used + (held[q] + cur[q].rows) + 0
      BY <1>0, <2>1, ShareDomains
    <3>3. Sums
      BY DEF BudgetInv
    <3> QED BY <2>1, <3>1, <3>2, <3>3, LeaseSums
  <2> QED BY <2>3, <2>4 DEF QueryBudget
<1>2. CASE ~(used + cur[q].rows <= Limit)
  <2>1. spc' = [spc EXCEPT ![q] = "spill"] /\ UNCHANGED <<used, held>>
    BY <1>2 DEF Admit, Step
  <2> QED BY <1>0, <2>1, QuietBudget
<1> QED BY <1>1, <1>2

\* Spilled bytes leave what is resident and the lease; no minimum bites.
LEMMA SpillBudget ==
    ASSUME TypeOK, TypeOK', BudgetInv, NEW q \in Queries, spc[q] \in {"spill", "evict"},
           SpillOldest(q), UNCHANGED <<used, alive>>, spc'[q] \in {"admit", "enforce"}
    PROVE  QueryBudget(q)' /\ Sums'
<1>1. PICK i \in DOMAIN chunks[q] :
        /\ Oldest(q, i) /\ chunks' = [chunks EXCEPT ![q][i].spilled = TRUE]
        /\ resident' = [resident EXCEPT ![q] = Minus(@, chunks[q][i].rows)]
        /\ held' = [held EXCEPT ![q] = Minus(@, chunks[q][i].rows)]
        /\ releasing' = [releasing EXCEPT ![q] = Least(chunks[q][i].rows, held[q])]
  BY DEF SpillOldest
<1>2. PICK b : b = chunks[q][i].rows
  OBVIOUS
<1>3. chunks[q] \in Seq(Chunk) /\ ~chunks[q][i].spilled /\ chunks'[q] = [chunks[q] EXCEPT ![i].spilled = TRUE]
  BY <1>1, Domains DEF Oldest, Spillable
<1>4. b \in Nat
  <2>1. chunks[q][i] \in Chunk
    BY <1>1, <1>3
  <2> QED BY <1>2, <2>1 DEF Chunk
<1>5. PICK r : r = Bytes([chunks[q] EXCEPT ![i].spilled = TRUE])
  OBVIOUS
<1>6. r \in Nat /\ Bytes(chunks[q]) = b + r
  <2>1. chunks'[q] \in Seq(Chunk)
    BY DEF TypeOK, DocTypes
  <2>2. Bytes(chunks[q]) = b + r
    BY <1>1, <1>2, <1>3, <1>5, BytesOfOneLess
  <2> QED BY <1>3, <1>5, <2>1, <2>2, BytesType
<1>7. resident[q] = b + r /\ held[q] = b + r /\ releasing[q] = 0
  BY <1>6, ShareDomains DEF BudgetInv, QueryBudget, Covered, Leased, OnLease
<1>8. Minus(b + r, b) = r /\ Least(b, b + r) = b
  BY <1>4, <1>6 DEF Minus, Least
<1>9. /\ resident'[q] = r /\ held' = [held EXCEPT ![q] = r] /\ releasing' = [releasing EXCEPT ![q] = b] /\ held'[q] = r
  BY <1>1, <1>2, <1>7, <1>8, ShareDomains
<1>10. Covered(q)'
  BY <1>3, <1>5, <1>9 DEF Covered
<1>11. Leased(q)'
  BY <1>9 DEF Leased, OnLease
<1>12. Sums'
  <2>1. used' + held[q] + releasing[q] = used + r + b
    BY <1>4, <1>6, <1>7, ShareDomains
  <2>2. Sums
    BY DEF BudgetInv
  <2> QED BY <1>4, <1>6, <1>9, <2>1, <2>2, LeaseSums
<1> QED BY <1>10, <1>11, <1>12 DEF QueryBudget

\* A chunk that was paid for becomes resident.
LEMMA PublishBudget ==
    ASSUME TypeOK, TypeOK', BudgetInv, NEW q \in Queries, Publish(q)
    PROVE  QueryBudget(q)' /\ Sums'
<1>1. PICK e : e = [first_row |-> rows[q], at |-> cur[q].at, rows |-> cur[q].rows, spilled |-> FALSE]
  OBVIOUS
<1>2. chunks[q] \in Seq(Chunk) /\ e \in Chunk /\ ~e.spilled /\ e.rows = cur[q].rows
  BY <1>1, Domains DEF Chunk, Batch
<1>3. /\ spc[q] = "publish" /\ chunks'[q] = Append(chunks[q], e) /\ resident'[q] = resident[q] + cur[q].rows
      /\ spc'[q] = "enforce" /\ UNCHANGED <<held, releasing, used, alive>>
  BY <1>1, Domains, ShareDomains DEF Publish, Step, memVars, userVars
<1>4. Bytes(Append(chunks[q], e)) = Bytes(chunks[q]) + e.rows
  BY <1>2, BytesOfOneMore
<1>5. Covered(q) /\ held[q] = resident[q] + cur[q].rows
  BY <1>3 DEF BudgetInv, QueryBudget, Leased, OnLease
<1>6. Covered(q)'
  BY <1>2, <1>3, <1>4, <1>5 DEF Covered
<1>7. Leased(q)'
  BY <1>3, <1>5 DEF Leased, OnLease
<1>8. Sums'
  BY <1>3 DEF BudgetInv, Sums
<1> QED BY <1>6, <1>7, <1>8 DEF QueryBudget

LEMMA WriterKeepsBudget ==
    ASSUME TypeOK, TypeOK', BudgetInv, NEW q \in Queries, Writer(q)
    PROVE  QueryBudget(q)' /\ Sums'
<1>0. spc \in [Queries -> WriterPcs]
  BY Domains
<1>1. CASE Receive(q) \/ ParkForBudget(q) \/ Wait(q) \/ Enforce(q) \/ Conclude(q)
  <2>1. /\ UNCHANGED <<used, held, releasing, resident, chunks, alive>>
        /\ spc[q] \in {"recv", "park", "wait", "enforce", "terminal"} /\ (spc[q] = "enforce" => releasing[q] = 0)
        /\ spc'[q] # "publish"
    BY <1>0, <1>1 DEF Receive, ParkForBudget, Wait, Enforce, Conclude, Finish, Step, docVars, memVars, userVars
  <2> QED BY <2>1, QuietBudget
<1>2. CASE Spill(q)
  <2>1. CASE SpillOldest(q) /\ Step(q, "admit")
    BY <1>0, <1>2, <2>1, SpillBudget DEF Spill, Step, userVars
  <2>2. CASE Step(q, "park") /\ UNCHANGED <<chunks, resident, held, releasing>>
    BY <1>0, <1>2, <2>2, QuietBudget DEF Spill, Step, userVars
  <2> QED BY <1>2, <2>1, <2>2 DEF Spill
<1>3. CASE Evict(q)
  <2>1. CASE SpillOldest(q) /\ Step(q, "enforce")
    BY <1>0, <1>3, <2>1, SpillBudget DEF Evict, Step, userVars
  <2>2. CASE Step(q, "recv") /\ UNCHANGED <<chunks, resident, held, releasing>>
    BY <1>0, <1>3, <2>2, QuietBudget DEF Evict, Step, userVars
  <2> QED BY <1>3, <2>1, <2>2 DEF Evict
<1> QED BY <1>1, <1>2, <1>3, AdmitBudget, PublishBudget DEF Writer

\* Memory on its way back: what leaves the lease is on its way, and then off the budget.
LEMMA MemoryBudget ==
    ASSUME TypeOK, TypeOK', BudgetInv, NEW q \in Queries, Memory(q)
    PROVE  QueryBudget(q)' /\ Sums'
<1>0. Covered(q) /\ Leased(q) /\ Sums
  BY DEF BudgetInv, QueryBudget
<1>1. CASE DropLease(q)
  <2>1. /\ spc[q] = "finished" /\ ~alive[q] /\ held[q] > 0 /\ UNCHANGED <<spc, cur, resident, chunks, alive, used>>
        /\ held' = [held EXCEPT ![q] = 0] /\ releasing' = [releasing EXCEPT ![q] = held[q]]
    BY <1>1 DEF DropLease, docVars, userVars
  <2>2. releasing[q] = 0 /\ held'[q] = 0
    BY <1>0, <2>1, ShareDomains DEF Leased
  <2>3. Covered(q)'
    BY <1>0, <2>1 DEF Covered
  <2>4. Leased(q)'
    BY <2>1, <2>2 DEF Leased
  <2>5. used' + held[q] + releasing[q] = used + 0 + held[q] /\ held[q] \in Nat
    BY <2>1, <2>2, ShareDomains
  <2>6. Sums'
    BY <1>0, <2>1, <2>5, LeaseSums
  <2> QED BY <2>3, <2>4, <2>6 DEF QueryBudget
<1>2. CASE Released(q)
  <2>1. /\ releasing[q] > 0 /\ used' = Minus(used, releasing[q]) /\ releasing' = [releasing EXCEPT ![q] = 0]
        /\ UNCHANGED <<spc, cur, resident, chunks, alive, held>>
    BY <1>2 DEF Released, docVars, userVars
  <2>2. releasing'[q] = 0
    BY <2>1, ShareDomains
  <2>3. Covered(q)'
    BY <1>0, <2>1 DEF Covered
  <2>4. Leased(q)'
    BY <1>0, <2>1, <2>2 DEF Leased, OnLease
  <2>5. used >= releasing[q]
    <3>1. PICK a : a = SumFunctionOnSet(held, Queries)
      OBVIOUS
    <3>2. PICK b : b = SumFunctionOnSet(releasing, Queries)
      OBVIOUS
    <3>3. PICK c : c = SumFunctionOnSet(releasing, Queries \ {q})
      OBVIOUS
    <3>4. IsFiniteSet(Queries \ {q})
      BY FS_Subset
    <3>5. a \in Nat /\ b \in Nat /\ c \in Nat /\ b = releasing[q] + c /\ releasing[q] \in Nat
      BY <3>1, <3>2, <3>3, <3>4, ShareDomains, SumSplits
    <3>6. used = a + b
      BY <1>0, <3>1, <3>2 DEF Sums
    <3> QED BY <3>5, <3>6
  <2>6. used' + releasing[q] = used
    BY <2>1, <2>5, ShareDomains DEF Minus
  <2>7. used' + held[q] + releasing[q] = used + held[q] + 0 /\ held[q] \in Nat /\ held' = [held EXCEPT ![q] = held[q]]
    <3>1. used' \in Nat
      BY DEF TypeOK, MemTypes
    <3> QED BY <2>1, <2>6, <3>1, ShareDomains
  <2>8. Sums'
    BY <1>0, <2>1, <2>7, LeaseSums
  <2> QED BY <2>3, <2>4, <2>8 DEF QueryBudget
<1> QED BY <1>1, <1>2 DEF Memory

LEMMA OtherTasksBudget ==
    ASSUME TypeOK, BudgetInv, NEW q \in Queries, Feeder(q) \/ Answer(q) \/ User(q)
    PROVE  QueryBudget(q)' /\ Sums'
<1>1. UNCHANGED <<spc, cur, resident, chunks, held, releasing, used>>
  BY OnlyTheWriter DEF docVars, memVars
<1>2. ~alive[q] => ~alive'[q]
  BY DEF Feeder, Top, Gate, Parked, Enable, Reserve, TakeSlot, PullCancelled, Close, DropSender,
         Answer, PullRows, PullBlank, PullEnd, PullPanic, User, GetRows, Stop, DropStore, userVars
<1>3. Covered(q) /\ Leased(q) /\ Sums
  BY DEF BudgetInv, QueryBudget
<1>4. Covered(q)'
  BY <1>1, <1>3 DEF Covered
<1>5. Leased(q)'
  BY <1>1, <1>2, <1>3 DEF Leased, OnLease
<1>6. Sums'
  BY <1>1, <1>3 DEF Sums
<1> QED BY <1>4, <1>5, <1>6 DEF QueryBudget

LEMMA BudgetStep ==
    ASSUME TypeOK, TypeOK', BudgetInv, [Next]_vars
    PROVE  BudgetInv'
<1>1. CASE UNCHANGED vars
  <2>1. UNCHANGED <<spc, cur, resident, chunks, held, releasing, used, alive>>
    BY <1>1 DEF vars, docVars, memVars, userVars
  <2>2. ASSUME NEW q \in Queries PROVE QueryBudget(q)'
    BY <2>1 DEF BudgetInv, QueryBudget, Covered, Leased, OnLease
  <2>3. Sums'
    BY <2>1 DEF BudgetInv, Sums
  <2> QED BY <2>2, <2>3 DEF BudgetInv
<1>2. CASE Next
  <2>1. PICK q \in Queries : Feeder(q) \/ Answer(q) \/ Writer(q) \/ Memory(q) \/ User(q)
    BY <1>2 DEF Next
  <2>2. QueryBudget(q)' /\ Sums'
    BY <2>1, OtherTasksBudget, WriterKeepsBudget, MemoryBudget
  <2>3. ASSUME NEW p \in Queries, p # q PROVE QueryBudget(p)'
    BY <2>1, <2>3, OthersBudget DEF BudgetInv
  <2> QED BY <2>2, <2>3 DEF BudgetInv
<1> QED BY <1>1, <1>2

\* The budget all results share counts exactly what their leases hold and what is on its
\* way back, a lease covers what its result has in memory, and nothing is over the limit.
THEOREM BudgetIsExact == Spec => []BudgetExact
<1>1. TypeOK /\ BudgetInv /\ TypeOK' /\ [Next]_vars => BudgetInv'
  BY BudgetStep
<1>2. Spec => []BudgetInv
  BY TypeCorrect, BudgetInit, <1>1, PTL DEF Spec
<1> QED
  BY TypeCorrect, <1>2, NeverOverTheLimit, BudgetSays, PTL
-----------------------------------------------------------------------------
(***************************************************************************)
(* The pipeline implements ResultStream, unless a driver panics.           *)
(*                                                                         *)
(* What a step shows or says must be what the stream may do next.  That    *)
(* more is shown only up to the source and the cap follows from the counts *)
(* along the way (Counted); that the last word is true, from what the      *)
(* feeder knew when pull_loop returned (LastWord): the writer concludes    *)
(* when the channel is drained and its sender gone, and by then the        *)
(* published rows are those that were fed.                                 *)
(***************************************************************************)

\* No row is counted twice between the source and the chunks, and none is beyond the cap.
Counted(q) ==
    /\ fed[q] <= pos[q] /\ pos[q] <= source[q] /\ fed[q] <= RowCap
    /\ rows[q] + (IF Carrying(q) THEN cur[q].rows ELSE 0) <= fed[q]
    /\ \A i \in 1 .. Len(chan[q]) : chan[q][i].at + chan[q][i].rows <= fed[q]
    /\ Carrying(q) => cur[q].rows > 0

\* What pull_loop returned is so, and is what the writer will find once the sender is gone.
LastWord(q) ==
    /\ fpc[q] \in {"close", "final", "ended"} =>
          /\ ending[q] = "Done" => (fed[q] = pos[q] /\ pos[q] = source[q]) \/ spc[q] = "finished"
          /\ ending[q] = "Capped" => fed[q] = RowCap
    /\ fpc[q] \in {"final", "ended"} => feedState[q] = ending[q]
    /\ ~txOpen[q] <=> fpc[q] = "ended"
    /\ spc[q] = "terminal" => chan[q] = <<>> /\ ~txOpen[q]
    /\ phase[q] \in Terminal <=> spc[q] = "finished"

EndInv == \A q \in Queries : Counted(q) /\ LastWord(q)

NoPanics == "panic" \notin CursorMay

\* What EndInv looks at beside Own.
Words(q) == <<source[q], ending[q], feedState[q], txOpen[q], phase[q]>>

LEMMA WordDomains ==
    ASSUME TypeOK
    PROVE  /\ source \in [Queries -> 0 .. MaxSource] /\ ending \in [Queries -> Endings]
           /\ feedState \in [Queries -> {"Streaming", "Parked"} \cup Endings]
           /\ txOpen \in [Queries -> BOOLEAN] /\ phase \in [Queries -> Phases]
BY DEF TypeOK, CursorTypes, FeedTypes, DocTypes

LEMMA OwnKeepsEnds ==
    ASSUME NEW q \in Queries, Counted(q), LastWord(q), UNCHANGED Own(q), UNCHANGED Words(q)
    PROVE  Counted(q)' /\ LastWord(q)'
BY DEF Own, Words, Counted, LastWord, Carrying

\* A step of one query leaves the words of all others alone.
LEMMA OthersKeepWords ==
    ASSUME TypeOK, NEW q \in Queries, NEW p \in Queries \ {q},
           Feeder(q) \/ Answer(q) \/ Writer(q) \/ Memory(q) \/ User(q)
    PROVE  UNCHANGED Words(p)
<1> USE WordDomains DEF Words, cursorVars, feedVars, docVars
<1>1. CASE Feeder(q)
  BY <1>1 DEF Feeder, Top, Gate, Parked, Enable, Reserve, TakeSlot, PullCancelled, Close,
              DropSender, Return
<1>2. CASE Answer(q)
  BY <1>2 DEF Answer, PullRows, PullBlank, PullEnd, PullPanic, Return
<1>3. CASE Receive(q) \/ Admit(q) \/ Wait(q) \/ Conclude(q)
  BY <1>3 DEF Receive, Admit, Wait, Conclude, Finish
<1>4. CASE Spill(q) \/ ParkForBudget(q) \/ Publish(q) \/ Enforce(q) \/ Evict(q)
  BY <1>4 DEF Spill, ParkForBudget, Publish, Enforce, Evict
<1>5. CASE Memory(q) \/ User(q)
  BY <1>5 DEF Memory, DropLease, Released, User, GetRows, Stop, DropStore
<1> QED
  BY <1>1, <1>2, <1>3, <1>4, <1>5 DEF Writer
-----------------------------------------------------------------------------
(* The feeder knows why it stops. *)

LEMMA FeederEnds ==
    ASSUME TypeOK, NEW q \in Queries, InOrder(q), Counted(q), LastWord(q), Feeder(q)
    PROVE  Counted(q)' /\ LastWord(q)'
<1>1. UNCHANGED <<source, fed, pos, chan, spc, cur, rows, phase>>
  BY DEF Feeder, Top, Gate, Parked, Enable, Reserve, TakeSlot, PullCancelled, Close,
         DropSender, cursorVars, docVars
<1>2. Counted(q)'
  BY <1>1 DEF Counted, Carrying
<1> USE Domains, WordDomains
<1>3. CASE fpc[q] \in {"top", "reserve", "parked", "pull"} /\ fpc'[q] = "close"
  <2>1. UNCHANGED <<feedState, txOpen>> /\ \E how \in Endings : ending' = [ending EXCEPT ![q] = how]
    BY <1>3 DEF Feeder, Top, Gate, Parked, Enable, Reserve, TakeSlot, PullCancelled, Close,
                DropSender, Goto, Return, Endings
  <2>2. ending'[q] = "Done" => spc[q] = "finished"
    BY <1>3 DEF Feeder, Top, Gate, Parked, Enable, Reserve, TakeSlot, PullCancelled, Close,
                DropSender, Goto, Return
  <2>3. ending'[q] = "Capped" => fed[q] >= RowCap
    BY <1>3 DEF Feeder, Top, Gate, Parked, Enable, Reserve, TakeSlot, PullCancelled, Close,
                DropSender, Goto, Return
  <2>4. fed[q] <= RowCap /\ fed[q] \in Nat
    BY DEF Counted
  <2> QED
    BY <1>1, <1>2, <1>3, <2>1, <2>2, <2>3, <2>4 DEF LastWord
<1>4. CASE fpc[q] = "close"
  <2>1. fpc'[q] = "final" /\ feedState'[q] = ending[q] /\ UNCHANGED <<ending, txOpen>>
    BY <1>4 DEF Feeder, Top, Gate, Parked, Enable, Reserve, TakeSlot, PullCancelled, Close,
                DropSender, Goto
  <2> QED
    BY <1>1, <1>2, <1>4, <2>1 DEF LastWord
<1>5. CASE fpc[q] = "final"
  <2>1. fpc'[q] = "ended" /\ txOpen'[q] = FALSE /\ UNCHANGED <<ending, feedState>>
    BY <1>5 DEF Feeder, Top, Gate, Parked, Enable, Reserve, TakeSlot, PullCancelled, Close,
                DropSender, Goto
  <2> QED
    BY <1>1, <1>2, <1>5, <2>1 DEF LastWord
<1>6. CASE fpc[q] \notin {"close", "final"} /\ fpc'[q] # "close"
  <2>1. /\ fpc'[q] \in {"top", "gate", "parked", "enable", "reserve", "pull"}
        /\ fpc[q] # "ended" /\ UNCHANGED txOpen
    BY <1>6 DEF Feeder, Top, Gate, Parked, Enable, Reserve, TakeSlot, PullCancelled, Close,
                DropSender, Goto, Return
  <2> QED
    BY <1>1, <1>2, <2>1 DEF LastWord
<1>7. fpc'[q] = "close" => fpc[q] \in {"top", "reserve", "parked", "pull"}
  BY DEF Feeder, Top, Gate, Parked, Enable, Reserve, TakeSlot, PullCancelled, Close,
         DropSender, Goto, Return
<1> HIDE Domains, WordDomains
<1>8. CASE fpc'[q] = "close"
  BY <1>3, <1>7, <1>8
<1>9. CASE fpc'[q] # "close"
  BY <1>4, <1>5, <1>6, <1>9
<1> QED
  BY <1>8, <1>9

\* What the channel holds after a batch was sent ends no later than what was fed.
LEMMA SendCounts ==
    ASSUME TypeOK, NEW q \in Queries, NEW b \in Batch, Send(q, b), NEW n \in Nat,
           b.at + b.rows <= n, fed[q] <= n,
           \A i \in 1 .. Len(chan[q]) : chan[q][i].at + chan[q][i].rows <= fed[q]
    PROVE  \A i \in 1 .. Len(chan'[q]) : chan'[q][i].at + chan'[q][i].rows <= n
<1>1. chan[q] \in Seq(Batch) /\ fed[q] \in Nat /\ \A i \in 1 .. Len(chan[q]) : chan[q][i] \in Batch
  BY Domains
<1>2. \A i \in 1 .. Len(chan[q]) : chan[q][i].at + chan[q][i].rows <= n
  <2>1. SUFFICES ASSUME NEW i \in 1 .. Len(chan[q])
                 PROVE  chan[q][i].at + chan[q][i].rows <= n
    OBVIOUS
  <2>2. chan[q][i].at \in Nat /\ chan[q][i].rows \in Nat
    BY <1>1 DEF Batch
  <2>3. chan[q][i].at + chan[q][i].rows <= fed[q]
    OBVIOUS
  <2> QED
    BY <1>1, <2>2, <2>3
<1>3. CASE chan'[q] = chan[q]
  BY <1>2, <1>3
<1>4. CASE chan'[q] = Append(chan[q], b)
  <2>1. /\ Len(chan'[q]) = Len(chan[q]) + 1 /\ Len(chan[q]) \in Nat
        /\ \A i \in 1 .. Len(chan[q]) : chan'[q][i] = chan[q][i]
        /\ chan'[q][Len(chan[q]) + 1] = b
    BY <1>1, <1>4
  <2>2. \A i \in 1 .. Len(chan'[q]) : i \in 1 .. Len(chan[q]) \/ i = Len(chan[q]) + 1
    BY <2>1
  <2> QED
    BY <1>2, <2>1, <2>2
<1> QED
  BY <1>3, <1>4, Domains DEF Send

LEMMA AnswerEnds ==
    ASSUME NoPanics, TypeOK, NEW q \in Queries, InOrder(q), Counted(q), LastWord(q), Answer(q)
    PROVE  Counted(q)' /\ LastWord(q)'
<1>0. /\ fed[q] \in Nat /\ pos[q] \in Nat /\ source[q] \in Nat /\ RowCap \in Nat
      /\ rows[q] \in Nat /\ cur[q].rows \in Nat
  BY Domains, WordDomains DEF Batch
<1>1. /\ UNCHANGED <<source, spc, cur, rows, phase, feedState, txOpen>> /\ fpc[q] = "pull"
      /\ fed[q] = pos[q]
  BY DEF NoPanics, Answer, PullRows, PullBlank, PullEnd, PullPanic, cursorVars, docVars,
         InOrder, FeederInOrder
<1>2. CASE PullRows(q)
  <2>1. PICK n \in BatchRows :
          LET kept == Least(n, Minus(RowCap, fed[q]))
          IN  /\ n <= source[q] - pos[q]
              /\ pos' = [pos EXCEPT ![q] = @ + n]
              /\ fed' = [fed EXCEPT ![q] = @ + kept]
              /\ Send(q, [at |-> pos[q], rows |-> kept])
              /\ IF fed[q] + kept >= RowCap
                   THEN Return(q, "Capped")
                   ELSE Goto(q, "top") /\ UNCHANGED ending
    BY <1>2 DEF PullRows
  <2> DEFINE kept == Least(n, Minus(RowCap, fed[q]))
             b == [at |-> pos[q], rows |-> kept]
  <2>2. n \in Nat
    OBVIOUS
  <2>3. Minus(RowCap, fed[q]) \in Nat /\ fed[q] + Minus(RowCap, fed[q]) <= RowCap
    BY <1>0 DEF Minus, Counted
  <2>4. kept \in Nat /\ kept <= n /\ fed[q] + kept <= RowCap
    <3>1. kept \in Nat /\ kept <= n /\ kept <= Minus(RowCap, fed[q])
      BY <2>2, <2>3 DEF Least
    <3> HIDE DEF kept
    <3> QED
      BY <1>0, <2>3, <3>1
  <2>5. fed'[q] = fed[q] + kept /\ pos'[q] = pos[q] + n
    <3>1. fed' = [fed EXCEPT ![q] = @ + kept] /\ pos' = [pos EXCEPT ![q] = @ + n]
      BY <2>1
    <3> HIDE DEF kept
    <3>2. fed \in [Queries -> Nat] /\ pos \in [Queries -> Nat]
      BY Domains
    <3> QED
      BY <3>1, <3>2
  <2>6. Send(q, b) /\ b \in Batch /\ b.at + b.rows <= fed'[q]
    BY <1>0, <1>1, <2>1, <2>4, <2>5 DEF Batch
  <2> HIDE DEF b, kept
  <2>7. fed'[q] \in Nat /\ fed[q] <= fed'[q] /\ fed'[q] <= pos'[q] /\ pos'[q] <= source[q] /\ fed'[q] <= RowCap
    BY <1>0, <1>1, <2>1, <2>2, <2>4, <2>5
  <2>8. \A i \in 1 .. Len(chan'[q]) : chan'[q][i].at + chan'[q][i].rows <= fed'[q]
    BY <2>6, <2>7, SendCounts DEF Counted
  <2>9. Counted(q)'
    BY <1>0, <1>1, <2>7, <2>8 DEF Counted, Carrying
  <2>10. \/ fpc'[q] = "close" /\ ending'[q] = "Capped" /\ fed'[q] >= RowCap
         \/ fpc'[q] = "top"
    BY <2>1, <2>5, Domains, WordDomains DEF kept, Return, Goto
  <2>11. fed'[q] >= RowCap => fed'[q] = RowCap
    BY <1>0, <2>7
  <2> QED
    BY <1>1, <2>9, <2>10, <2>11 DEF LastWord
<1>3. CASE PullBlank(q)
  <2> DEFINE b == [at |-> pos[q], rows |-> 0]
  <2>1. Send(q, b) /\ UNCHANGED <<fed, pos>> /\ fpc'[q] = "top"
    BY <1>3, Domains DEF PullBlank, Goto
  <2>2. b \in Batch /\ b.at + b.rows <= fed[q]
    BY <1>0, <1>1 DEF Batch
  <2> HIDE DEF b
  <2>3. \A i \in 1 .. Len(chan'[q]) : chan'[q][i].at + chan'[q][i].rows <= fed[q]
    <3>1. /\ \A i \in 1 .. Len(chan[q]) : chan[q][i].at + chan[q][i].rows <= fed[q]
          /\ fed[q] \in Nat /\ fed[q] <= fed[q]
      BY <1>0 DEF Counted
    <3> QED
      BY <2>1, <2>2, <3>1, SendCounts
  <2>4. Counted(q)'
    <3>1. Carrying(q)' <=> Carrying(q)
      BY <1>1 DEF Carrying
    <3> QED
      BY <1>1, <2>1, <2>3, <3>1 DEF Counted
  <2> QED
    BY <1>1, <2>1, <2>4 DEF LastWord
<1>4. CASE PullEnd(q)
  <2>1. UNCHANGED <<fed, pos, chan>> /\ fpc'[q] = "close"
    BY <1>4, Domains DEF PullEnd, cursorVars, Return, Goto
  <2>2. (ending'[q] = "Done" /\ pos[q] = source[q]) \/ ending'[q] \in {"Cancelled", "Failed"}
    BY <1>4, WordDomains DEF PullEnd, Return
  <2> QED
    BY <1>1, <2>1, <2>2 DEF Counted, Carrying, LastWord
<1> QED
  BY <1>2, <1>3, <1>4 DEF Answer, PullPanic, NoPanics
-----------------------------------------------------------------------------
(* The writer comes to the end when the feeder has. *)

LEMMA FinishEnds ==
    ASSUME TypeOK, NEW q \in Queries, Counted(q), LastWord(q), NEW p \in Terminal, Finish(q, p),
           UNCHANGED <<source, fpc, fed, pos, ending, feedState, txOpen>>
    PROVE  Counted(q)' /\ LastWord(q)'
<1>1. /\ spc'[q] = "finished" /\ phase'[q] = p /\ chan'[q] = <<>> /\ UNCHANGED rows
  BY Domains, WordDomains DEF Finish, Step
<1>2. rows[q] \in Nat /\ fed[q] \in Nat /\ cur[q].rows \in Nat
  BY Domains DEF Batch
<1>3. rows[q] <= fed[q]
  BY <1>2 DEF Counted
<1> QED
  BY <1>1, <1>2, <1>3 DEF Counted, Carrying, LastWord

\* Steps that neither take nor publish a batch.
LEMMA QuietWriterEnds ==
    ASSUME TypeOK, NEW q \in Queries, Counted(q), LastWord(q),
           UNCHANGED <<source, fpc, fed, pos, ending, feedState, txOpen, chan, cur, rows>>,
           spc[q] # "finished", spc'[q] \notin {"finished", "terminal"},
           Carrying(q)' <=> Carrying(q), phase'[q] \notin Terminal
    PROVE  Counted(q)' /\ LastWord(q)'
BY DEF Counted, LastWord

LEMMA TakeEnds ==
    ASSUME TypeOK, NEW q \in Queries, InOrder(q), Counted(q), LastWord(q), spc[q] = "recv", chan[q] # <<>>,
           chan' = [chan EXCEPT ![q] = Tail(@)],
           IF Head(chan[q]).rows > 0
             THEN cur' = [cur EXCEPT ![q] = Head(chan[q])] /\ Step(q, "admit")
             ELSE UNCHANGED <<cur, spc>>,
           UNCHANGED <<source, fpc, fed, pos, ending, feedState, txOpen, rows, phase>>
    PROVE  Counted(q)' /\ LastWord(q)'
<1>0. /\ chan[q] \in Seq(Batch) /\ Len(chan[q]) \in Nat \ {0} /\ rows[q] \in Nat /\ fed[q] \in Nat
      /\ Head(chan[q]) = chan[q][1] /\ chan[q][1] \in Batch /\ 1 \in 1 .. Len(chan[q])
  BY Domains
<1>1. chan[q][1].at = rows[q]
  <2>1. chan[q][1].at = Edge(q, 0)
    BY <1>0 DEF InOrder, ChannelInOrder
  <2> QED
    BY <2>1 DEF Edge, Carrying
<1>2. rows[q] + chan[q][1].rows <= fed[q] /\ rows[q] <= fed[q]
  BY <1>0, <1>1 DEF Counted, Batch
<1>3. chan'[q] = Tail(chan[q])
  BY Domains
<1>4. \A i \in 1 .. Len(chan'[q]) : chan'[q][i].at + chan'[q][i].rows <= fed[q]
  <2>1. /\ Len(Tail(chan[q])) = Len(chan[q]) - 1
        /\ \A i \in 1 .. Len(Tail(chan[q])) : Tail(chan[q])[i] = chan[q][i + 1]
    BY <1>0, HeadTailProperties
  <2>2. Len(chan'[q]) = Len(chan[q]) - 1
    BY <1>3, <2>1
  <2>4. \A i \in 1 .. Len(chan'[q]) : i + 1 \in 1 .. Len(chan[q])
    BY <1>0, <2>2
  <2>3. \A i \in 1 .. Len(chan[q]) : chan[q][i].at + chan[q][i].rows <= fed[q]
    BY DEF Counted
  <2> QED
    BY <1>3, <2>1, <2>2, <2>3, <2>4
<1>5. CASE Head(chan[q]).rows > 0
  <2>1. cur'[q] = chan[q][1] /\ spc'[q] = "admit"
    BY <1>0, <1>5, Domains DEF Step
  <2> QED
    BY <1>0, <1>2, <1>4, <1>5, <2>1 DEF Counted, Carrying, LastWord
<1>6. CASE ~(Head(chan[q]).rows > 0)
  <2>1. spc'[q] = "recv"
    BY <1>6
  <2> QED
    BY <1>2, <1>4, <2>1 DEF Counted, Carrying, LastWord
<1> QED
  BY <1>5, <1>6

LEMMA PublishEnds ==
    ASSUME TypeOK, NEW q \in Queries, Counted(q), LastWord(q), Publish(q)
    PROVE  Counted(q)' /\ LastWord(q)'
<1>1. spc[q] = "publish" /\ spc'[q] = "enforce" /\ rows'[q] = rows[q] + cur[q].rows
  BY Domains DEF Publish, Step
<1>2. phase'[q] \notin Terminal
  BY <1>1, WordDomains DEF Publish, IsTerminal, LastWord, Terminal
<1>3. UNCHANGED <<source, fpc, fed, pos, ending, feedState, txOpen, chan>>
  BY DEF Publish, cursorVars, feedVars
<1>4. rows[q] \in Nat /\ cur[q].rows \in Nat
  BY Domains DEF Batch
<1>5. rows'[q] <= fed[q]
  BY <1>1, <1>4 DEF Counted, Carrying
<1> QED
  BY <1>1, <1>2, <1>3, <1>4, <1>5 DEF Counted, Carrying, LastWord

LEMMA WriterEnds ==
    ASSUME TypeOK, NEW q \in Queries, InOrder(q), Counted(q), LastWord(q), Writer(q)
    PROVE  Counted(q)' /\ LastWord(q)'
<1>0. UNCHANGED <<source, fpc, fed, pos, ending, feedState, txOpen>>
  BY DEF Writer, Receive, Admit, Spill, ParkForBudget, Wait, Publish, Enforce, Evict, Conclude,
         cursorVars, feedVars
<1>1. CASE Receive(q)
  <2>1. CASE Finish(q, "Cancelled")
    BY <1>0, <2>1, FinishEnds DEF Terminal
  <2>2. CASE /\ chan[q] # <<>>
             /\ chan' = [chan EXCEPT ![q] = Tail(@)]
             /\ IF Head(chan[q]).rows > 0
                  THEN cur' = [cur EXCEPT ![q] = Head(chan[q])] /\ Step(q, "admit")
                  ELSE UNCHANGED <<cur, spc>>
             /\ UNCHANGED docVars
    <3>1. spc[q] = "recv" /\ UNCHANGED <<rows, phase>>
      BY <1>1, <2>2 DEF Receive, docVars
    <3> QED
      BY <1>0, <2>2, <3>1, TakeEnds
  <2>3. CASE chan[q] = <<>> /\ ~txOpen[q] /\ Step(q, "terminal") /\ UNCHANGED <<chan, cur, docVars>>
    <3>1. spc[q] = "recv" /\ spc'[q] = "terminal" /\ UNCHANGED <<rows, phase>>
      BY <1>1, <2>3, Domains DEF Receive, Step, docVars
    <3> QED
      BY <1>0, <2>3, <3>1 DEF Counted, LastWord, Carrying
  <2> QED
    BY <1>1, <2>1, <2>2, <2>3 DEF Receive
<1>2. CASE Admit(q) \/ ParkForBudget(q) \/ Enforce(q)
  <2>1. UNCHANGED <<chan, cur, rows>>
    BY <1>2 DEF Admit, ParkForBudget, Enforce, docVars
  <2>2. spc[q] # "finished" /\ spc'[q] \notin {"finished", "terminal"} /\ (Carrying(q)' <=> Carrying(q))
    BY <1>2, Domains DEF Admit, ParkForBudget, Enforce, Step, Carrying
  <2>3. phase'[q] \notin Terminal
    BY <1>2, <2>2, WordDomains DEF Admit, ParkForBudget, Enforce, docVars, LastWord, Terminal
  <2> QED
    BY <1>0, <2>1, <2>2, <2>3, QuietWriterEnds
<1>3. CASE Spill(q) \/ Evict(q)
  <2>1. UNCHANGED <<chan, cur, rows>>
    BY <1>3 DEF Spill, Evict
  <2>2. spc[q] # "finished" /\ spc'[q] \notin {"finished", "terminal"} /\ (Carrying(q)' <=> Carrying(q))
    BY <1>3, Domains DEF Spill, Evict, Step, Carrying
  <2>3. phase'[q] \notin Terminal
    BY <1>3, <2>2, WordDomains DEF Spill, Evict, LastWord, Terminal, IsTerminal
  <2> QED
    BY <1>0, <2>1, <2>2, <2>3, QuietWriterEnds
<1>4. CASE Wait(q)
  <2>1. CASE Finish(q, "Cancelled")
    BY <1>0, <2>1, FinishEnds DEF Terminal
  <2>2. CASE Step(q, "admit") /\ UNCHANGED <<chan, cur, docVars>>
    <3>1. spc[q] = "wait" /\ spc'[q] = "admit" /\ UNCHANGED <<rows, phase>>
      BY <1>4, <2>2, Domains DEF Wait, Step, docVars
    <3>2. phase'[q] \notin Terminal /\ (Carrying(q)' <=> Carrying(q))
      BY <3>1 DEF LastWord, Carrying
    <3> QED
      BY <1>0, <2>2, <3>1, <3>2, QuietWriterEnds
  <2> QED
    BY <1>4, <2>1, <2>2 DEF Wait
<1>5. CASE Publish(q)
  BY <1>5, PublishEnds
<1>6. CASE Conclude(q)
  <2>1. PICK p \in Terminal : Finish(q, p)
    BY <1>6 DEF Conclude, Terminal
  <2> QED
    BY <1>0, <2>1, FinishEnds
<1> QED
  BY <1>1, <1>2, <1>3, <1>4, <1>5, <1>6 DEF Writer

LEMMA EndStep ==
    ASSUME NoPanics, TypeOK, OrderInv, EndInv, [Next]_vars
    PROVE  EndInv'
<1>1. SUFFICES ASSUME NEW p \in Queries
               PROVE  Counted(p)' /\ LastWord(p)'
  BY DEF EndInv
<1>2. InOrder(p) /\ Counted(p) /\ LastWord(p)
  BY DEF OrderInv, EndInv
<1>3. CASE UNCHANGED vars
  BY <1>2, <1>3, OwnKeepsEnds DEF vars, Own, Words, cursorVars, feedVars, docVars
<1>4. ASSUME NEW q \in Queries \ {p},
             Feeder(q) \/ Answer(q) \/ Writer(q) \/ Memory(q) \/ User(q)
      PROVE  Counted(p)' /\ LastWord(p)'
  BY <1>2, <1>4, OthersStand, OthersKeepWords, OwnKeepsEnds
<1>5. CASE Memory(p) \/ User(p)
  BY <1>2, <1>5, OwnKeepsEnds DEF Memory, DropLease, Released, User, GetRows, Stop, DropStore,
     Own, Words, cursorVars, feedVars, docVars
<1>6. CASE Feeder(p) \/ Answer(p) \/ Writer(p)
  BY <1>2, <1>6, FeederEnds, AnswerEnds, WriterEnds
<1> QED
  BY <1>3, <1>4, <1>5, <1>6 DEF Next
-----------------------------------------------------------------------------
(* What a watcher sees of a step. *)

Seen(p) == IF p \in {"ParkedBudget", "ParkedHot"} THEN "Parked" ELSE p

StreamMove == [Stream!StreamNext]_(Stream!streamVars)

LEMMA SeenByWatcher ==
    ASSUME TypeOK, NEW q \in Queries
    PROVE  /\ SeenPhase[q] = Seen(phase[q])
           /\ phase[q] \notin Terminal <=> SeenPhase[q] \in Stream!Open
           /\ Feeding[q] <=> fpc[q] \notin {"final", "ended"}
           /\ UNCHANGED phase => UNCHANGED SeenPhase
           /\ \A p : phase' = [phase EXCEPT ![q] = p] =>
                        SeenPhase' = [SeenPhase EXCEPT ![q] = Seen(p)]
<1>1. phase[q] \in Phases /\ phase \in [Queries -> Phases]
  BY WordDomains
<1>2. SeenPhase[q] = Seen(phase[q]) /\ (Feeding[q] <=> fpc[q] \notin {"final", "ended"})
  BY DEF SeenPhase, Seen, Feeding
<1>3. phase[q] \notin Terminal <=> SeenPhase[q] \in Stream!Open
  BY <1>1, <1>2 DEF Seen, Terminal, Phases, Stream!Open
<1>4. UNCHANGED phase => UNCHANGED SeenPhase
  BY DEF SeenPhase
<1>5. ASSUME NEW p, phase' = [phase EXCEPT ![q] = p]
      PROVE  SeenPhase' = [SeenPhase EXCEPT ![q] = Seen(p)]
  BY <1>1, <1>5 DEF SeenPhase, Seen
<1> QED
  BY <1>2, <1>3, <1>4, <1>5

\* A step that changes nothing a watcher sees.
LEMMA NothingSeen ==
    ASSUME UNCHANGED <<source, rows, phase, cancelled, Feeding>>
    PROVE  StreamMove
BY DEF StreamMove, SeenPhase, Stream!streamVars

\* A move between the open phases.
LEMMA OpenPhase ==
    ASSUME TypeOK, NEW q \in Queries, phase[q] \notin Terminal,
           NEW p \in {"Loading", "ParkedBudget", "ParkedHot"}, phase' = [phase EXCEPT ![q] = p],
           UNCHANGED <<source, rows, cancelled, Feeding>>
    PROVE  StreamMove
<1>1. SeenPhase' = [SeenPhase EXCEPT ![q] = Seen(p)] /\ SeenPhase[q] \in Stream!Open
  BY SeenByWatcher
<1>2. Seen(p) \in Stream!Open
  BY DEF Seen, Stream!Open
<1>3. Stream!ParkOrResume(q)
  BY <1>1, <1>2 DEF Stream!ParkOrResume
<1> QED
  BY <1>3 DEF StreamMove, Stream!StreamNext, Stream!StreamStep

\* The last word, where it is true.
LEMMA LastWordSeen ==
    ASSUME TypeOK, NEW q \in Queries, phase[q] \notin Terminal, NEW p \in Terminal,
           phase' = [phase EXCEPT ![q] = p], UNCHANGED <<source, rows, cancelled, Feeding>>,
           p = "Cancelled" => cancelled[q] \/ ~Feeding[q],
           p # "Cancelled" => ~Feeding[q],
           p = "Complete" => rows[q] = source[q],
           p = "Capped" => rows[q] = RowCap
    PROVE  StreamMove
<1>1. SeenPhase' = [SeenPhase EXCEPT ![q] = p] /\ SeenPhase[q] \in Stream!Open
  BY SeenByWatcher DEF Seen, Terminal
<1>2. p \in Stream!Ended
  BY DEF Stream!Ended, Terminal
<1>3. Stream!End(q, p)
  BY <1>1 DEF Stream!End
<1> QED
  BY <1>2, <1>3 DEF StreamMove, Stream!StreamNext, Stream!StreamStep
-----------------------------------------------------------------------------
(* Every step is one of the stream's, or none. *)

LEMMA FeederMoves ==
    ASSUME TypeOK, NEW q \in Queries, Feeder(q)
    PROVE  StreamMove
<1>1. UNCHANGED <<source, rows, phase, cancelled>>
  BY DEF Feeder, Top, Gate, Parked, Enable, Reserve, TakeSlot, PullCancelled, Close,
         DropSender, cursorVars, docVars, userVars
<1>2. CASE Close(q)
  <2>1. /\ Feeding[q] /\ Feeding' = [Feeding EXCEPT ![q] = FALSE]
    BY <1>2, Domains DEF Close, Goto, Feeding
  <2>2. Stream!LetGo(q)
    BY <1>1, <2>1 DEF Stream!LetGo, SeenPhase
  <2> QED
    BY <2>2 DEF StreamMove, Stream!StreamNext, Stream!StreamStep
<1>3. CASE DropSender(q)
  <2>1. UNCHANGED Feeding
    BY <1>3, Domains DEF DropSender, Goto, Feeding
  <2> QED
    BY <1>1, <2>1, NothingSeen
<1>4. CASE \/ Top(q) \/ Gate(q) \/ Parked(q) \/ Enable(q) \/ Reserve(q)
           \/ TakeSlot(q) \/ PullCancelled(q)
  <2>1. PICK pc \in FeederPcs \ {"final", "ended"} :
          fpc[q] \notin {"final", "ended"} /\ fpc' = [fpc EXCEPT ![q] = pc]
    BY <1>4 DEF Top, Gate, Parked, Enable, Reserve, TakeSlot, PullCancelled, Goto, Return, FeederPcs
  <2>2. UNCHANGED Feeding
    BY <2>1, Domains DEF Feeding
  <2> QED
    BY <1>1, <2>2, NothingSeen
<1> QED
  BY <1>2, <1>3, <1>4 DEF Feeder

LEMMA AnswerMoves ==
    ASSUME NoPanics, TypeOK, NEW q \in Queries, Answer(q)
    PROVE  StreamMove
<1>1. UNCHANGED <<source, rows, phase, cancelled>> /\ fpc[q] = "pull"
  BY DEF Answer, PullRows, PullBlank, PullEnd, PullPanic, cursorVars, docVars, userVars
<1>2. PICK pc \in {"top", "close"} : fpc' = [fpc EXCEPT ![q] = pc]
  BY DEF Answer, PullRows, PullBlank, PullEnd, PullPanic, NoPanics, Goto, Return
<1>3. UNCHANGED Feeding
  BY <1>1, <1>2, Domains DEF Feeding
<1> QED
  BY <1>1, <1>3, NothingSeen

LEMMA UserMoves ==
    ASSUME TypeOK, NEW q \in Queries, User(q)
    PROVE  StreamMove
<1>1. UNCHANGED <<source, rows, phase, Feeding>>
  BY DEF User, GetRows, Stop, DropStore, cursorVars, docVars, feedVars, Feeding
<1>2. CASE cancelled' = [cancelled EXCEPT ![q] = TRUE]
  <2>1. SeenPhase[q] # "None"
    BY SeenByWatcher, WordDomains DEF Seen, Phases, Terminal
  <2>2. Stream!Cancel(q)
    BY <1>1, <1>2, <2>1 DEF Stream!Cancel, SeenPhase
  <2> QED
    BY <2>2 DEF StreamMove, Stream!StreamNext, Stream!StreamStep
<1>3. CASE UNCHANGED cancelled
  BY <1>1, <1>3, NothingSeen
<1> QED
  BY <1>2, <1>3 DEF User, GetRows, Stop, DropStore, userVars

LEMMA PublishMoves ==
    ASSUME TypeOK, NEW q \in Queries, Counted(q), LastWord(q), Publish(q)
    PROVE  StreamMove
<1>1. spc[q] = "publish" /\ phase[q] \notin Terminal
  BY DEF Publish, LastWord
<1>2. UNCHANGED <<source, cancelled, Feeding>>
  BY DEF Publish, cursorVars, userVars, feedVars, Feeding
<1>3. /\ source[q] \in Nat /\ rows[q] \in Nat /\ cur[q].rows \in Nat /\ cur[q].rows > 0
      /\ fed[q] \in Nat /\ pos[q] \in Nat
  BY <1>1, Domains, WordDomains DEF Counted, Carrying, Batch
<1>4. rows[q] + cur[q].rows \in rows[q] + 1 .. source[q] /\ rows[q] + cur[q].rows <= RowCap
  <2>1. /\ rows[q] + cur[q].rows <= fed[q]
        /\ fed[q] <= pos[q] /\ pos[q] <= source[q] /\ fed[q] <= RowCap
    BY <1>1 DEF Counted, Carrying
  <2> QED
    BY <1>3, <2>1
<1>5. rows' = [rows EXCEPT ![q] = rows[q] + cur[q].rows]
  BY Domains DEF Publish
<1>6. phase' = [phase EXCEPT ![q] = "Loading"]
  BY <1>1, WordDomains DEF Publish, IsTerminal
<1>7. SeenPhase' = [SeenPhase EXCEPT ![q] = "Loading"] /\ SeenPhase[q] \in Stream!Open
  BY <1>1, <1>6, SeenByWatcher DEF Seen
<1>8. Stream!Load(q)
  BY <1>2, <1>4, <1>5, <1>7 DEF Stream!Load
<1> QED
  BY <1>8 DEF StreamMove, Stream!StreamNext, Stream!StreamStep

\* The writer concludes once the feeder is through: what it says is what the feeder found.
LEMMA ConcludeMoves ==
    ASSUME TypeOK, NEW q \in Queries, InOrder(q), Counted(q), LastWord(q), Conclude(q)
    PROVE  StreamMove
<1>1. spc[q] = "terminal" /\ fpc[q] = "ended" /\ chan[q] = <<>>
  BY DEF Conclude, LastWord
<1>2. feedState[q] = ending[q] /\ ending[q] \in Endings
  BY <1>1, WordDomains DEF LastWord
<1>3. UNCHANGED <<source, rows, cancelled, Feeding>> /\ ~Feeding[q]
  BY <1>1 DEF Conclude, Finish, cursorVars, userVars, feedVars, Feeding
<1>4. rows[q] = fed[q]
  <2>1. rows[q] \in Nat /\ fed[q] \in Nat /\ Len(chan[q]) = 0
    BY <1>1, Domains
  <2> QED
    BY <1>1, <2>1 DEF InOrder, ChannelInOrder, Edge, Carrying
<1>5. CASE ending[q] = "Done"
  <2>1. phase' = [phase EXCEPT ![q] = "Complete"]
    BY <1>2, <1>5 DEF Conclude, Finish
  <2>2. rows[q] = source[q]
    BY <1>1, <1>4, <1>5 DEF LastWord
  <2> QED
    BY <1>1, <1>3, <2>1, <2>2, LastWordSeen DEF Terminal, LastWord
<1>6. CASE ending[q] # "Done"
  <2>1. phase' = [phase EXCEPT ![q] = ending[q]] /\ ending[q] \in {"Capped", "Cancelled", "Failed"}
    BY <1>2, <1>6 DEF Conclude, Finish, Endings
  <2>2. ending[q] = "Capped" => rows[q] = RowCap
    BY <1>1, <1>4 DEF LastWord
  <2> QED
    BY <1>1, <1>3, <2>1, <2>2, LastWordSeen DEF Terminal, LastWord
<1> QED
  BY <1>5, <1>6

LEMMA WriterMoves ==
    ASSUME TypeOK, NEW q \in Queries, InOrder(q), Counted(q), LastWord(q), Writer(q)
    PROVE  StreamMove
<1>0. UNCHANGED <<source, cancelled, Feeding>>
  BY DEF Writer, Receive, Admit, Spill, ParkForBudget, Wait, Publish, Enforce, Evict, Conclude,
         cursorVars, feedVars, userVars, Feeding
<1>1. CASE Receive(q) \/ Wait(q)
  <2>1. CASE cancelled[q] /\ Finish(q, "Cancelled")
    <3>1. phase[q] \notin Terminal
      BY <1>1 DEF Receive, Wait, LastWord
    <3> QED
      BY <1>0, <2>1, <3>1, LastWordSeen DEF Finish, Terminal
  <2>2. CASE UNCHANGED <<rows, phase>>
    BY <1>0, <2>2, NothingSeen
  <2> QED
    BY <1>1, <2>1, <2>2 DEF Receive, Wait, docVars
<1>2. CASE Spill(q) \/ Enforce(q)
  BY <1>0, <1>2, NothingSeen DEF Spill, Enforce, docVars
<1>3. CASE Admit(q) \/ ParkForBudget(q) \/ Evict(q)
  <2>1. phase[q] \in {"Loading", "ParkedBudget", "ParkedHot"} /\ UNCHANGED rows
    BY <1>3, WordDomains DEF Admit, ParkForBudget, Evict, LastWord, Phases
  <2>2. \E p \in {"Loading", "ParkedBudget", "ParkedHot"} : phase' = [phase EXCEPT ![q] = p]
    <3>1. phase = [phase EXCEPT ![q] = phase[q]]
      BY WordDomains
    <3> QED
      BY <1>3, <2>1, <3>1 DEF Admit, ParkForBudget, Evict, IsTerminal
  <2> QED
    BY <1>0, <2>1, <2>2, OpenPhase DEF Terminal
<1>4. CASE Publish(q)
  BY <1>4, PublishMoves
<1>5. CASE Conclude(q)
  BY <1>5, ConcludeMoves
<1> QED
  BY <1>1, <1>2, <1>3, <1>4, <1>5 DEF Writer

LEMMA StepMoves ==
    ASSUME NoPanics, TypeOK, OrderInv, EndInv, [Next]_vars
    PROVE  StreamMove
<1>1. CASE UNCHANGED vars
  BY <1>1, NothingSeen DEF vars, cursorVars, docVars, userVars, feedVars, Feeding
<1>2. ASSUME NEW q \in Queries,
             Feeder(q) \/ Answer(q) \/ Writer(q) \/ Memory(q) \/ User(q)
      PROVE  StreamMove
  <2>1. InOrder(q) /\ Counted(q) /\ LastWord(q)
    BY DEF OrderInv, EndInv
  <2>2. CASE Memory(q)
    BY <2>2, NothingSeen DEF Memory, DropLease, Released, cursorVars, docVars, userVars,
       feedVars, Feeding
  <2> QED
    BY <1>2, <2>1, <2>2, FeederMoves, AnswerMoves, WriterMoves, UserMoves
<1> QED
  BY <1>1, <1>2 DEF Next

\* A driver that does not panic is shown to the rest of the program as ResultStream
\* says (ImplementsStream): the rows a reader sees only grow, as far as the source and
\* the cap; the phase ends once; Complete means every row of the source, Capped as many
\* as the cap, and both, like Failed, mean that the connection is free again.
THEOREM PipelineImplementsStream == NoPanics => (Spec => ImplementsStream)
<1> SUFFICES ASSUME NoPanics PROVE Spec => ImplementsStream
  OBVIOUS
<1>1. Init => EndInv
  BY DEF Init, EndInv, Counted, LastWord, Carrying, Terminal
<1>2. Init => Stream!StreamInit
  BY DEF Init, Stream!StreamInit, SeenPhase, Feeding
<1>3. TypeOK /\ OrderInv /\ EndInv /\ [Next]_vars => EndInv'
  BY EndStep
<1>4. TypeOK /\ OrderInv /\ EndInv /\ [Next]_vars => StreamMove
  BY StepMoves
<1> QED
  BY TypeCorrect, OrderKept, <1>1, <1>2, <1>3, <1>4, PTL
     DEF Spec, ImplementsStream, Stream!StreamSpec, StreamMove
=============================================================================
