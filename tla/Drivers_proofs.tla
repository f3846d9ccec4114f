--------------------------- MODULE Drivers_proofs ---------------------------
(***************************************************************************)
(* What is proved of the drivers whose requests change and read data:      *)
(* Elasticsearch, MySQL and SQLite.                                        *)
(***************************************************************************)
EXTENDS EsMutate, EsSearch, MySqlActor, SqliteWorker, SequenceTheorems, FiniteSetTheorems, TLAPS

-----------------------------------------------------------------------------
(***************************************************************************)
(* EsMutate                                                                *)
(*                                                                         *)
(* No edit overwrites what its user has not seen or is carried out twice,  *)
(* and what the user is told of it is so: for any documents, however many  *)
(* requests are sent, lost and late, and however much others write.        *)
(*                                                                         *)
(* The argument.  Sequence numbers only go up, so that a document that has *)
(* been written is never again as it was loaded (OnceOnly).  What is still *)
(* to do about a document stands under the guard of the row that is loaded *)
(* (UnderGuard).  As long as no answer about an edit was lost, the only    *)
(* request that can have it to do is the one the user waits for.           *)
(***************************************************************************)

Ops == {"none", "create", "update", "delete"}
RequestRecord == [op : [Docs -> Ops], guard : [Docs -> Nat], todo : SUBSET Docs,
                  result : [Docs -> Outcomes]]

EditTypes ==
    /\ seqNo \in [Docs -> Nat] /\ loaded \in [Docs -> Nat] /\ fresh \in Nat
    /\ request \in [Attempts -> RequestRecord]
    /\ sent \in 0 .. MaxAttempts /\ waiting \in 0 .. MaxAttempts
    /\ outcome \in [Docs -> Outcomes] /\ applied \in [Docs -> Nat] /\ lost \in [Docs -> BOOLEAN]

SeqNosGoUp == \A d \in Docs : seqNo[d] < fresh /\ loaded[d] < fresh

\* What is still to do was asked for, and stands under the guard of the loaded row.
UnderGuard ==
    \A n \in Attempts : \A d \in request[n].todo :
        n <= sent /\ request[n].op[d] # "none" /\ request[n].guard[d] = loaded[d]

\* An edit that was carried out has left another document than the loaded one.
OnceOnly ==
    \A d \in Docs : loaded[d] # Absent /\ applied[d] # 0 => applied[d] = 1 /\ seqNo[d] # loaded[d]

GuardInv == EditTypes /\ SeqNosGoUp /\ UnderGuard /\ OnceOnly /\ clobbered = FALSE

----------------------------------------------------------------------------
\* What the two answers of the server do to the requests.
ItemDone(n, d, x) ==
    /\ request' \in [Attempts -> RequestRecord]
    /\ \A m \in Attempts :
          /\ request'[m].op = request[m].op /\ request'[m].guard = request[m].guard
          /\ request'[m].todo = IF m = n THEN request[m].todo \ {d} ELSE request[m].todo
          /\ \A e \in Docs : request'[m].result[e] = IF m = n /\ e = d THEN x ELSE request[m].result[e]

LEMMA Carried ==
    ASSUME EditTypes, NEW n \in Attempts, NEW d \in Docs, NEW x \in Outcomes,
           request' = [request EXCEPT ![n].todo = @ \ {d}, ![n].result[d] = x]
    PROVE  ItemDone(n, d, x)
<1> DEFINE r == request[n]
           t == [r EXCEPT !.todo = r.todo \ {d}]
           s == [t EXCEPT !.result[d] = x]
<1>1. r \in RequestRecord
  BY DEF EditTypes
<1>2. t \in RequestRecord /\ t.op = r.op /\ t.guard = r.guard /\ t.todo = r.todo \ {d} /\ t.result = r.result
  BY <1>1 DEF RequestRecord
<1>3. request' = [request EXCEPT ![n] = s]
  <2>1. [request EXCEPT ![n].todo = @ \ {d}, ![n].result[d] = x]
          = [[request EXCEPT ![n].todo = r.todo \ {d}] EXCEPT ![n].result[d] = x]
    BY Zenon
  <2>2. [request EXCEPT ![n].todo = r.todo \ {d}] = [request EXCEPT ![n] = t]
    BY DEF EditTypes
  <2>3. [[request EXCEPT ![n] = t] EXCEPT ![n].result[d] = x] = [request EXCEPT ![n] = s]
    BY DEF EditTypes
  <2> QED BY <2>1, <2>2, <2>3
<1> HIDE DEF t
<1>4. /\ s \in RequestRecord /\ s.op = t.op /\ s.guard = t.guard /\ s.todo = t.todo
      /\ \A e \in Docs : s.result[e] = IF e = d THEN x ELSE t.result[e]
  BY <1>2 DEF RequestRecord
<1> HIDE DEF s
<1>5. \A m \in Attempts : request'[m] = IF m = n THEN s ELSE request[m]
  BY <1>3 DEF EditTypes
<1>6. request' \in [Attempts -> RequestRecord]
  BY <1>3, <1>4 DEF EditTypes
<1>7. ASSUME NEW m \in Attempts
      PROVE  /\ request'[m].op = request[m].op /\ request'[m].guard = request[m].guard
             /\ request'[m].todo = IF m = n THEN r.todo \ {d} ELSE request[m].todo
             /\ \A e \in Docs : request'[m].result[e] = IF m = n /\ e = d THEN x ELSE request[m].result[e]
  <2>1. /\ s.op = r.op /\ s.guard = r.guard /\ s.todo = r.todo \ {d}
        /\ \A e \in Docs : s.result[e] = IF e = d THEN x ELSE r.result[e]
    BY <1>2, <1>4
  <2>2. CASE m # n
    <3>1. request'[m] = request[m]
      BY <1>5, <2>2
    <3>2. \A e \in Docs : request'[m].result[e] = request[m].result[e]
      BY <3>1
    <3>3. /\ request'[m].op = request[m].op /\ request'[m].guard = request[m].guard
          /\ request'[m].todo = request[m].todo
      BY <3>1
    <3> HIDE DEF r
    <3> QED BY <2>2, <3>2, <3>3
  <2>3. CASE m = n
    <3>1. request'[m] = s /\ request[m] = r
      BY <1>5, <2>3
    <3> HIDE DEF r
    <3> QED BY <2>1, <2>3, <3>1
  <2> QED BY <2>2, <2>3
<1> QED BY <1>6, <1>7 DEF ItemDone

\* What the requests are once a batch has been sent.
LEMMA Sent ==
    ASSUME EditTypes, SendBatch
    PROVE  /\ request' \in [Attempts -> RequestRecord] /\ sent + 1 \in Attempts
           /\ \A m \in Attempts : m # sent + 1 => request'[m] = request[m]
           /\ request'[sent + 1].guard = loaded
           /\ request'[sent + 1].todo = {d \in Docs : request'[sent + 1].op[d] # "none"}
           /\ \A d \in Docs : outcome[d] = "applied" => request'[sent + 1].op[d] = "none"
           /\ outcome' = [d \in Docs |-> IF request'[sent + 1].op[d] = "none" THEN outcome[d] ELSE "none"]
<1>1. sent + 1 \in Attempts
  BY MutateBounds DEF SendBatch, EditTypes, Attempts
<1>2. PICK op \in [Docs -> Ops] :
        /\ \A d \in Docs : outcome[d] = "applied" => op[d] = "none"
        /\ request' = [request EXCEPT ![sent + 1] =
               [op |-> op, guard |-> loaded, todo |-> {d \in Docs : op[d] # "none"}, result |-> @.result]]
        /\ outcome' = [d \in Docs |-> IF op[d] = "none" THEN outcome[d] ELSE "none"]
  BY DEF SendBatch, Ops
<1> DEFINE s == [op |-> op, guard |-> loaded, todo |-> {d \in Docs : op[d] # "none"},
                 result |-> request[sent + 1].result]
<1>3. request[sent + 1] \in RequestRecord
  BY <1>1 DEF EditTypes
<1>4. s \in RequestRecord
  BY <1>3 DEF RequestRecord, EditTypes
<1>5. s.op = op /\ s.guard = loaded /\ s.todo = {d \in Docs : op[d] # "none"}
  OBVIOUS
<1>6. request' = [request EXCEPT ![sent + 1] = s]
  BY <1>1, <1>2 DEF EditTypes
<1> HIDE DEF s
<1>7. request'[sent + 1] = s /\ \A m \in Attempts : m # sent + 1 => request'[m] = request[m]
  BY <1>1, <1>6 DEF EditTypes
<1>8. request' \in [Attempts -> RequestRecord]
  BY <1>4, <1>6 DEF EditTypes
<1> QED BY <1>1, <1>2, <1>5, <1>7, <1>8

LEMMA EditTypesHold == ASSUME EditTypes, SeqNosGoUp, MutateNext PROVE EditTypes'
<1>1. CASE SendBatch
  <2>1. waiting' \in 0 .. MaxAttempts /\ sent' \in 0 .. MaxAttempts
    BY <1>1, MutateBounds DEF SendBatch, EditTypes
  <2>2. outcome' \in [Docs -> Outcomes]
    BY <1>1, Sent DEF EditTypes, Outcomes
  <2> QED BY <1>1, <2>1, <2>2, Sent DEF SendBatch, EditTypes
<1>2. ASSUME NEW d \in Docs, Reread(d) PROVE EditTypes'
  BY <1>2 DEF Reread, EditTypes, Outcomes
<1>3. ASSUME NEW d \in Docs, OtherWrites(d) PROVE EditTypes'
  <2>1. seqNo' \in [Docs -> Nat] /\ fresh' \in Nat
    BY <1>3 DEF OtherWrites, EditTypes, Absent
  <2> QED BY <1>3, <2>1 DEF OtherWrites, EditTypes
<1>4. ASSUME NEW n \in Attempts, Report(n) PROVE EditTypes'
  <2>1. request[n].result \in [Docs -> Outcomes]
    BY DEF EditTypes, RequestRecord
  <2>2. outcome' \in [Docs -> Outcomes]
    BY <1>4, <2>1 DEF Report, EditTypes
  <2> QED BY <1>4, <2>2, MutateBounds DEF Report, EditTypes
<1>5. ASSUME NEW n \in Attempts, AnswerIsLost(n) PROVE EditTypes'
  <2>1. outcome' \in [Docs -> Outcomes]
    BY <1>5 DEF AnswerIsLost, EditTypes, Outcomes
  <2>2. lost' \in [Docs -> BOOLEAN]
    BY <1>5 DEF AnswerIsLost, EditTypes
  <2> QED BY <1>5, <2>1, <2>2, MutateBounds DEF AnswerIsLost, EditTypes
<1>6. ASSUME NEW n \in Attempts, NEW d \in Docs, Carry(n, d) PROVE EditTypes'
  <2>1. request' \in [Attempts -> RequestRecord]
    BY <1>6, Carried DEF Carry, Outcomes, ItemDone
  <2>2. seqNo' \in [Docs -> Nat] /\ fresh' \in Nat /\ applied' \in [Docs -> Nat]
    BY <1>6 DEF Carry, EditTypes, Absent
  <2> QED BY <1>6, <2>1, <2>2 DEF Carry, EditTypes
<1> QED BY <1>1, <1>2, <1>3, <1>4, <1>5, <1>6 DEF MutateNext
----------------------------------------------------------------------------
LEMMA GuardInit == MutateInit => GuardInv
<1> SUFFICES ASSUME MutateInit PROVE GuardInv
  OBVIOUS
<1>1. NoRequest \in RequestRecord
  BY DEF NoRequest, RequestRecord, Ops, Outcomes, Absent
<1>2. EditTypes
  BY <1>1, MutateBounds DEF MutateInit, EditTypes, Outcomes, Absent
<1>3. UnderGuard
  BY DEF MutateInit, UnderGuard, NoRequest
<1>4. SeqNosGoUp /\ OnceOnly /\ clobbered = FALSE
  BY DEF MutateInit, SeqNosGoUp, OnceOnly, Absent
<1> QED BY <1>2, <1>3, <1>4 DEF GuardInv

\* The guard is what makes it so.
LEMMA CarryGuards == ASSUME GuardInv, NEW n \in Attempts, NEW d \in Docs, Carry(n, d) PROVE GuardInv'
<1>1. EditTypes /\ EditTypes'
  <2>1. MutateNext
    BY DEF MutateNext
  <2> QED BY <2>1, EditTypesHold DEF GuardInv
<1>2. d \in request[n].todo /\ request[n].guard[d] = loaded[d]
  BY DEF Carry, GuardInv, UnderGuard
<1>3. UnderGuard'
  <2>1. \A m \in Attempts :
          /\ request'[m].op = request[m].op /\ request'[m].guard = request[m].guard
          /\ request'[m].todo \subseteq request[m].todo
    <3>1. PICK x \in Outcomes : request' = [request EXCEPT ![n].todo = @ \ {d}, ![n].result[d] = x]
      BY DEF Carry, Outcomes
    <3>2. ItemDone(n, d, x)
      BY <1>1, <3>1, Carried
    <3> QED BY <3>2 DEF ItemDone
  <2> QED BY <2>1 DEF Carry, GuardInv, UnderGuard
<1>4. CASE UNCHANGED <<seqNo, fresh, applied, clobbered>>
  BY <1>1, <1>3, <1>4 DEF Carry, GuardInv, SeqNosGoUp, OnceOnly
<1>5. CASE /\ Held(n, d)
           /\ seqNo' = [seqNo EXCEPT ![d] = IF request[n].op[d] = "delete" THEN Absent ELSE fresh]
           /\ fresh' = fresh + 1 /\ applied' = [applied EXCEPT ![d] = @ + 1]
           /\ clobbered' = (clobbered \/ seqNo[d] # request[n].guard[d])
  <2>1. seqNo[d] = loaded[d] /\ clobbered' = FALSE /\ loaded' = loaded
    BY <1>2, <1>5 DEF Held, Carry, GuardInv
  <2>2. /\ fresh \in Nat /\ \A c \in Docs : seqNo[c] \in Nat /\ loaded[c] \in Nat /\ applied[c] \in Nat
        /\ \A c \in Docs : seqNo'[c] = IF c # d THEN seqNo[c]
                                        ELSE IF request[n].op[d] = "delete" THEN Absent ELSE fresh
        /\ \A c \in Docs : applied'[c] = IF c = d THEN applied[d] + 1 ELSE applied[c]
    BY <1>1, <1>5 DEF EditTypes
  <2>3. SeqNosGoUp'
    BY <1>5, <2>1, <2>2 DEF GuardInv, SeqNosGoUp, Absent
  <2>4. OnceOnly'
    BY <2>1, <2>2 DEF GuardInv, SeqNosGoUp, OnceOnly, Absent
  <2> QED BY <1>1, <1>3, <2>1, <2>3, <2>4 DEF GuardInv
<1> QED BY <1>4, <1>5 DEF Carry

LEMMA GuardNext == ASSUME GuardInv, MutateNext PROVE GuardInv'
<1>1. EditTypes /\ EditTypes'
  BY EditTypesHold DEF GuardInv
<1>2. CASE SendBatch
  <2>1. UnderGuard'
    <3> SUFFICES ASSUME NEW m \in Attempts, NEW d \in request'[m].todo
                 PROVE m <= sent' /\ request'[m].op[d] # "none" /\ request'[m].guard[d] = loaded'[d]
      BY DEF UnderGuard
    <3>1. sent' = sent + 1 /\ loaded' = loaded /\ sent \in Nat /\ m \in Nat
      BY <1>1, <1>2, MutateBounds DEF SendBatch, EditTypes, Attempts
    <3>2. CASE m = sent + 1
      BY <1>1, <1>2, <3>1, <3>2, Sent
    <3>3. CASE m # sent + 1
      BY <1>1, <1>2, <3>1, <3>3, Sent DEF GuardInv, UnderGuard
    <3> QED BY <3>2, <3>3
  <2> QED BY <1>1, <1>2, <2>1 DEF SendBatch, GuardInv, SeqNosGoUp, OnceOnly
<1>3. ASSUME NEW d \in Docs, Reread(d) PROVE GuardInv'
  <2>1. /\ \A c \in Docs : loaded'[c] = IF c = d THEN seqNo[d] ELSE loaded[c]
        /\ \A c \in Docs : applied'[c] = IF c = d THEN 0 ELSE applied[c]
    BY <1>1, <1>3 DEF Reread, EditTypes
  <2>2. UnderGuard'
    <3> SUFFICES ASSUME NEW m \in Attempts, NEW c \in request[m].todo
                 PROVE m <= sent /\ request[m].op[c] # "none" /\ request[m].guard[c] = loaded'[c]
      BY <1>3 DEF UnderGuard, Reread
    <3>1. m <= sent /\ request[m].op[c] # "none" /\ request[m].guard[c] = loaded[c]
      BY DEF GuardInv, UnderGuard
    <3>2. m \in 1 .. sent /\ c \in Docs
      <4>1. request[m] \in RequestRecord
        BY <1>1 DEF EditTypes
      <4>2. c \in Docs
        BY <4>1 DEF RequestRecord
      <4> QED BY <1>1, <3>1, <4>2, MutateBounds DEF Attempts, EditTypes
    <3>3. c # d
      BY <1>3, <3>2 DEF Reread
    <3> QED BY <2>1, <3>1, <3>2, <3>3
  <2> QED BY <1>1, <1>3, <2>1, <2>2 DEF Reread, GuardInv, SeqNosGoUp, OnceOnly
<1>4. ASSUME NEW d \in Docs, OtherWrites(d) PROVE GuardInv'
  <2>1. /\ fresh \in Nat /\ fresh' = fresh + 1
        /\ \A c \in Docs : seqNo[c] \in Nat /\ loaded[c] \in Nat
        /\ \A c \in Docs : seqNo'[c] \in {seqNo[c], fresh, Absent}
        /\ \A c \in Docs : c # d => seqNo'[c] = seqNo[c]
        /\ seqNo'[d] \in {fresh, Absent}
    BY <1>1, <1>4 DEF OtherWrites, EditTypes
  <2>2. SeqNosGoUp' /\ OnceOnly'
    BY <1>4, <2>1 DEF OtherWrites, GuardInv, SeqNosGoUp, OnceOnly, Absent
  <2> QED BY <1>1, <1>4, <2>2 DEF OtherWrites, GuardInv, UnderGuard
<1>5. ASSUME NEW n \in Attempts, Report(n) \/ AnswerIsLost(n) PROVE GuardInv'
  BY <1>1, <1>5 DEF Report, AnswerIsLost, GuardInv, SeqNosGoUp, UnderGuard, OnceOnly
<1> QED BY <1>2, <1>3, <1>4, <1>5, CarryGuards DEF MutateNext

\* A write never replaces what its user has not seen, and an edit of a loaded row is
\* carried out once (mutate.rs:792).
THEOREM NoClobber == MutateSpec => []GuardHolds
<1>1. ASSUME GuardInv PROVE GuardHolds
  BY <1>1 DEF GuardInv, GuardHolds, OnceOnly, EditTypes
<1>2. ASSUME GuardInv, UNCHANGED mutateVars PROVE GuardInv'
  BY <1>2 DEF mutateVars, GuardInv, EditTypes, SeqNosGoUp, UnderGuard, OnceOnly
<1> QED BY <1>1, <1>2, GuardInit, GuardNext, PTL DEF MutateSpec
----------------------------------------------------------------------------
\* The user waits to hear of d.
Awaited(d) == waiting # 0 /\ request[waiting].op[d] # "none"
Settled(d) == Awaited(d) /\ d \notin request[waiting].todo
Result(d) == request[waiting].result[d]

\* What the user is told, or is about to be told, of d; and as long as no answer was
\* lost, nobody works on d but for the request the user waits for.
Told(d) ==
    /\ outcome[d] = "applied" => applied[d] # 0
    /\ Awaited(d) => outcome[d] = "none"
    /\ Settled(d) => Result(d) \in {"applied", "failed"} /\ (Result(d) = "applied" => applied[d] # 0)
    /\ ~lost[d] => \A n \in Attempts : d \in request[n].todo => n = waiting
    /\ ~lost[d] /\ (Settled(d) => Result(d) = "failed") /\ outcome[d] # "applied" => applied[d] = 0

TellInv == GuardInv /\ \A d \in Docs : Told(d)

LEMMA TellInit == MutateInit => TellInv
BY GuardInit DEF MutateInit, TellInv, Told, Awaited, Settled, NoRequest

\* A step that leaves all that is said of d alone.
LEMMA UnheardTells ==
    ASSUME NEW d \in Docs, Told(d),
           outcome'[d] = outcome[d], applied'[d] = applied[d], lost'[d] = lost[d], waiting' = waiting,
           waiting # 0 => waiting \in Attempts,
           \A n \in Attempts : /\ request'[n].op[d] = request[n].op[d]
                               /\ request'[n].result[d] = request[n].result[d]
                               /\ (d \in request'[n].todo <=> d \in request[n].todo)
    PROVE  Told(d)'
<1>1. waiting # 0 => /\ request'[waiting].op[d] = request[waiting].op[d]
                     /\ request'[waiting].result[d] = request[waiting].result[d]
                     /\ d \in request'[waiting].todo <=> d \in request[waiting].todo
  OBVIOUS
<1>2. (Awaited(d)' <=> Awaited(d)) /\ (Settled(d)' <=> Settled(d)) /\ (Settled(d) => Result(d)' = Result(d))
  BY <1>1 DEF Awaited, Settled, Result
<1>3. \A n \in Attempts : d \in request'[n].todo => d \in request[n].todo
  OBVIOUS
<1> QED BY <1>2, <1>3 DEF Told

LEMMA SendTells == ASSUME TellInv, SendBatch, NEW d \in Docs PROVE Told(d)'
<1>1. EditTypes /\ Told(d) /\ UnderGuard
  BY DEF TellInv, GuardInv
<1>2. /\ waiting = 0 /\ waiting' = sent + 1 /\ sent + 1 \in Attempts /\ sent + 1 # 0
      /\ UNCHANGED <<applied, lost>>
  <2>1. sent + 1 \in Attempts
    BY <1>1, Sent
  <2>2. sent \in Nat
    BY <1>1 DEF EditTypes
  <2> QED BY <2>1, <2>2 DEF SendBatch
<1>3. ~Awaited(d) /\ ~Settled(d)
  BY <1>2 DEF Awaited, Settled
<1>4. ~Settled(d)'
  BY <1>1, <1>2, Sent DEF Settled, Awaited
<1>5. ~lost[d] => \A n \in Attempts : d \in request'[n].todo => n = waiting'
  BY <1>1, <1>2, Sent DEF Told, Attempts
<1>6. outcome'[d] = IF request'[waiting'].op[d] = "none" THEN outcome[d] ELSE "none"
  BY <1>1, <1>2, Sent
<1>7. outcome[d] = "applied" => request'[waiting'].op[d] = "none"
  BY <1>1, <1>2, Sent
<1>8. Awaited(d)' => outcome'[d] = "none"
  BY <1>6 DEF Awaited
<1> QED BY <1>1, <1>2, <1>3, <1>4, <1>5, <1>6, <1>7, <1>8 DEF Told

LEMMA CarryTells ==
    ASSUME TellInv, NEW n \in Attempts, NEW c \in Docs, Carry(n, c), NEW d \in Docs PROVE Told(d)'
<1>1. EditTypes /\ Told(d) /\ UnderGuard /\ (waiting # 0 => waiting \in Attempts)
  BY MutateBounds DEF TellInv, GuardInv, EditTypes, Attempts
<1>2. /\ c \in request[n].todo /\ request[n].op[c] # "none" /\ n # 0 /\ applied[c] \in Nat
      /\ UNCHANGED <<waiting, outcome, lost>>
  BY <1>1, MutateBounds DEF Carry, UnderGuard, Attempts, EditTypes
<1>3. PICK x \in {"applied", "failed"} :
        /\ request' = [request EXCEPT ![n].todo = @ \ {c}, ![n].result[c] = x]
        /\ x = "applied" => applied' = [applied EXCEPT ![c] = @ + 1]
        /\ x = "failed" => applied' = applied
  BY DEF Carry
<1>4. \A m \in Attempts :
        /\ request'[m].op = request[m].op
        /\ request'[m].todo = IF m = n THEN request[m].todo \ {c} ELSE request[m].todo
        /\ \A e \in Docs : request'[m].result[e] = IF m = n /\ e = c THEN x ELSE request[m].result[e]
  <2>1. x \in Outcomes
    BY DEF Outcomes
  <2>2. request' = [request EXCEPT ![n].todo = @ \ {c}, ![n].result[c] = x]
    BY <1>3
  <2>3. EditTypes
    BY <1>1
  <2>4. ItemDone(n, c, x)
    BY <2>1, <2>2, <2>3, Carried
  <2> QED BY <2>4 DEF ItemDone
<1>5. CASE d # c
  <2>1. applied'[d] = applied[d]
    BY <1>1, <1>3, <1>5 DEF EditTypes
  <2> QED BY <1>1, <1>2, <1>4, <1>5, <2>1, UnheardTells
<1>6. CASE d = c
  <2>1. applied'[d] = IF x = "applied" THEN applied[d] + 1 ELSE applied[d]
    BY <1>1, <1>3, <1>6 DEF EditTypes
  <2>2. CASE n = waiting
    <3>1. Awaited(d) /\ ~Settled(d) /\ outcome[d] = "none"
      BY <1>1, <1>2, <1>6, <2>2 DEF Awaited, Settled, Told
    <3>2. Settled(d)' /\ Result(d)' = x
      BY <1>2, <1>4, <1>6, <2>2 DEF Settled, Awaited, Result
    <3>3. ~lost[d] => \A m \in Attempts : d \in request'[m].todo => m = waiting
      BY <1>1, <1>4 DEF Told
    <3>4. ~lost[d] => applied[d] = 0
      BY <1>1, <3>1 DEF Told
    <3> QED BY <1>2, <1>6, <2>1, <3>1, <3>2, <3>3, <3>4 DEF Told
  <2>3. CASE n # waiting
    <3>1. lost[d]
      BY <1>1, <1>2, <1>6, <2>3 DEF Told
    <3>2. (Awaited(d)' <=> Awaited(d)) /\ (Settled(d)' <=> Settled(d)) /\ (Settled(d) => Result(d)' = Result(d))
      BY <1>1, <1>2, <1>4, <1>6, <2>3 DEF Awaited, Settled, Result
    <3> QED BY <1>1, <1>2, <1>6, <2>1, <3>1, <3>2 DEF Told
  <2> QED BY <2>2, <2>3
<1> QED BY <1>5, <1>6

LEMMA AnswerTells ==
    ASSUME TellInv, NEW n \in Attempts, Report(n) \/ AnswerIsLost(n), NEW d \in Docs PROVE Told(d)'
<1>1. EditTypes /\ Told(d) /\ (d \in ItemsOf(n) <=> request[n].op[d] # "none")
  BY DEF TellInv, GuardInv, ItemsOf
<1>2. waiting = n /\ n # 0 /\ waiting' = 0 /\ UNCHANGED <<request, applied>>
  BY DEF Report, AnswerIsLost
<1>3. ~Awaited(d)' /\ ~Settled(d)'
  BY <1>2 DEF Awaited, Settled
<1>4. Awaited(d) <=> d \in ItemsOf(n)
  BY <1>1, <1>2 DEF Awaited
<1>5. CASE Report(n)
  <2>1. outcome'[d] = (IF d \in ItemsOf(n) THEN Result(d) ELSE outcome[d]) /\ lost' = lost
    BY <1>2, <1>5 DEF Report, Result
  <2>2. request[n].todo = {}
    BY <1>5 DEF Report
  <2>3. Settled(d) <=> d \in ItemsOf(n)
    BY <1>2, <1>4, <2>2 DEF Settled
  <2>4. ~lost[d] => \A m \in Attempts : d \notin request[m].todo
    BY <1>1, <1>2, <2>2 DEF Told
  <2> QED BY <1>1, <1>2, <1>3, <1>4, <2>1, <2>3, <2>4 DEF Told
<1>6. CASE AnswerIsLost(n)
  <2>1. /\ d \notin ItemsOf(n) => outcome'[d] = outcome[d]
        /\ d \in ItemsOf(n) => outcome'[d] # "applied"
        /\ lost'[d] = (lost[d] \/ d \in ItemsOf(n))
    BY <1>6 DEF AnswerIsLost
  <2>2. ~lost'[d] => \A m \in Attempts : d \notin request[m].todo
    BY <1>1, <1>2, <2>1 DEF Told, TellInv, GuardInv, UnderGuard
  <2>3. d \notin ItemsOf(n) => ~Settled(d)
    BY <1>4 DEF Settled
  <2> QED BY <1>1, <1>2, <1>3, <2>1, <2>2, <2>3 DEF Told
<1> QED BY <1>5, <1>6

LEMMA TellNext == ASSUME TellInv, MutateNext PROVE TellInv'
<1>1. GuardInv'
  BY GuardNext DEF TellInv
<1>2. SUFFICES ASSUME NEW d \in Docs PROVE Told(d)'
  BY <1>1 DEF TellInv
<1>3. EditTypes /\ Told(d) /\ UnderGuard /\ (waiting # 0 => waiting \in Attempts)
  BY MutateBounds DEF TellInv, GuardInv, EditTypes, Attempts
<1>4. ASSUME NEW c \in Docs, Reread(c) PROVE Told(d)'
  <2>1. /\ waiting = 0 /\ UNCHANGED <<request, waiting>>
        /\ d # c => outcome'[d] = outcome[d] /\ applied'[d] = applied[d] /\ lost'[d] = lost[d]
        /\ d = c => outcome'[d] = "none" /\ applied'[d] = 0
    BY <1>3, <1>4 DEF Reread, EditTypes
  <2>2. CASE d # c
    BY <1>3, <2>1, <2>2, UnheardTells
  <2>3. CASE d = c
    <3>1. \A n \in Attempts : d \notin request[n].todo
      BY <1>3, <1>4, <2>3, MutateBounds DEF Reread, UnderGuard, Attempts, EditTypes
    <3> QED BY <2>1, <2>3, <3>1 DEF Told, Awaited, Settled
  <2> QED BY <2>2, <2>3
<1>5. ASSUME NEW c \in Docs, OtherWrites(c) PROVE Told(d)'
  BY <1>3, <1>5, UnheardTells DEF OtherWrites
<1> QED BY <1>4, <1>5, SendTells, CarryTells, AnswerTells DEF MutateNext

\* What is reported as applied is stored, and what is reported as failed was left
\* unwritten, unless an answer about it was lost (mutate.rs:899).
THEOREM ReportsAreTrue == MutateSpec => []ReportIsTrue
<1>1. ASSUME TellInv PROVE ReportIsTrue
  <2> SUFFICES ASSUME NEW d \in Docs
               PROVE  /\ outcome[d] = "applied" => applied[d] >= 1
                      /\ outcome[d] = "failed" /\ ~lost[d] => applied[d] = 0
    BY DEF ReportIsTrue
  <2>1. Told(d) /\ applied[d] \in Nat
    BY <1>1 DEF TellInv, GuardInv, EditTypes
  <2>2. outcome[d] = "failed" => ~Settled(d)
    BY <2>1 DEF Told, Settled
  <2> QED BY <2>1, <2>2 DEF Told
<1>2. ASSUME TellInv, UNCHANGED mutateVars PROVE TellInv'
  BY <1>2 DEF mutateVars, TellInv, GuardInv, EditTypes, SeqNosGoUp, UnderGuard, OnceOnly, Told,
     Awaited, Settled, Result
<1> QED BY <1>1, <1>2, TellInit, TellNext, PTL DEF MutateSpec

----------------------------------------------------------------------------
(* Sequence numbers: one for each thing that is carried out *)

\* What a request, sent or not, may still carry out.
Undone == {x \in Attempts \X Docs : x[1] > sent \/ x[2] \in request[x[1]].todo}

MostSeqNos == 2 + MaxAttempts * Cardinality(Docs)

\* Each number that was given away was another's, or was for something that is done.
NumbersLast ==
    /\ others \in 0 .. MaxOthers /\ waiting <= sent
    /\ fresh + Cardinality(Undone) <= others + MostSeqNos
    /\ \A n \in Attempts : \A d \in Docs : request[n].guard[d] < fresh

LEMMA UndoneIsFinite ==
    /\ IsFiniteSet(Attempts \X Docs) /\ Cardinality(Attempts \X Docs) = MaxAttempts * Cardinality(Docs)
    /\ Cardinality(Docs) \in Nat /\ MostSeqNos \in Nat
    /\ IsFiniteSet(Undone) /\ Cardinality(Undone) \in Nat /\ Cardinality(Undone) <= MaxAttempts * Cardinality(Docs)
<1>1. IsFiniteSet(Attempts) /\ Cardinality(Attempts) = MaxAttempts
  BY MutateBounds, FS_Interval DEF Attempts
<1>2. IsFiniteSet(Docs) /\ Cardinality(Docs) \in Nat
  BY MutateBounds, FS_CardinalityType
<1>3. IsFiniteSet(Attempts \X Docs) /\ Cardinality(Attempts \X Docs) = MaxAttempts * Cardinality(Docs)
  BY <1>1, <1>2, FS_Product
<1>4. Undone \in SUBSET (Attempts \X Docs)
  BY DEF Undone
<1>5. IsFiniteSet(Undone) /\ Cardinality(Undone) <= Cardinality(Attempts \X Docs)
  BY <1>3, <1>4, FS_Subset
<1>6. MaxAttempts * Cardinality(Docs) \in Nat
  BY <1>2, MutateBounds
<1> QED BY <1>2, <1>3, <1>5, <1>6, FS_CardinalityType DEF MostSeqNos

\* Where less is left to do.
LEMMA LessUndone == Undone' \subseteq Undone => Cardinality(Undone') <= Cardinality(Undone) /\ Cardinality(Undone') \in Nat
<1> SUFFICES ASSUME Undone' \subseteq Undone PROVE Cardinality(Undone') <= Cardinality(Undone) /\ Cardinality(Undone') \in Nat
  OBVIOUS
<1>1. Undone' \in SUBSET Undone
  OBVIOUS
<1>2. IsFiniteSet(Undone') /\ Cardinality(Undone') <= Cardinality(Undone)
  BY <1>1, UndoneIsFinite, FS_Subset
<1> QED BY <1>2, FS_CardinalityType

LEMMA NumbersStart == MutateInit => NumbersLast
<1> SUFFICES ASSUME MutateInit PROVE NumbersLast
  OBVIOUS
<1>1. fresh = 2 /\ others = 0 /\ waiting <= sent /\ others \in 0 .. MaxOthers
  BY MutateBounds DEF MutateInit
<1>2. fresh + Cardinality(Undone) <= others + MostSeqNos
  <2> DEFINE most == MaxAttempts * Cardinality(Docs)
  <2>1. MostSeqNos = 2 + most /\ most \in Nat /\ Cardinality(Undone) \in Nat /\ Cardinality(Undone) <= most
    BY UndoneIsFinite, MutateBounds DEF MostSeqNos
  <2> HIDE DEF most
  <2> QED BY <1>1, <2>1
<1>3. \A n \in Attempts : \A d \in Docs : request[n].guard[d] < fresh
  BY <1>1 DEF MutateInit, NoRequest, Absent
<1> QED BY <1>1, <1>2, <1>3 DEF NumbersLast

LEMMA NumbersStay == ASSUME GuardInv, NumbersLast, [MutateNext]_mutateVars PROVE NumbersLast'
<1>1. /\ EditTypes /\ fresh \in Nat /\ others \in Nat /\ sent \in 0 .. MaxAttempts /\ waiting \in Nat
      /\ Cardinality(Undone) \in Nat /\ MostSeqNos \in Nat
  BY UndoneIsFinite DEF GuardInv, EditTypes, NumbersLast
<1>2. \A n \in Attempts : request[n] \in RequestRecord
  BY <1>1 DEF EditTypes
<1>3. CASE SendBatch
  <2>1. /\ sent' = sent + 1 /\ waiting' = sent + 1 /\ UNCHANGED <<fresh, others>>
    BY <1>3 DEF SendBatch
  <2>2. /\ \A m \in Attempts : m # sent + 1 => request'[m] = request[m]
        /\ request'[sent + 1].guard = loaded /\ sent + 1 \in Attempts
    BY <1>1, <1>3, Sent
  <2>3. Undone' \subseteq Undone
    <3> SUFFICES ASSUME NEW m \in Attempts, NEW d \in Docs, m > sent' \/ d \in request'[m].todo
                 PROVE  m > sent \/ d \in request[m].todo
      BY DEF Undone
    <3>1. m \in Nat
      BY DEF Attempts
    <3> QED BY <1>1, <2>1, <2>2, <3>1
  <2>4. \A m \in Attempts : \A d \in Docs : request'[m].guard[d] < fresh'
    BY <2>1, <2>2 DEF GuardInv, SeqNosGoUp, NumbersLast
  <2>5. fresh' + Cardinality(Undone') <= others' + MostSeqNos
    BY <1>1, <2>1, <2>3, LessUndone DEF NumbersLast
  <2> QED BY <1>1, <2>1, <2>4, <2>5 DEF NumbersLast, MostSeqNos
<1>4. ASSUME NEW n \in Attempts, NEW d \in Docs, Carry(n, d) PROVE NumbersLast'
  <2>1. PICK x \in Outcomes : request' = [request EXCEPT ![n].todo = @ \ {d}, ![n].result[d] = x]
    BY <1>4 DEF Carry, Outcomes
  <2>2. /\ d \in request[n].todo /\ UNCHANGED <<sent, waiting, others>>
        /\ fresh' \in {fresh, fresh + 1} /\ n <= sent
    BY <1>4 DEF Carry, GuardInv, UnderGuard
  <2>3. \A m \in Attempts : /\ request'[m].guard = request[m].guard
                             /\ request'[m].todo = IF m = n THEN request[m].todo \ {d} ELSE request[m].todo
    <3>1. ItemDone(n, d, x)
      BY <1>1, <2>1, Carried
    <3> QED BY <3>1 DEF ItemDone
  <2>4. Undone' = Undone \ {<<n, d>>} /\ <<n, d>> \in Undone
    <3>1. n \in Nat /\ sent \in Nat /\ ~(n > sent)
      BY <1>1, <2>2 DEF Attempts
    <3>2. \A m \in Attempts, e \in Docs :
             (m > sent' \/ e \in request'[m].todo) <=> (m > sent \/ e \in request[m].todo) /\ <<m, e>> # <<n, d>>
      BY <2>2, <2>3, <3>1
    <3> QED BY <2>2, <3>2 DEF Undone
  <2>5. Cardinality(Undone') = Cardinality(Undone) - 1
    BY <2>4, UndoneIsFinite, FS_RemoveElement
  <2>6. fresh' + Cardinality(Undone') <= others' + MostSeqNos
    BY <1>1, <2>2, <2>5 DEF NumbersLast
  <2>7. \A m \in Attempts : \A e \in Docs : request'[m].guard[e] < fresh'
    <3>1. ASSUME NEW m \in Attempts, NEW e \in Docs PROVE request'[m].guard[e] < fresh'
      <4>1. request[m].guard[e] \in Nat /\ request[m].guard[e] < fresh
        BY <1>2 DEF RequestRecord, NumbersLast
      <4>2. request'[m].guard[e] = request[m].guard[e]
        BY <2>3
      <4> QED BY <1>1, <2>2, <4>1, <4>2
    <3> QED BY <3>1
  <2> QED BY <2>2, <2>6, <2>7 DEF NumbersLast, MostSeqNos
<1>5. ASSUME NEW d \in Docs, OtherWrites(d) PROVE NumbersLast'
  <2>1. /\ fresh' = fresh + 1 /\ others' = others + 1 /\ others < MaxOthers /\ UNCHANGED <<request, sent, waiting>>
    BY <1>5 DEF OtherWrites
  <2>2. Undone' = Undone
    BY <2>1 DEF Undone
  <2>3. \A m \in Attempts : \A e \in Docs : request[m].guard[e] \in Nat
    BY <1>2 DEF RequestRecord
  <2> QED BY <1>1, <2>1, <2>2, <2>3, MutateBounds DEF NumbersLast, MostSeqNos
<1>6. ASSUME UNCHANGED <<fresh, others, request, sent>>, waiting' \in {waiting, 0} PROVE NumbersLast'
  <2>1. Undone' = Undone
    BY <1>6 DEF Undone
  <2> QED BY <1>1, <1>6, <2>1 DEF NumbersLast, MostSeqNos
<1>7. ASSUME NEW d \in Docs, Reread(d) PROVE NumbersLast'
  BY <1>6, <1>7 DEF Reread
<1>8. ASSUME NEW n \in Attempts, Report(n) \/ AnswerIsLost(n) PROVE NumbersLast'
  BY <1>6, <1>8 DEF Report, AnswerIsLost
<1>9. CASE UNCHANGED mutateVars
  BY <1>6, <1>9 DEF mutateVars
<1> QED BY <1>3, <1>4, <1>5, <1>7, <1>8, <1>9 DEF MutateNext

LEMMA EditsAreTyped == ASSUME GuardInv, NumbersLast PROVE MutateTypeOK
<1>1. EditTypes /\ fresh \in Nat /\ others \in 0 .. MaxOthers /\ clobbered = FALSE
  BY DEF GuardInv, EditTypes, NumbersLast
<1>2. fresh <= MaxOthers + MaxAttempts * Cardinality(Docs) + 2 /\ MaxOthers + MaxAttempts * Cardinality(Docs) + 2 \in Nat
  BY <1>1, MutateBounds, UndoneIsFinite DEF NumbersLast, MostSeqNos
<1>3. fresh \in SeqNos /\ \A i \in Nat : i < fresh => i \in SeqNos
  <2> DEFINE most == MaxOthers + MaxAttempts * Cardinality(Docs) + 2
  <2>1. SeqNos = 0 .. most /\ most \in Nat /\ fresh <= most
    BY <1>2 DEF SeqNos
  <2> HIDE DEF most
  <2> QED BY <1>1, <1>2, <2>1
<1>4. seqNo \in [Docs -> SeqNos] /\ loaded \in [Docs -> SeqNos]
  BY <1>1, <1>3 DEF EditTypes, GuardInv, SeqNosGoUp
<1>5. ASSUME NEW n \in Attempts
      PROVE  /\ request[n].op \in [Docs -> {"none", "create", "update", "delete"}]
             /\ request[n].guard \in [Docs -> SeqNos] /\ request[n].todo \subseteq ItemsOf(n)
             /\ request[n].result \in [Docs -> Outcomes]
  <2>1. request[n] \in RequestRecord
    BY <1>1 DEF EditTypes
  <2>2. /\ request[n].op \in [Docs -> Ops] /\ request[n].guard \in [Docs -> Nat] /\ request[n].todo \subseteq Docs
        /\ request[n].result \in [Docs -> Outcomes]
    BY <2>1 DEF RequestRecord
  <2>3. request[n].guard \in [Docs -> SeqNos]
    BY <1>3, <2>2 DEF NumbersLast
  <2>4. request[n].todo \subseteq ItemsOf(n)
    BY <2>2 DEF GuardInv, UnderGuard, ItemsOf
  <2> QED BY <2>2, <2>3, <2>4 DEF Ops
<1>6. sent \in 0 .. MaxAttempts /\ waiting \in 0 .. sent
  BY <1>1, MutateBounds DEF EditTypes, NumbersLast
<1> QED BY <1>1, <1>3, <1>4, <1>5, <1>6 DEF EditTypes, MutateTypeOK

\* Documents, requests and what is told of them have their types; a sequence number is
\* given to each item that is carried out and to each write of others, once.
THEOREM EditsKeepTypes == MutateSpec => []MutateTypeOK
<1>1. ASSUME GuardInv, UNCHANGED mutateVars PROVE GuardInv'
  BY <1>1 DEF mutateVars, GuardInv, EditTypes, SeqNosGoUp, UnderGuard, OnceOnly
<1> QED BY <1>1, GuardInit, GuardNext, NumbersStart, NumbersStay, EditsAreTyped, PTL DEF MutateSpec

-----------------------------------------------------------------------------
(***************************************************************************)
(* MySqlActor                                                              *)
(*                                                                         *)
(* A batch on a MySQL connection is committed as a whole or not at all,    *)
(* and whoever gets the connection next finds it clean: for any number of  *)
(* requests and any length of a batch.                                     *)
(*                                                                         *)
(* The argument follows the one command that asker and actor have between  *)
(* them (ScriptPlace, BatchPlace): the asker sends nothing while there is  *)
(* a command on its way, and after a refusal nothing but a ROLLBACK.  A    *)
(* COMMIT is sent, or worked on, only when the transaction holds all       *)
(* mutations of the batch (TxPlace); an actor that nobody asks for         *)
(* anything rolls back before it lets go of the connection (LinkPlace).    *)
(***************************************************************************)

Commands == {"execute", "fetch", "close", "commit", "rollback"}
CommandSent(ch) == IF ch = <<>> THEN "nothing" ELSE Head(ch)

\* Of a script: what asker (s) and actor (at) are at, with the command c on its way.
ScriptPlace(s, at, c) ==
    /\ at \in {"recv", "execute", "run", "stream", "reset", "end"}
    /\ s \in {"asking", "cursor", "ok", "failed", "dropped"}
    /\ at = "recv" <=> c = "execute"
    /\ at # "recv" => c = "nothing" \/ (at = "stream" /\ c \in {"fetch", "close"})
    /\ s = "cursor" => at = "stream" /\ c = "nothing"

\* The same of a batch ...
BatchPlace(s, at, c) ==
    /\ at \in {"open", "refuse", "recv", "execute", "run", "stream", "rollback", "commit", "end"}
    /\ s \in {"free", "asking", "told", "refused", "cursor", "undoing", "failed", "dropped"}
    /\ c \in {"nothing", "execute", "commit", "rollback"}
    /\ s = "free" => c = "nothing" /\ at \in {"open", "refuse", "recv"}
    /\ s = "told" => c = "nothing" /\ at = "recv"
    /\ s = "refused" => c = "nothing" /\ at \in {"refuse", "recv"}
    /\ s = "cursor" => c = "nothing" /\ at = "stream"
    /\ s = "undoing" => c = "rollback" \/ (c = "nothing" /\ at = "rollback")
    /\ s = "failed" => c = "nothing" /\ at \in {"open", "refuse", "recv", "end"}
    /\ at \in {"execute", "run", "rollback", "commit", "end"} => c = "nothing"
    /\ at = "stream" => c \in {"nothing", "rollback"}
    /\ at = "open" => c \in {"nothing", "execute"}
    /\ at = "refuse" => c # "commit"
    /\ at \in {"execute", "run", "commit"} \/ c \in {"execute", "commit"} => s \in {"asking", "dropped"}
    /\ c = "rollback" => s \in {"undoing", "dropped"}
    /\ at = "end" => s \in {"failed", "dropped"}

\* ... and how much of it is in the transaction then, if there still is one.
InTx(h, k, tx, un) == tx = "the_drivers" /\ un = {h} \X (1 .. k)

BatchData(s, at, c, d) ==
    /\ at \in {"open", "refuse"} => d = 0
    /\ at \in {"execute", "run"} \/ c = "execute" \/ s = "told" => d < Mutations

TxHolds(s, at, c, k, d) ==
    \/ k = d /\ (at \in {"execute", "run"} \/ (at = "recv" /\ (c = "execute" \/ s = "free")))
    \/ k = Mutations /\ (at = "commit" \/ c = "commit")
    \/ k = d + 1 /\ s = "told"

HolderPlace ==
    /\ holder = 0 => channel = <<>>
    /\ holder # 0 =>
        \/ kind[holder] = "script" /\ ScriptPlace(stage[holder], actor.at, CommandSent(channel))
        \/ /\ kind[holder] = "batch" /\ BatchPlace(stage[holder], actor.at, CommandSent(channel))
           /\ BatchData(stage[holder], actor.at, CommandSent(channel), done[holder])

\* What is in the transaction is the batch's own.
TxPlace ==
    holder # 0 /\ kind[holder] = "batch" =>
        /\ uncommitted \subseteq RowsOf(holder)
        /\ conn = "up" => \A k \in 0 .. Mutations :
              TxHolds(stage[holder], actor.at, CommandSent(channel), k, done[holder])
                => InTx(holder, k, serverTx, uncommitted)

\* What is left on the connection belongs to whoever holds it.
LinkPlace ==
    /\ conn # "up" => serverTx = "none" /\ uncommitted = {}
    /\ actor.timed = TRUE => actor.at \in {"run", "stream", "reset"} /\ kind[holder] # "batch"
    /\ conn = "up" =>
        /\ deadline = TRUE => spoiled = TRUE \/ actor.timed = TRUE
        /\ unread = TRUE => actor.at = "stream"
        /\ serverTx = "the_drivers" \/ uncommitted # {} =>
             holder # 0 /\ kind[holder] = "batch" /\ actor.at \notin {"open", "refuse"}

\* What has been committed of each request.
BatchWhole(r) ==
    /\ \/ RowsOf(r) \cap committed = {}
       \/ /\ kind[r] = "batch" /\ r # holder /\ RowsOf(r) \subseteq committed
          /\ stage[r] \in {"ok", "dropped"} \/ (stage[r] = "failed" /\ r \in doubtful)
    /\ kind[r] = "batch" /\ stage[r] = "ok" => RowsOf(r) \subseteq committed

AllWhole == \A r \in Requests : BatchWhole(r)

\* The types, by what they are about.
AskerTypes ==
    /\ kind \in [Requests -> {"none", "script", "batch", "direct"}]
    /\ stage \in [Requests -> Asking \cup {"unborn", "ok", "failed", "dropped"}]
    /\ done \in [Requests -> 0 .. Mutations]
    /\ \A r \in Requests : /\ stage[r] = "unborn" \/ kind[r] # "none"
                           /\ stage[r] \in {"unborn", "queued"} => done[r] = 0

ActorTypes ==
    /\ holder \in Requests \cup {0} /\ (holder = 0 <=> actor = NoActor)
    /\ actor \in [at : ActorLabels, timed : BOOLEAN]
    /\ channel \in {<<>>} \cup {<<c>> : c \in Commands}

DataTypes ==
    /\ conn \in {"up", "broken", "gone"} /\ serverTx \in {"none", "the_users", "the_drivers"}
    /\ uncommitted \subseteq Rows /\ committed \subseteq Rows /\ doubtful \subseteq Requests
    /\ unread \in BOOLEAN /\ deadline \in BOOLEAN /\ spoiled \in BOOLEAN

MySqlPlaces == HolderPlace /\ TxPlace /\ LinkPlace /\ AllWhole

MySqlInv == AskerTypes /\ ActorTypes /\ DataTypes /\ MySqlPlaces

----------------------------------------------------------------------------
\* There is one command on its way at most, so that the channel is as good as that command.
LEMMA OneCommand ==
    /\ CommandSent(<<>>) = "nothing" /\ <<>> \in Seq(Commands)
    /\ \A c \in Commands : /\ Append(<<>>, c) = <<c>> /\ Head(<<c>>) = c /\ Tail(<<c>>) = <<>>
                           /\ <<c>> # <<>> /\ <<c>> \in Seq(Commands) /\ CommandSent(<<c>>) = c /\ c # "nothing"
BY DEF Commands, CommandSent

LEMMA Types == ASSUME AskerTypes, ActorTypes, DataTypes PROVE MySqlTypeOK
<1>1. channel \in Seq(Commands)
  BY OneCommand DEF ActorTypes
<1> QED BY <1>1 DEF AskerTypes, ActorTypes, DataTypes, MySqlTypeOK, Commands

LEMMA InitPlace == MySqlInit => MySqlInv
<1> SUFFICES ASSUME MySqlInit PROVE MySqlInv
  OBVIOUS
<1>1. AskerTypes
  BY MySqlAssumption DEF MySqlInit, AskerTypes, Asking
<1>2. ActorTypes
  BY DEF MySqlInit, ActorTypes, NoActor, ActorLabels
<1>3. DataTypes
  BY DEF MySqlInit, DataTypes
<1>4. HolderPlace
  BY DEF MySqlInit, HolderPlace
<1>5. LinkPlace
  BY DEF MySqlInit, LinkPlace, NoActor
<1>6. AllWhole /\ TxPlace
  BY DEF MySqlInit, AllWhole, BatchWhole, TxPlace
<1> QED BY <1>1, <1>2, <1>3, <1>4, <1>5, <1>6 DEF MySqlInv, MySqlPlaces

\* What is committed is said of a request alone: it stands as long as nothing of it changes.
LEMMA WholeStands ==
    ASSUME NEW r \in Requests, BatchWhole(r), committed' = committed, r \in doubtful => r \in doubtful',
           kind'[r] = kind[r],
           \/ stage'[r] = stage[r]
           \/ stage[r] \notin {"ok", "failed", "dropped"} /\ (stage'[r] # "ok" \/ kind[r] # "batch"),
           holder' # r \/ holder = r \/ stage[r] = "queued"
    PROVE  BatchWhole(r)'
BY DEF BatchWhole, RowsOf

\* Zero is nobody.
LEMMA Somebody == \A r \in Requests : r # 0
BY MySqlAssumption DEF Requests

\* The connection while nobody has it.
LEMMA FreeLink ==
    ASSUME MySqlInv, holder = 0
    PROVE  /\ actor.timed = FALSE /\ channel = <<>> /\ uncommitted = {} /\ serverTx # "the_drivers"
           /\ conn # "up" => serverTx = "none"
           /\ conn = "up" => unread # TRUE /\ (deadline # TRUE \/ spoiled = TRUE)
<1>1. actor.timed = FALSE /\ actor.at = "none"
  BY DEF MySqlInv, ActorTypes, NoActor
<1> QED BY <1>1 DEF MySqlInv, MySqlPlaces, LinkPlace, HolderPlace

\* The connection stands as long as nothing of it changes and its holder stays of its kind.
LEMMA LinkStands ==
    ASSUME MySqlInv, UNCHANGED <<holder, actor, conn, serverVars, resultVars>>,
           holder # 0 => kind'[holder] = kind[holder]
    PROVE  LinkPlace'
<1>1. CASE holder = 0
  BY <1>1, FreeLink DEF LinkPlace, serverVars, resultVars
<1>2. CASE holder # 0
  BY <1>2 DEF MySqlInv, MySqlPlaces, LinkPlace, serverVars, resultVars
<1> QED BY <1>1, <1>2

\* What the others do is no matter to the holder.
LEMMA HolderStands ==
    ASSUME MySqlInv, UNCHANGED <<holder, actor, channel, conn, serverVars>>,
           holder # 0 => kind'[holder] = kind[holder] /\ stage'[holder] = stage[holder] /\ done'[holder] = done[holder]
    PROVE  HolderPlace' /\ TxPlace'
BY DEF MySqlInv, MySqlPlaces, HolderPlace, TxPlace, RowsOf, serverVars

LEMMA HolderIsOut ==
    ASSUME MySqlInv, holder # 0
    PROVE  stage[holder] \notin {"unborn", "queued"} /\ kind[holder] \in {"script", "batch"} /\ holder \in Requests
BY DEF MySqlInv, MySqlPlaces, HolderPlace, BatchPlace, ScriptPlace, ActorTypes

LEMMA AskKeeps == ASSUME MySqlInv, NEW r \in Requests, AskMySql(r) PROVE MySqlInv'
<1> USE DEF MySqlInv, MySqlPlaces
<1>1. AskerTypes'
  BY DEF AskMySql, AskerTypes, Becomes, Asking
<1>2. ActorTypes' /\ DataTypes'
  BY DEF AskMySql, ActorTypes, DataTypes, serverVars, resultVars
<1>3. holder # 0 => /\ r # holder /\ kind'[holder] = kind[holder]
                    /\ stage'[holder] = stage[holder] /\ done'[holder] = done[holder]
  BY HolderIsOut DEF AskMySql, AskerTypes, Becomes
<1>4. HolderPlace' /\ TxPlace'
  BY <1>3, HolderStands DEF AskMySql
<1>5. LinkPlace'
  BY <1>3, LinkStands DEF AskMySql
<1>6. AllWhole'
  BY <1>3 DEF AskMySql, AllWhole, BatchWhole, RowsOf, AskerTypes, Becomes, serverVars, Asking
<1> QED BY <1>1, <1>2, <1>4, <1>5, <1>6

LEMMA LockKeeps == ASSUME MySqlInv, NEW r \in Requests, Lock(r) PROVE MySqlInv'
<1> USE DEF MySqlInv, MySqlPlaces
<1>1. AskerTypes'
  BY DEF Lock, AskerTypes, Becomes, Asking
<1>2. ActorTypes'
  <2>1. \A l \in ActorLabels \ {"none"} : Untimed(l) # NoActor /\ Untimed(l) \in [at : ActorLabels, timed : BOOLEAN]
    BY DEF Untimed, NoActor, ActorLabels
  <2> QED BY <2>1, Somebody DEF Lock, ActorTypes, ActorLabels, Commands
<1>3. DataTypes'
  BY DEF Lock, DataTypes, serverVars, resultVars
<1>4. HolderPlace' /\ TxPlace' /\ LinkPlace'
  <2>1. /\ actor.timed = FALSE /\ channel = <<>> /\ uncommitted = {} /\ serverTx # "the_drivers"
        /\ conn # "up" => serverTx = "none"
        /\ conn = "up" => unread # TRUE /\ (deadline # TRUE \/ spoiled = TRUE)
    BY FreeLink DEF Lock
  <2>2. CASE conn = "gone"
    BY <2>1, <2>2 DEF Lock, HolderPlace, TxPlace, LinkPlace, serverVars, resultVars
  <2>3. CASE conn # "gone"
    <3>1. actor'.timed = FALSE
      BY <2>3 DEF Lock, Untimed
    <3>2. LinkPlace'
      BY <2>1, <2>3, <3>1 DEF Lock, LinkPlace, serverVars, resultVars
    <3>3. CASE kind[r] = "batch"
      <4>1. /\ holder' = r /\ actor'.at = "open" /\ CommandSent(channel') = "nothing" /\ stage'[r] = "free"
            /\ kind'[r] = "batch"
        BY <2>3, <3>3, OneCommand DEF Lock, Untimed, Becomes, AskerTypes
      <4>4. done'[r] = 0 /\ uncommitted' = {}
        BY <2>1 DEF Lock, AskerTypes, serverVars
      <4>2. BatchPlace("free", "open", "nothing") /\ BatchData("free", "open", "nothing", 0)
        BY DEF BatchPlace, BatchData
      <4>3. \A k : ~TxHolds("free", "open", "nothing", k, 0)
        BY DEF TxHolds
      <4> QED BY <3>2, <4>1, <4>2, <4>3, <4>4, Somebody DEF HolderPlace, TxPlace
    <3>4. CASE kind[r] # "batch"
      <4>1. /\ holder' = r /\ actor'.at = "recv" /\ CommandSent(channel') = "execute" /\ stage'[r] = "asking"
            /\ kind'[r] = "script"
        <5>1. channel' = <<"execute">> /\ actor'.at = "recv" /\ holder' = r /\ stage'[r] = "asking"
          BY <2>3, <3>4 DEF Lock, Untimed, Becomes, AskerTypes
        <5>2. kind'[r] = "script"
          BY <2>3, <3>4 DEF Lock, AskerTypes
        <5> QED BY <5>1, <5>2, OneCommand DEF Commands
      <4>2. ScriptPlace("asking", "recv", "execute")
        BY DEF ScriptPlace
      <4> QED BY <3>2, <4>1, <4>2, Somebody DEF HolderPlace, TxPlace
    <3> QED BY <3>3, <3>4
  <2> QED BY <2>2, <2>3
<1>6. AllWhole'
  BY DEF Lock, AllWhole, BatchWhole, RowsOf, AskerTypes, Becomes, serverVars, Asking
<1> QED BY <1>1, <1>2, <1>3, <1>4, <1>6

LEMMA DirectKeeps == ASSUME MySqlInv, NEW r \in Requests, Direct(r) PROVE MySqlInv'
<1> USE DEF MySqlInv, MySqlPlaces
<1>1. AskerTypes'
  BY DEF Direct, AskerTypes, Becomes, Asking
<1>2. ActorTypes' /\ DataTypes'
  BY DEF Direct, ActorTypes, DataTypes, serverVars, resultVars
<1>3. HolderPlace' /\ TxPlace'
  BY DEF Direct, HolderPlace, TxPlace
<1>4. LinkPlace'
  <2>1. /\ actor.timed = FALSE /\ uncommitted = {} /\ serverTx # "the_drivers"
        /\ conn # "up" => serverTx = "none"
        /\ conn = "up" => unread # TRUE /\ (deadline # TRUE \/ spoiled = TRUE)
    BY FreeLink DEF Direct
  <2>2. uncommitted' = {} /\ serverTx' # "the_drivers" /\ (conn' = "up" => conn = "up") /\ (conn' # "up" => serverTx' = "none")
    BY <2>1 DEF Direct, serverVars
  <2> QED BY <2>1, <2>2 DEF Direct, LinkPlace, resultVars
<1>5. AllWhole'
  <2> SUFFICES ASSUME NEW p \in Requests PROVE BatchWhole(p)'
    BY DEF AllWhole
  <2>1. /\ committed' = committed /\ doubtful' = doubtful /\ kind' = kind /\ holder' = holder
        /\ stage[r] = "queued" /\ kind[r] # "batch" /\ \A q \in Requests \ {r} : stage'[q] = stage[q]
    BY DEF Direct, serverVars, Becomes, AskerTypes
  <2> QED BY <2>1, WholeStands DEF AllWhole
<1> QED BY <1>1, <1>2, <1>3, <1>4, <1>5

\* An asker's step that leaves the connection and what is committed alone.
LEMMA TalkIsWhole ==
    ASSUME MySqlInv, NEW r \in Requests, NEW t, Becomes(r, t),
           UNCHANGED <<kind, holder, committed, doubtful>>,
           stage[r] \notin {"ok", "failed", "dropped"}, t # "ok" \/ kind[r] # "batch"
    PROVE  AllWhole'
<1> SUFFICES ASSUME NEW p \in Requests PROVE BatchWhole(p)'
  BY DEF AllWhole
<1>1. stage'[p] = stage[p] \/ (p = r /\ stage'[p] = t)
  BY DEF MySqlInv, AskerTypes, Becomes
<1> QED BY <1>1, WholeStands DEF MySqlInv, MySqlPlaces, AllWhole

LEMMA DropKeeps == ASSUME MySqlInv, NEW r \in Requests, DropAsker(r) PROVE MySqlInv'
<1> USE DEF MySqlInv, MySqlPlaces
<1>1. PICK t \in {"dropped", "failed"} : Becomes(r, t) /\ (t = "failed" => kind[r] = "batch" /\ stage[r] = "free")
  BY DEF DropAsker
<1>2. AskerTypes'
  BY <1>1 DEF DropAsker, AskerTypes, Becomes, Asking
<1>3. ActorTypes' /\ DataTypes'
  BY DEF DropAsker, ActorTypes, DataTypes, serverVars, resultVars
<1>4. HolderPlace' /\ TxPlace'
  <2>1. CASE r # holder
    BY <1>1, <2>1, HolderStands DEF DropAsker, Becomes, AskerTypes
  <2>2. CASE r = holder
    <3>1. stage'[r] = t /\ stage[r] \in Asking
      BY <1>1 DEF DropAsker, Becomes, AskerTypes
    <3>2. \A at, c : ScriptPlace(stage[r], at, c) /\ kind[r] = "script" => ScriptPlace(t, at, c)
      BY <1>1, <3>1 DEF ScriptPlace
    <3>3. \A at, c : BatchPlace(stage[r], at, c) => BatchPlace(t, at, c)
      BY <1>1, <3>1 DEF BatchPlace, Asking
    <3>4. \A at, c, d : BatchData(stage[r], at, c, d) => BatchData(t, at, c, d)
      BY <1>1 DEF BatchData
    <3>5. \A at, c, k, d : TxHolds(t, at, c, k, d) => TxHolds(stage[r], at, c, k, d)
      BY <1>1 DEF TxHolds
    <3> QED BY <2>2, <3>1, <3>2, <3>3, <3>4, <3>5 DEF DropAsker, HolderPlace, TxPlace, RowsOf, serverVars
  <2> QED BY <2>1, <2>2
<1>5. LinkPlace'
  BY LinkStands DEF DropAsker
<1>6. AllWhole'
  BY <1>1, TalkIsWhole DEF DropAsker, Asking, serverVars
<1> QED BY <1>2, <1>3, <1>4, <1>5, <1>6

LEMMA HearKeeps == ASSUME MySqlInv, NEW r \in Requests, HearNothing(r) PROVE MySqlInv'
<1> USE DEF MySqlInv, MySqlPlaces
<1>1. AskerTypes'
  BY DEF HearNothing, AskerTypes, Becomes, Asking
<1>2. ActorTypes' /\ DataTypes'
  BY DEF HearNothing, ActorTypes, DataTypes, serverVars, resultVars
<1>3. HolderPlace' /\ TxPlace'
  BY HolderStands DEF HearNothing, Becomes, AskerTypes
<1>4. LinkPlace'
  BY LinkStands DEF HearNothing
<1>5. AllWhole'
  BY TalkIsWhole DEF HearNothing, serverVars
<1> QED BY <1>1, <1>2, <1>3, <1>4, <1>5

\* The channel, and who is there.
LEMMA HolderTypes ==
    ASSUME MySqlInv
    PROVE  /\ channel \in {<<>>} \cup {<<c>> : c \in Commands} /\ CommandSent(channel) \in Commands \cup {"nothing"}
           /\ CommandSent(channel) = "nothing" <=> channel = <<>>
           /\ \A c \in Commands : CommandSent(channel) = c <=> channel = <<c>>
           /\ holder # 0 <=> actor.at # "none"
<1>1. channel \in {<<>>} \cup {<<c>> : c \in Commands}
  BY DEF MySqlInv, ActorTypes
<1>2. holder # 0 => actor.at # "none"
  BY DEF MySqlInv, MySqlPlaces, HolderPlace, ScriptPlace, BatchPlace
<1>3. holder = 0 => actor.at = "none"
  BY DEF MySqlInv, ActorTypes, NoActor
<1>4. CASE channel = <<>>
  BY <1>2, <1>3, <1>4, OneCommand
<1>5. CASE channel # <<>>
  <2>1. PICK c \in Commands : channel = <<c>>
    BY <1>1, <1>5
  <2>2. channel # <<>> /\ CommandSent(channel) = c /\ c # "nothing"
    BY <2>1, OneCommand
  <2> QED BY <1>1, <1>2, <1>3, <2>1, <2>2, OneCommand
<1> QED BY <1>4, <1>5

LEMMA NextKeeps == ASSUME MySqlInv, NEW r \in Requests, NextMutation(r) PROVE MySqlInv'
<1> USE DEF MySqlInv, MySqlPlaces
<1> DEFINE d == done[r]
           at == actor.at
<1>1. /\ r = holder /\ kind[r] = "batch" /\ kind' = kind /\ r # 0 /\ d \in 0 .. Mutations /\ Mutations \in Nat \ {0}
      /\ BatchPlace(stage[r], at, CommandSent(channel)) /\ BatchData(stage[r], at, CommandSent(channel), d)
  BY Somebody, MySqlAssumption DEF NextMutation, HolderPlace, AskerTypes
<1>2. CASE stage[r] = "told" /\ done' = [done EXCEPT ![r] = @ + 1] /\ Becomes(r, "free") /\ UNCHANGED channel
  <2>1. d < Mutations /\ at = "recv" /\ CommandSent(channel) = "nothing"
    BY <1>1, <1>2 DEF BatchPlace, BatchData
  <2>2. stage'[r] = "free" /\ done'[r] = d + 1
    BY <1>2 DEF Becomes, AskerTypes
  <2>3. AskerTypes'
    BY <1>1, <1>2, <2>1 DEF NextMutation, AskerTypes, Becomes, Asking
  <2>4. BatchPlace("free", at, CommandSent(channel)) /\ BatchData("free", at, CommandSent(channel), d + 1)
    BY <2>1 DEF BatchPlace, BatchData
  <2>5. \A k \in 0 .. Mutations : TxHolds("free", at, CommandSent(channel), k, d + 1) => TxHolds("told", at, CommandSent(channel), k, d)
    BY <2>1 DEF TxHolds
  <2>6. HolderPlace'
    BY <1>1, <1>2, <2>2, <2>4 DEF NextMutation, HolderPlace
  <2>7. TxPlace'
    BY <1>1, <1>2, <2>2, <2>5 DEF NextMutation, TxPlace, serverVars, RowsOf
  <2>8. ActorTypes' /\ DataTypes'
    BY <1>2 DEF NextMutation, ActorTypes, DataTypes, serverVars, resultVars
  <2>9. LinkPlace' /\ AllWhole'
    BY <1>2, LinkStands, TalkIsWhole DEF NextMutation, serverVars
  <2> QED BY <2>3, <2>6, <2>7, <2>8, <2>9
<1>3. CASE /\ stage[r] = "free" /\ UNCHANGED done
           /\ Send(r, IF done[r] < Mutations THEN "execute" ELSE "commit", "asking")
  <2> DEFINE c == IF d < Mutations THEN "execute" ELSE "commit"
  <2>1. CommandSent(channel) = "nothing" /\ channel = <<>> /\ at \in {"open", "refuse", "recv"} /\ (at # "recv" => d = 0)
    BY <1>1, <1>3, HolderTypes DEF BatchPlace, BatchData
  <2>2. stage'[r] = "asking" /\ Becomes(r, "asking")
    BY <1>3 DEF Send, Becomes, AskerTypes
  <2>3. c \in Commands /\ channel' = <<c>> /\ CommandSent(channel') = c
    BY <1>3, <2>1, OneCommand DEF Send, Commands
  <2>4. AskerTypes'
    BY <1>3, <2>2 DEF NextMutation, AskerTypes, Becomes, Asking
  <2>5. BatchPlace("asking", at, c) /\ BatchData("asking", at, c, d)
    BY <1>1, <2>1 DEF BatchPlace, BatchData
  <2>6. \A k \in 0 .. Mutations : TxHolds("asking", at, c, k, d) => TxHolds("free", at, "nothing", k, d)
    BY <1>1, <2>1 DEF TxHolds
  <2>7. HolderPlace'
    BY <1>1, <1>3, <2>2, <2>3, <2>5 DEF NextMutation, HolderPlace
  <2>8. TxPlace'
    BY <1>1, <1>3, <2>1, <2>2, <2>3, <2>6 DEF NextMutation, TxPlace, serverVars, RowsOf
  <2>9. ActorTypes' /\ DataTypes'
    BY <1>3, <2>3 DEF NextMutation, ActorTypes, DataTypes, serverVars, resultVars
  <2>10. LinkPlace' /\ AllWhole'
    BY <1>3, <2>2, LinkStands, TalkIsWhole DEF NextMutation, serverVars
  <2> QED BY <2>4, <2>7, <2>8, <2>9, <2>10
<1> QED BY <1>2, <1>3 DEF NextMutation

LEMMA UndoKeeps == ASSUME MySqlInv, NEW r \in Requests, Undo(r) PROVE MySqlInv'
<1> USE DEF MySqlInv, MySqlPlaces
<1>1. CASE holder # r
  <2>1. Becomes(r, "failed") /\ channel' = channel
    BY <1>1 DEF Undo
  <2>2. AskerTypes'
    BY <2>1 DEF Undo, AskerTypes, Becomes, Asking
  <2>3. ActorTypes' /\ DataTypes'
    BY <2>1 DEF Undo, ActorTypes, DataTypes, serverVars, resultVars
  <2>4. HolderPlace' /\ TxPlace'
    BY <1>1, <2>1, HolderStands DEF Undo, Becomes, AskerTypes
  <2>5. LinkPlace' /\ AllWhole'
    BY <2>1, LinkStands, TalkIsWhole DEF Undo, serverVars
  <2> QED BY <2>2, <2>3, <2>4, <2>5
<1>2. CASE holder = r
  <2> DEFINE at == actor.at
  <2>1. /\ kind[r] = "batch" /\ kind' = kind /\ r # 0 /\ stage[r] \in {"told", "refused", "cursor"}
        /\ BatchPlace(stage[r], at, CommandSent(channel)) /\ BatchData(stage[r], at, CommandSent(channel), done[r])
    BY <1>2, Somebody DEF Undo, HolderPlace
  <2>2. CommandSent(channel) = "nothing" /\ channel = <<>> /\ at \in {"refuse", "recv", "stream"}
    BY <2>1, HolderTypes DEF BatchPlace
  <2>3. Becomes(r, "undoing") /\ stage'[r] = "undoing"
    BY <1>2 DEF Undo, Send, Becomes, AskerTypes
  <2>4. "rollback" \in Commands /\ channel' = <<"rollback">> /\ CommandSent(channel') = "rollback"
    BY <1>2, <2>2, OneCommand DEF Undo, Send, Commands
  <2>5. AskerTypes'
    BY <2>3 DEF Undo, AskerTypes, Becomes, Asking
  <2>6. BatchPlace("undoing", at, "rollback") /\ BatchData("undoing", at, "rollback", done[r])
    BY <2>1, <2>2 DEF BatchPlace, BatchData
  <2>7. \A k : ~TxHolds("undoing", at, "rollback", k, done[r])
    BY <2>2 DEF TxHolds
  <2>8. HolderPlace' /\ TxPlace'
    BY <1>2, <2>1, <2>3, <2>4, <2>6, <2>7 DEF Undo, HolderPlace, TxPlace, serverVars, RowsOf
  <2>9. ActorTypes' /\ DataTypes'
    BY <2>4 DEF Undo, ActorTypes, DataTypes, serverVars, resultVars
  <2>10. LinkPlace' /\ AllWhole'
    BY <2>1, <2>3, LinkStands, TalkIsWhole DEF Undo, serverVars
  <2> QED BY <2>5, <2>8, <2>9, <2>10
<1> QED BY <1>1, <1>2

LEMMA FetchKeeps == ASSUME MySqlInv, NEW r \in Requests, Fetch(r) PROVE MySqlInv'
<1> USE DEF MySqlInv, MySqlPlaces
<1>1. PICK c \in {"fetch", "close"}, s \in {"asking", "ok"} : Send(r, c, s)
  BY DEF Fetch
<1>2. /\ kind[r] = "script" /\ kind' = kind /\ r # 0 /\ holder = r /\ stage[r] = "cursor"
      /\ ScriptPlace("cursor", actor.at, CommandSent(channel))
  BY Somebody DEF Fetch, HolderPlace
<1>3. channel = <<>> /\ actor.at = "stream"
  BY <1>2, HolderTypes DEF ScriptPlace
<1>4. Becomes(r, s) /\ stage'[r] = s
  BY <1>1 DEF Send, Becomes, AskerTypes
<1>5. c \in Commands /\ channel' = <<c>> /\ CommandSent(channel') = c
  BY <1>1, <1>3, OneCommand DEF Send, Commands
<1>6. AskerTypes'
  BY <1>4 DEF Fetch, AskerTypes, Becomes, Asking
<1>7. ScriptPlace(s, "stream", c)
  BY DEF ScriptPlace
<1>8. HolderPlace' /\ TxPlace'
  BY <1>2, <1>3, <1>4, <1>5, <1>7 DEF Fetch, HolderPlace, TxPlace
<1>9. ActorTypes' /\ DataTypes'
  BY <1>5 DEF Fetch, ActorTypes, DataTypes, serverVars, resultVars
<1>10. LinkPlace' /\ AllWhole'
  BY <1>2, <1>4, LinkStands, TalkIsWhole DEF Fetch, serverVars
<1> QED BY <1>6, <1>8, <1>9, <1>10

LEMMA ShutKeeps == ASSUME MySqlInv, Shut PROVE MySqlInv'
<1> USE DEF MySqlInv, MySqlPlaces
<1>1. AskerTypes' /\ ActorTypes' /\ DataTypes'
  BY DEF Shut, AskerTypes, ActorTypes, DataTypes, askerVars, resultVars
<1>2. HolderPlace' /\ TxPlace' /\ LinkPlace'
  BY FreeLink DEF Shut, HolderPlace, TxPlace, LinkPlace, askerVars, resultVars
<1>3. AllWhole'
  BY WholeStands DEF Shut, AllWhole, askerVars
<1> QED BY <1>1, <1>2, <1>3

LEMMA BreakKeeps == ASSUME MySqlInv, Breaks PROVE MySqlInv'
<1> USE DEF MySqlInv, MySqlPlaces
<1>1. AskerTypes' /\ ActorTypes' /\ DataTypes'
  BY DEF Breaks, AskerTypes, ActorTypes, DataTypes, askerVars, resultVars
<1>2. HolderPlace' /\ TxPlace'
  BY DEF Breaks, HolderPlace, TxPlace, askerVars
<1>3. LinkPlace'
  BY DEF Breaks, LinkPlace, askerVars
<1>4. AllWhole'
  BY WholeStands DEF Breaks, AllWhole, askerVars
<1> QED BY <1>1, <1>2, <1>3, <1>4

----------------------------------------------------------------------------
(* The actor's steps. *)

\* What an actor at work can count on.
LEMMA HolderFacts ==
    ASSUME MySqlInv, actor.at # "none"
    PROVE  /\ holder # 0 /\ holder \in Requests /\ done[holder] \in 0 .. Mutations
           /\ CommandSent(channel) \in Commands \cup {"nothing"}
           /\ IsBatch => /\ actor.timed = FALSE /\ BatchPlace(stage[holder], actor.at, CommandSent(channel))
                         /\ BatchData(stage[holder], actor.at, CommandSent(channel), done[holder])
           /\ ~IsBatch => kind[holder] = "script" /\ ScriptPlace(stage[holder], actor.at, CommandSent(channel))
<1>1. holder # 0 /\ holder \in Requests /\ CommandSent(channel) \in Commands \cup {"nothing"}
  BY HolderTypes, HolderIsOut
<1>2. IsBatch => actor.timed = FALSE
  BY DEF MySqlInv, MySqlPlaces, LinkPlace, ActorTypes, IsBatch
<1> QED BY <1>1, <1>2 DEF MySqlInv, MySqlPlaces, HolderPlace, AskerTypes, IsBatch

\* What the actor takes from the channel was all there was in it.
LEMMA OneRequestServed ==
    ASSUME MySqlInv, channel # <<>>
    PROVE  /\ Head(channel) \in Commands /\ CommandSent(channel) = Head(channel)
           /\ Tail(channel) = <<>> /\ CommandSent(Tail(channel)) = "nothing" /\ CommandSent(channel) # "nothing"
<1>1. PICK x \in Commands : channel = <<x>>
  BY HolderTypes
<1> QED BY <1>1, OneCommand

\* The lock is given back.
LEMMA FreesKeeps == ASSUME Frees PROVE ActorTypes' /\ HolderPlace' /\ TxPlace' /\ actor'.timed = FALSE
BY DEF Frees, ActorTypes, HolderPlace, TxPlace, NoActor, ActorLabels

\* The lock is given back, and the connection given up.
LEMMA PoisonsKeeps ==
    ASSUME MySqlInv, conn # "up", Poisons, doubtful' = doubtful
    PROVE  ActorTypes' /\ DataTypes' /\ HolderPlace' /\ TxPlace' /\ LinkPlace'
<1>1. ActorTypes' /\ HolderPlace' /\ TxPlace' /\ actor'.timed = FALSE
  BY FreesKeeps DEF Poisons
<1>2. DataTypes'
  BY DEF MySqlInv, DataTypes, Poisons, serverVars
<1>3. LinkPlace'
  BY <1>1 DEF MySqlInv, MySqlPlaces, LinkPlace, Poisons, serverVars
<1> QED BY <1>1, <1>2, <1>3

\* The actor goes on at label l.
LEMMA HolderGoes ==
    ASSUME MySqlInv, holder # 0, holder' = holder, NEW l \in ActorLabels \ {"none"}, NEW b \in BOOLEAN,
           actor' = [at |-> l, timed |-> b], channel' = <<>> \/ (\E c \in Commands : channel' = <<c>>)
    PROVE  ActorTypes' /\ actor'.at = l /\ actor'.timed = b
BY DEF MySqlInv, ActorTypes, NoActor

\* The same by way of the reset of a deadline.
LEMMA GoesOn ==
    ASSUME MySqlInv, holder # 0, holder' = holder, NEW l \in ActorLabels \ {"none"}, AndThen(l),
           channel' = <<>> \/ (\E c \in Commands : channel' = <<c>>)
    PROVE  /\ ActorTypes' /\ actor'.at = (IF actor.timed THEN "reset" ELSE l)
           /\ actor'.timed = actor.timed
<1>1. actor.timed \in BOOLEAN
  BY DEF MySqlInv, ActorTypes
<1>2. CASE actor.timed = TRUE
  <2>1. "reset" \in ActorLabels \ {"none"} /\ actor' = [at |-> "reset", timed |-> TRUE]
    BY <1>2 DEF AndThen, ActorLabels
  <2> QED BY <1>2, <2>1, HolderGoes
<1>3. CASE actor.timed = FALSE
  <2>1. actor' = [at |-> l, timed |-> FALSE]
    BY <1>3 DEF AndThen, Untimed
  <2> QED BY <1>3, <2>1, HolderGoes
<1> QED BY <1>1, <1>2, <1>3

\* The asker hears the answer s if it waits for one.
LEMMA HearsKeeps ==
    ASSUME MySqlInv, holder # 0, NEW s \in {"ok", "failed", "told", "refused", "cursor"}, Hears(s),
           UNCHANGED <<kind, done>>
    PROVE  /\ AskerTypes' /\ \A p \in Requests : p # holder => stage'[p] = stage[p]
           /\ stage'[holder] = (IF stage[holder] \in {"asking", "undoing"} THEN s ELSE stage[holder])
<1>1. holder \in Requests
  BY HolderIsOut
<1> QED BY <1>1 DEF MySqlInv, AskerTypes, Hears, Asking

LEMMA HeardIsWhole ==
    ASSUME MySqlInv, holder # 0, holder' \in {0, holder},
           NEW s \in {"ok", "failed", "told", "refused", "cursor"}, Hears(s),
           UNCHANGED <<kind, done, committed, doubtful>>, s # "ok" \/ ~IsBatch
    PROVE  AllWhole'
<1> SUFFICES ASSUME NEW p \in Requests PROVE BatchWhole(p)'
  BY DEF AllWhole
<1>1. stage'[p] = stage[p] \/ (p = holder /\ stage[p] \in {"asking", "undoing"} /\ stage'[p] = s)
  BY HearsKeeps
<1>2. holder' # p \/ holder = p
  BY Somebody
<1> QED BY <1>1, <1>2, WholeStands DEF MySqlInv, MySqlPlaces, AllWhole, IsBatch

\* A step of the actor that nobody hears of.
LEMMA QuietIsWhole ==
    ASSUME MySqlInv, holder' \in {0, holder}, UNCHANGED <<askerVars, committed, doubtful>>
    PROVE  AskerTypes' /\ AllWhole'
<1>1. AskerTypes'
  BY DEF MySqlInv, AskerTypes, askerVars
<1>2. AllWhole'
  BY Somebody, WholeStands DEF MySqlInv, MySqlPlaces, AllWhole, askerVars
<1> QED BY <1>1, <1>2

\* The places of a batch's next state, and of a script's.
LEMMA BatchGoes ==
    ASSUME MySqlInv, holder # 0, holder' = holder, IsBatch, UNCHANGED <<kind, done>>,
           BatchPlace(stage'[holder], actor'.at, CommandSent(channel')),
           BatchData(stage'[holder], actor'.at, CommandSent(channel'), done[holder]),
           uncommitted' \subseteq RowsOf(holder),
           conn' = "up" => \A k \in 0 .. Mutations :
              TxHolds(stage'[holder], actor'.at, CommandSent(channel'), k, done[holder])
                => InTx(holder, k, serverTx', uncommitted')
    PROVE  HolderPlace' /\ TxPlace'
BY DEF HolderPlace, TxPlace, IsBatch, RowsOf

LEMMA ScriptGoes ==
    ASSUME MySqlInv, holder # 0, holder' = holder, ~IsBatch, UNCHANGED kind,
           ScriptPlace(stage'[holder], actor'.at, CommandSent(channel'))
    PROVE  HolderPlace' /\ TxPlace'
BY DEF MySqlInv, MySqlPlaces, HolderPlace, TxPlace, IsBatch

LEMMA OpenKeeps == ASSUME MySqlInv, OpenTransaction PROVE MySqlInv'
<1> USE DEF MySqlInv, MySqlPlaces
<1> DEFINE s == stage[holder]
           c == CommandSent(channel)
           d == done[holder]
<1>1. /\ holder # 0 /\ actor.timed = FALSE /\ IsBatch /\ d \in 0 .. Mutations
      /\ BatchPlace(s, "open", c) /\ BatchData(s, "open", c, d)
  BY HolderFacts DEF OpenTransaction, ScriptPlace
<1>2. /\ UNCHANGED <<askerVars, holder, channel, conn, uncommitted, committed, resultVars, doubtful>>
      /\ d = 0
  BY <1>1 DEF OpenTransaction, BatchData
<1>3. AskerTypes' /\ AllWhole'
  BY <1>2, QuietIsWhole
<1>4. PICK l \in {"recv", "refuse"} : actor' = Untimed(l) /\ (l = "recv" => conn = "up" /\ serverTx' = "the_drivers")
                                      /\ (l = "refuse" => serverTx' = serverTx)
  BY DEF OpenTransaction
<1>5. ActorTypes' /\ actor'.at = l /\ actor'.timed = FALSE
  <2>1. channel' = <<>> \/ \E x \in Commands : channel' = <<x>>
    BY <1>2, HolderTypes
  <2> QED BY <1>1, <1>2, <1>4, <2>1, HolderGoes DEF Untimed, ActorLabels
<1>6. DataTypes' /\ uncommitted = {}
  BY <1>1, <1>2, <1>4 DEF DataTypes, resultVars, LinkPlace, OpenTransaction
<1>7. LinkPlace'
  BY <1>1, <1>2, <1>4, <1>5, <1>6 DEF LinkPlace, resultVars, askerVars, IsBatch, OpenTransaction
<1>8. BatchPlace(s, l, c) /\ BatchData(s, l, c, d)
  BY <1>1 DEF BatchPlace, BatchData
<1>9. {holder} \X (1 .. 0) = {}
  OBVIOUS
<1>10. \A k \in 0 .. Mutations : TxHolds(s, l, c, k, d) => k = 0 /\ l = "recv"
  BY <1>1, <1>2 DEF TxHolds, BatchPlace
<1>11. HolderPlace' /\ TxPlace'
  BY <1>1, <1>2, <1>4, <1>5, <1>6, <1>8, <1>9, <1>10, BatchGoes DEF askerVars, InTx
<1> QED BY <1>3, <1>5, <1>6, <1>7, <1>11

LEMMA RefuseKeeps == ASSUME MySqlInv, RefuseAll PROVE MySqlInv'
<1> USE DEF MySqlInv, MySqlPlaces
<1> DEFINE s == stage[holder]
           c == CommandSent(channel)
           d == done[holder]
<1>1. /\ holder # 0 /\ IsBatch /\ BatchPlace(s, "refuse", c) /\ BatchData(s, "refuse", c, d)
      /\ kind' = kind /\ done' = done /\ doubtful' = doubtful
  BY HolderFacts DEF RefuseAll, ScriptPlace
<1> DEFINE x == IF Head(channel) = "rollback" THEN "failed" ELSE "refused"
<1>2. CASE /\ channel # <<>> /\ channel' = Tail(channel) /\ Hears(x)
           /\ UNCHANGED <<holder, actor, conn, serverVars, resultVars>>
  <2> x \in {"failed", "refused"} /\ (c = "rollback" <=> x = "failed")
    BY <1>2 DEF CommandSent
  <2> HIDE DEF x
  <2>1. channel' = <<>> /\ CommandSent(channel') = "nothing" /\ c # "nothing"
    BY <1>2, OneRequestServed
  <2>2. /\ AskerTypes'
        /\ stage'[holder] = IF s \in {"asking", "undoing"} THEN x ELSE s
    BY <1>1, <1>2, HearsKeeps
  <2>3. AllWhole'
    BY <1>1, <1>2, HeardIsWhole DEF serverVars
  <2>4. ActorTypes' /\ DataTypes'
    BY <1>1, <1>2, <2>1 DEF ActorTypes, DataTypes, serverVars, resultVars
  <2>5. LinkPlace'
    BY <1>1, <1>2, LinkStands
  <2>6. BatchPlace(stage'[holder], "refuse", "nothing") /\ BatchData(stage'[holder], "refuse", "nothing", d)
    BY <1>1, <2>1, <2>2 DEF BatchPlace, BatchData
  <2>7. \A k : ~TxHolds(stage'[holder], "refuse", "nothing", k, d)
    BY <2>6 DEF TxHolds, BatchPlace
  <2>8. HolderPlace' /\ TxPlace'
    BY <1>1, <1>2, <2>1, <2>6, <2>7, BatchGoes DEF RefuseAll, TxPlace, IsBatch, serverVars
  <2> QED BY <2>2, <2>3, <2>4, <2>5, <2>8
<1>3. CASE /\ NobodyAsks /\ UNCHANGED stage
           /\ IF conn = "up" THEN Frees /\ UNCHANGED <<conn, serverVars, resultVars>> ELSE Poisons
  <2>1. AskerTypes' /\ AllWhole'
    BY <1>1, <1>3, QuietIsWhole DEF askerVars, Frees, Poisons, serverVars
  <2>2. CASE conn = "up"
    <3>1. ActorTypes' /\ HolderPlace' /\ TxPlace' /\ actor'.timed = FALSE
      BY <1>3, <2>2, FreesKeeps
    <3>2. LinkPlace' /\ DataTypes'
      <4>1. /\ uncommitted = {} /\ serverTx # "the_drivers" /\ unread # TRUE /\ (deadline # TRUE \/ spoiled = TRUE)
        BY <1>1, <2>2, HolderFacts DEF RefuseAll, LinkPlace
      <4> QED BY <1>1, <1>3, <2>2, <3>1, <4>1 DEF LinkPlace, DataTypes, serverVars, resultVars
    <3> QED BY <2>1, <3>1, <3>2
  <2>3. CASE conn # "up"
    BY <1>1, <1>3, <2>1, <2>3, PoisonsKeeps
  <2> QED BY <2>2, <2>3
<1> QED BY <1>2, <1>3 DEF RefuseAll

LEMMA TakeKeeps == ASSUME MySqlInv, TakeCommand PROVE MySqlInv'
<1> USE DEF MySqlInv, MySqlPlaces
<1> DEFINE s == stage[holder]
           c == CommandSent(channel)
           d == done[holder]
<1>1. /\ holder # 0 /\ holder \in Requests /\ d \in 0 .. Mutations
      /\ UNCHANGED <<askerVars, holder, conn, serverVars, resultVars, doubtful>>
      /\ IsBatch => BatchPlace(s, "recv", c) /\ BatchData(s, "recv", c, d)
      /\ ~IsBatch => ScriptPlace(s, "recv", c)
  BY HolderFacts DEF TakeCommand
<1>2. AskerTypes' /\ AllWhole'
  BY <1>1, QuietIsWhole DEF serverVars
<1>3. PICK l \in ActorLabels \ {"none"} :
         /\ actor' = Untimed(l) /\ channel' = <<>> /\ CommandSent(channel') = "nothing"
         /\ (l = c /\ c # "nothing") \/ (l = "end" /\ c = "nothing" /\ s \notin Asking)
  <2>1. CASE channel # <<>> /\ channel' = Tail(channel) /\ actor' = Untimed(Head(channel))
    <3>1. PICK x \in Commands : channel = <<x>>
      BY <2>1, HolderTypes
    <3>2. c = x /\ Head(channel) = x /\ channel' = <<>> /\ x # "nothing"
      BY <2>1, <3>1, OneCommand
    <3>3. x \in ActorLabels \ {"none"}
      BY <1>1, <3>2 DEF BatchPlace, ScriptPlace, ActorLabels
    <3> QED BY <2>1, <3>2, <3>3, OneCommand
  <2>2. CASE NobodyAsks /\ actor' = Untimed("end") /\ UNCHANGED channel
    BY <2>2, OneCommand DEF NobodyAsks, ActorLabels
  <2> QED BY <2>1, <2>2 DEF TakeCommand
<1>4. ActorTypes' /\ actor'.at = l /\ actor'.timed = FALSE
  BY <1>1, <1>3, HolderGoes DEF Untimed
<1>5. DataTypes'
  BY <1>1 DEF DataTypes, serverVars, resultVars
<1>6. LinkPlace'
  <2>1. actor.timed # TRUE /\ actor.at = "recv"
    BY DEF TakeCommand, LinkPlace
  <2>2. l \notin {"open", "refuse"}
    BY <1>1, <1>3 DEF BatchPlace, ScriptPlace
  <2> QED BY <1>1, <1>4, <2>1, <2>2 DEF LinkPlace, serverVars, resultVars, askerVars
<1>7. CASE IsBatch
  <2>1. BatchPlace(s, l, "nothing") /\ BatchData(s, l, "nothing", d)
    BY <1>1, <1>3, <1>7 DEF BatchPlace, BatchData, Asking
  <2>2. \A k \in 0 .. Mutations : TxHolds(s, l, "nothing", k, d) => TxHolds(s, "recv", c, k, d)
    BY <1>1, <1>3, <1>7 DEF TxHolds, BatchPlace
  <2>3. HolderPlace' /\ TxPlace'
    BY <1>1, <1>3, <1>4, <1>7, <2>1, <2>2, BatchGoes DEF TakeCommand, TxPlace, IsBatch, askerVars, serverVars
  <2> QED BY <1>2, <1>4, <1>5, <1>6, <2>3
<1>8. CASE ~IsBatch
  <2>1. ScriptPlace(s, l, "nothing")
    BY <1>1, <1>3, <1>8 DEF ScriptPlace
  <2>2. HolderPlace' /\ TxPlace'
    BY <1>1, <1>3, <1>4, <1>8, <2>1, ScriptGoes DEF askerVars
  <2> QED BY <1>2, <1>4, <1>5, <1>6, <2>2
<1> QED BY <1>7, <1>8

LEMMA DeadlineKeeps == ASSUME MySqlInv, SetDeadline PROVE MySqlInv'
<1> USE DEF MySqlInv, MySqlPlaces
<1> DEFINE s == stage[holder]
           c == CommandSent(channel)
           d == done[holder]
<1>1. /\ holder # 0 /\ holder \in Requests /\ d \in 0 .. Mutations /\ actor.at = "execute" /\ actor.timed = FALSE
      /\ UNCHANGED <<kind, done, holder, channel, conn, serverVars, unread, spoiled, doubtful>>
      /\ IsBatch => BatchPlace(s, "execute", c) /\ BatchData(s, "execute", c, d)
      /\ ~IsBatch => ScriptPlace(s, "execute", c)
  BY HolderFacts DEF SetDeadline, LinkPlace, ActorTypes
<1>2. channel = <<>> /\ channel' = <<>> /\ c = "nothing"
  BY <1>1, HolderTypes DEF BatchPlace, ScriptPlace
<1>3. DataTypes'
  BY <1>1 DEF SetDeadline, DataTypes, serverVars
<1>4. CASE actor' = Untimed("run") /\ UNCHANGED <<stage, deadline>>
  <2>1. ActorTypes' /\ actor'.at = "run" /\ actor'.timed = FALSE
    BY <1>1, <1>2, <1>4, HolderGoes DEF Untimed, ActorLabels
  <2>2. AskerTypes' /\ AllWhole'
    BY <1>1, <1>4, QuietIsWhole DEF serverVars, askerVars
  <2>3. LinkPlace'
    BY <1>1, <1>4, <2>1 DEF LinkPlace, serverVars
  <2>4. CASE IsBatch
    <3>1. BatchPlace(s, "run", c) /\ BatchData(s, "run", c, d)
      BY <1>1, <2>4 DEF BatchPlace, BatchData
    <3>2. \A k \in 0 .. Mutations : TxHolds(s, "run", c, k, d) => TxHolds(s, "execute", c, k, d)
      BY DEF TxHolds
    <3>3. HolderPlace' /\ TxPlace'
      BY <1>1, <1>4, <2>1, <2>4, <3>1, <3>2, BatchGoes DEF TxPlace, IsBatch, serverVars
    <3> QED BY <1>3, <2>1, <2>2, <2>3, <3>3
  <2>5. CASE ~IsBatch
    <3>1. ScriptPlace(s, "run", c)
      BY <1>1, <2>5 DEF ScriptPlace
    <3> QED BY <1>1, <1>3, <1>4, <2>1, <2>2, <2>3, <2>5, <3>1, ScriptGoes
  <2> QED BY <2>4, <2>5
<1>5. CASE /\ ~IsBatch /\ conn = "up"
           /\ actor' = [at |-> "run", timed |-> TRUE] /\ deadline' = TRUE /\ UNCHANGED stage
  <2>1. ActorTypes' /\ actor'.at = "run" /\ actor'.timed = TRUE
    BY <1>1, <1>2, <1>5, HolderGoes DEF ActorLabels
  <2>2. AskerTypes' /\ AllWhole'
    BY <1>1, <1>5, QuietIsWhole DEF serverVars, askerVars
  <2>3. LinkPlace'
    BY <1>1, <1>5, <2>1 DEF LinkPlace, serverVars, IsBatch
  <2>4. ScriptPlace(s, "run", c)
    BY <1>1, <1>5 DEF ScriptPlace
  <2> QED BY <1>1, <1>3, <1>5, <2>1, <2>2, <2>3, <2>4, ScriptGoes
<1>6. CASE ~IsBatch /\ conn = "up" /\ Hears("failed") /\ Continues /\ UNCHANGED deadline
  <2>1. ActorTypes' /\ actor'.at = "end" /\ actor'.timed = FALSE
    BY <1>1, <1>2, <1>6, GoesOn DEF Continues, ActorLabels
  <2>2. AskerTypes' /\ AllWhole' /\ stage'[holder] = IF s \in {"asking", "undoing"} THEN "failed" ELSE s
    BY <1>1, <1>6, HearsKeeps, HeardIsWhole DEF serverVars
  <2>3. LinkPlace'
    BY <1>1, <1>6, <2>1 DEF LinkPlace, serverVars, IsBatch
  <2>4. ScriptPlace(stage'[holder], "end", c)
    BY <1>1, <1>6, <2>2 DEF ScriptPlace
  <2> QED BY <1>1, <1>3, <1>6, <2>1, <2>2, <2>3, <2>4, ScriptGoes
<1> QED BY <1>4, <1>5, <1>6 DEF SetDeadline

LEMMA OneRowMore == \A h, e, A : {h} \X (A \cup {e}) = ({h} \X A) \cup {<<h, e>>}
OBVIOUS

\* A statement of a batch changes the batch's transaction, by the row that comes next.
LEMMA AffectsBatch ==
    ASSUME MySqlInv, actor.at = "run", conn = "up", IsBatch, Affects
    PROVE  /\ DataTypes => /\ committed' = committed /\ serverTx' = "the_drivers"
                           /\ uncommitted' = {holder} \X (1 .. done[holder] + 1) /\ uncommitted' \subseteq RowsOf(holder)
           /\ done[holder] + 1 \in 1 .. Mutations
<1> DEFINE d == done[holder]
<1>1. /\ holder # 0 /\ holder \in Requests /\ d \in 0 .. Mutations /\ d < Mutations /\ Mutations \in Nat
  BY HolderFacts, MySqlAssumption DEF BatchData
<1>2. serverTx = "the_drivers" /\ uncommitted = {holder} \X (1 .. d)
  <2>1. TxHolds(stage[holder], actor.at, CommandSent(channel), d, d)
    BY DEF TxHolds
  <2> QED BY <1>1, <2>1 DEF MySqlInv, MySqlPlaces, TxPlace, InTx, IsBatch
<1>3. committed' = committed /\ serverTx' = "the_drivers" /\ uncommitted' = uncommitted \cup {<<holder, d + 1>>}
  BY <1>2 DEF Affects
<1>4. 1 .. d + 1 = (1 .. d) \cup {d + 1} /\ 1 .. d + 1 \subseteq 1 .. Mutations
  BY <1>1
<1>5. uncommitted' = {holder} \X (1 .. d + 1)
  <2>1. {holder} \X ((1 .. d) \cup {d + 1}) = ({holder} \X (1 .. d)) \cup {<<holder, d + 1>>}
    BY OneRowMore
  <2> HIDE DEF d
  <2> QED BY <1>2, <1>3, <1>4, <2>1, Zenon
<1> QED BY <1>1, <1>3, <1>4, <1>5 DEF RowsOf

LEMMA RunKeeps == ASSUME MySqlInv, Run PROVE MySqlInv'
<1> USE DEF MySqlInv, MySqlPlaces
<1> DEFINE s == stage[holder]
           c == CommandSent(channel)
           d == done[holder]
<1>1. /\ holder # 0 /\ holder \in Requests /\ d \in 0 .. Mutations /\ actor.at = "run"
      /\ UNCHANGED <<kind, done, doubtful>>
      /\ IsBatch => actor.timed = FALSE /\ BatchPlace(s, "run", c) /\ BatchData(s, "run", c, d)
      /\ ~IsBatch => ScriptPlace(s, "run", c)
  BY HolderFacts DEF Run
<1>2. channel = <<>> /\ c = "nothing"
  BY <1>1, HolderTypes DEF BatchPlace, ScriptPlace
<1>3. conn = "up" => unread # TRUE
  BY <1>1 DEF LinkPlace
<1>4. CASE /\ conn = "up" /\ Affects /\ UNCHANGED <<holder, channel, conn, deadline, spoiled>>
           /\ \/ Continues /\ Hears(IF IsBatch THEN "told" ELSE "ok") /\ unread' = unread
              \/ unread' = TRUE /\ actor' = [actor EXCEPT !.at = "stream"] /\ Hears("cursor")
  <2>1. PICK x \in {"told", "ok", "cursor"} : Hears(x) /\ (x = "ok" => ~IsBatch) /\ (x = "told" => IsBatch)
                                            /\ (x = "cursor" <=> actor'.at = "stream")
    <3>1. CASE Continues /\ Hears(IF IsBatch THEN "told" ELSE "ok")
      <4>1. actor'.at # "stream"
        BY <1>1, <1>2, <1>4, <3>1, GoesOn DEF Continues, ActorLabels
      <4> QED BY <3>1, <4>1
    <3>2. CASE actor' = [actor EXCEPT !.at = "stream"] /\ Hears("cursor")
      BY <3>2 DEF ActorTypes
    <3> QED BY <1>4, <3>1, <3>2
  <2>2. /\ ActorTypes' /\ actor'.timed = actor.timed
        /\ actor'.at = IF x = "cursor" THEN "stream" ELSE IF actor.timed THEN "reset" ELSE IF IsBatch THEN "recv" ELSE "end"
    <3>1. CASE Continues
      <4>1. (IF IsBatch THEN "recv" ELSE "end") \in ActorLabels \ {"none"}
        BY DEF ActorLabels
      <4>2. /\ ActorTypes' /\ actor'.timed = actor.timed
            /\ actor'.at = IF actor.timed THEN "reset" ELSE IF IsBatch THEN "recv" ELSE "end"
        BY <1>1, <1>2, <1>4, <3>1, <4>1, GoesOn DEF Continues
      <4>3. actor'.at # "stream"
        BY <4>2
      <4> QED BY <2>1, <4>2, <4>3
    <3>2. CASE actor' = [actor EXCEPT !.at = "stream"]
      <4>1. actor' = [at |-> "stream", timed |-> actor.timed] /\ actor.timed \in BOOLEAN
        BY <3>2 DEF ActorTypes
      <4>2. ActorTypes' /\ actor'.at = "stream" /\ actor'.timed = actor.timed
        BY <1>1, <1>2, <1>4, <4>1, HolderGoes DEF ActorLabels
      <4> QED BY <2>1, <4>2
    <3> QED BY <1>4, <3>1, <3>2
  <2>3. AskerTypes' /\ stage'[holder] = IF s \in {"asking", "undoing"} THEN x ELSE s
    BY <1>1, <2>1, HearsKeeps
  <2>4. unread' = TRUE => x = "cursor" \/ unread = TRUE
    <3>1. CASE unread' = unread
      BY <3>1
    <3>2. CASE actor' = [actor EXCEPT !.at = "stream"]
      <4>1. actor'.at = "stream"
        BY <3>2 DEF ActorTypes
      <4> QED BY <2>1, <4>1
    <3> QED BY <1>4, <3>1, <3>2
  <2>5. unread' \in BOOLEAN
    BY <1>4 DEF DataTypes
  <2>6. CASE IsBatch
    <3>1. /\ committed' = committed /\ serverTx' = "the_drivers" /\ uncommitted' = {holder} \X (1 .. d + 1)
          /\ uncommitted' \subseteq RowsOf(holder) /\ d + 1 \in 1 .. Mutations
      BY <1>1, <1>4, <2>6, AffectsBatch
    <3>2. DataTypes'
      BY <1>1, <1>4, <2>5, <3>1 DEF DataTypes, Rows, RowsOf
    <3>3. AllWhole'
      BY <1>1, <1>4, <2>1, <2>6, <3>1, HeardIsWhole
    <3>4. LinkPlace'
      BY <1>1, <1>3, <1>4, <2>2, <2>4, <2>6 DEF LinkPlace, IsBatch
    <3>5. BatchPlace(stage'[holder], actor'.at, c) /\ BatchData(stage'[holder], actor'.at, c, d)
      BY <1>1, <1>2, <2>1, <2>2, <2>3, <2>6 DEF BatchPlace, BatchData
    <3>6. \A k \in 0 .. Mutations : TxHolds(stage'[holder], actor'.at, c, k, d) => k = d + 1
      BY <1>1, <1>2, <2>1, <2>2, <2>3, <2>6 DEF BatchPlace, TxHolds
    <3>7. HolderPlace' /\ TxPlace'
      BY <1>1, <1>4, <2>6, <3>1, <3>5, <3>6, BatchGoes DEF InTx
    <3> QED BY <2>2, <2>3, <3>2, <3>3, <3>4, <3>7
  <2>7. CASE ~IsBatch
    <3>1. serverTx' \in {"none", "the_users"} /\ UNCHANGED <<uncommitted, committed>>
      BY <1>4, <2>7 DEF Affects
    <3>2. DataTypes'
      BY <1>1, <1>4, <2>5, <3>1 DEF DataTypes
    <3>3. AllWhole'
      BY <1>1, <1>4, <2>1, <2>7, <3>1, HeardIsWhole
    <3>4. LinkPlace'
      BY <1>1, <1>3, <1>4, <2>2, <2>4, <2>7, <3>1 DEF LinkPlace, IsBatch
    <3>5. ScriptPlace(stage'[holder], actor'.at, c)
      BY <1>1, <1>2, <2>1, <2>2, <2>3, <2>7 DEF ScriptPlace
    <3> QED BY <1>1, <1>4, <2>2, <2>3, <2>7, <3>2, <3>3, <3>4, <3>5, ScriptGoes
  <2> QED BY <2>6, <2>7
<1>5. CASE /\ conn = "up" /\ Continues /\ Hears(IF IsBatch THEN "refused" ELSE "failed")
           /\ \/ UNCHANGED serverVars
              \/ serverTx' = "none" /\ uncommitted' = {} /\ UNCHANGED committed
           /\ UNCHANGED <<holder, channel, conn, resultVars>>
  <2> DEFINE x == IF IsBatch THEN "refused" ELSE "failed"
             l == IF IsBatch THEN "recv" ELSE "end"
  <2>1. l \in ActorLabels \ {"none"} /\ x \in {"refused", "failed"} /\ Hears(x) /\ AndThen(l)
    BY <1>5 DEF ActorLabels, Continues
  <2>2. ActorTypes' /\ actor'.at = (IF actor.timed THEN "reset" ELSE l) /\ actor'.timed = actor.timed
    BY <1>1, <1>2, <1>5, <2>1, GoesOn
  <2>3. AskerTypes' /\ stage'[holder] = IF s \in {"asking", "undoing"} THEN x ELSE s
    BY <1>1, <2>1, HearsKeeps
  <2>4. /\ committed' = committed /\ uncommitted' \in {{}, uncommitted} /\ serverTx' \in {serverTx, "none"}
    BY <1>5 DEF serverVars
  <2>5. DataTypes'
    BY <1>1, <1>5, <2>4 DEF DataTypes, resultVars
  <2>6. AllWhole'
    BY <1>1, <1>5, <2>1, <2>4, HeardIsWhole
  <2>7. LinkPlace'
    BY <1>1, <1>3, <1>5, <2>2, <2>4 DEF LinkPlace, resultVars, IsBatch
  <2>8. CASE IsBatch
    <3>1. BatchPlace(stage'[holder], "recv", c) /\ BatchData(stage'[holder], "recv", c, d)
      BY <1>1, <1>2, <2>3, <2>8 DEF BatchPlace, BatchData
    <3>2. \A k : ~TxHolds(stage'[holder], "recv", c, k, d)
      BY <1>1, <1>2, <2>3, <2>8 DEF BatchPlace, TxHolds
    <3>3. uncommitted' \subseteq RowsOf(holder)
      BY <1>1, <2>4, <2>8 DEF TxPlace, IsBatch
    <3>4. actor'.at = "recv"
      BY <1>1, <2>2, <2>8
    <3> QED BY <1>1, <1>5, <2>2, <2>3, <2>5, <2>6, <2>7, <2>8, <3>1, <3>2, <3>3, <3>4, BatchGoes
  <2>9. CASE ~IsBatch
    <3>1. ScriptPlace(stage'[holder], actor'.at, c)
      BY <1>1, <1>2, <2>2, <2>3, <2>9 DEF ScriptPlace
    <3> QED BY <1>1, <1>5, <2>2, <2>3, <2>5, <2>6, <2>7, <2>9, <3>1, ScriptGoes
  <2> QED BY <2>8, <2>9
<1>6. CASE conn # "up" /\ Poisons /\ Hears(IF IsBatch THEN "refused" ELSE "failed")
  <2> DEFINE x == IF IsBatch THEN "refused" ELSE "failed"
  <2>1. x \in {"refused", "failed"} /\ Hears(x)
    BY <1>6
  <2>2. AskerTypes' /\ AllWhole'
    BY <1>1, <1>6, <2>1, HearsKeeps, HeardIsWhole DEF Poisons, Frees, serverVars
  <2> QED BY <1>1, <1>6, <2>2, PoisonsKeeps
<1>7. \/ /\ conn = "up" /\ Affects /\ UNCHANGED <<holder, channel, conn, deadline, spoiled>>
         /\ \/ Continues /\ Hears(IF IsBatch THEN "told" ELSE "ok") /\ unread' = unread
            \/ unread' = TRUE /\ actor' = [actor EXCEPT !.at = "stream"] /\ Hears("cursor")
      \/ /\ conn = "up" /\ Continues /\ Hears(IF IsBatch THEN "refused" ELSE "failed")
         /\ \/ UNCHANGED serverVars
            \/ serverTx' = "none" /\ uncommitted' = {} /\ UNCHANGED committed
         /\ UNCHANGED <<holder, channel, conn, resultVars>>
      \/ conn # "up" /\ Poisons /\ Hears(IF IsBatch THEN "refused" ELSE "failed")
  BY Zenon DEF Run, resultVars
<1> QED BY <1>4, <1>5, <1>6, <1>7

\* What is committed when the batch's COMMIT is answered, or may have been carried out.
LEMMA CommitIsWhole ==
    ASSUME MySqlInv, IsBatch, holder # 0, holder' = 0, kind' = kind, done' = done,
           committed' = committed \cup RowsOf(holder),
           NEW s \in {"ok", "failed"}, Hears(s), stage[holder] \in {"asking", "dropped"},
           doubtful \subseteq doubtful', s = "failed" => holder \in doubtful'
    PROVE  AllWhole'
<1> SUFFICES ASSUME NEW p \in Requests PROVE BatchWhole(p)'
  BY DEF AllWhole
<1>1. holder \in Requests /\ p # 0 /\ BatchWhole(p)
  BY HolderIsOut, Somebody DEF MySqlInv, MySqlPlaces, AllWhole
<1>2. /\ p # holder => stage'[p] = stage[p]
      /\ stage'[holder] = IF stage[holder] = "asking" THEN s ELSE "dropped"
  BY HearsKeeps
<1>3. CASE p = holder
  <2>1. RowsOf(p)' = RowsOf(p)
    BY DEF RowsOf
  <2> QED BY <1>1, <1>2, <1>3, <2>1 DEF BatchWhole, IsBatch
<1>4. CASE p # holder
  <2>1. RowsOf(p) \cap RowsOf(holder) = {} /\ RowsOf(p)' = RowsOf(p)
    BY <1>4 DEF RowsOf
  <2>2. RowsOf(p) \cap committed' = RowsOf(p) \cap committed
    BY <2>1
  <2> QED BY <1>1, <1>2, <1>4, <2>1, <2>2 DEF BatchWhole
<1> QED BY <1>3, <1>4

LEMMA CommitKeeps == ASSUME MySqlInv, Commit PROVE MySqlInv'
<1> USE DEF MySqlInv, MySqlPlaces
<1> DEFINE s == stage[holder]
           c == CommandSent(channel)
           d == done[holder]
<1>1. /\ holder # 0 /\ holder \in Requests /\ IsBatch /\ BatchPlace(s, "commit", c) /\ kind' = kind /\ done' = done
      /\ actor.timed = FALSE /\ actor.at = "commit"
  BY HolderFacts DEF Commit, ScriptPlace
<1>2. s \in {"asking", "dropped"}
  BY <1>1 DEF BatchPlace
<1>3. CASE conn # "up"
  <2>1. Hears("failed") /\ Poisons /\ doubtful' = doubtful
    BY <1>3 DEF Commit
  <2>2. AskerTypes' /\ AllWhole'
    BY <1>1, <2>1, HearsKeeps, HeardIsWhole DEF Poisons, Frees, serverVars
  <2> QED BY <1>3, <2>1, <2>2, PoisonsKeeps
<1>4. CASE conn = "up"
  <2>1. uncommitted = RowsOf(holder)
    <3>1. TxHolds(s, "commit", c, Mutations, d) /\ Mutations \in 0 .. Mutations
      BY MySqlAssumption DEF TxHolds
    <3> QED BY <1>1, <1>4, <3>1 DEF TxPlace, InTx, RowsOf, IsBatch
  <2>2. unread # TRUE /\ (deadline # TRUE \/ spoiled = TRUE)
    BY <1>1, <1>4 DEF LinkPlace
  <2>3. Frees /\ uncommitted' = {} /\ serverTx' = "none" /\ conn' \in {"up", "gone"} /\ UNCHANGED resultVars
    BY <1>4 DEF Commit
  <2>4. ActorTypes' /\ HolderPlace' /\ TxPlace' /\ actor'.timed = FALSE
    BY <2>3, FreesKeeps
  <2>5. LinkPlace'
    BY <2>2, <2>3, <2>4 DEF LinkPlace, resultVars
  <2>6. /\ committed' \in {committed, committed \cup RowsOf(holder)} /\ doubtful' \in {doubtful, doubtful \cup {holder}}
    BY <1>4, <2>1 DEF Commit
  <2>7. DataTypes'
    BY <1>1, <2>3, <2>6 DEF DataTypes, Rows, RowsOf, resultVars
  <2>8. PICK x \in {"ok", "failed"} :
           /\ Hears(x) /\ doubtful \subseteq doubtful'
           /\ \/ committed' = committed \cup RowsOf(holder) /\ (x = "failed" => holder \in doubtful')
              \/ x = "failed" /\ committed' = committed /\ doubtful' = doubtful
    BY <1>4, <2>1 DEF Commit
  <2>9. AskerTypes'
    BY <1>1, <2>8, HearsKeeps
  <2>10. AllWhole'
    <3>1. CASE committed' = committed \cup RowsOf(holder) /\ (x = "failed" => holder \in doubtful')
      BY <1>1, <1>2, <2>3, <2>8, <3>1, CommitIsWhole DEF Frees
    <3>2. CASE x = "failed" /\ committed' = committed /\ doubtful' = doubtful
      BY <1>1, <2>3, <2>8, <3>2, HeardIsWhole DEF Frees
    <3> QED BY <2>8, <3>1, <3>2
  <2> QED BY <2>4, <2>5, <2>7, <2>9, <2>10
<1> QED BY <1>3, <1>4

\* A transaction that is rolled back when the actor ends.
LEMMA UndoneKeeps ==
    ASSUME MySqlInv, actor.at \in {"rollback", "end"}, actor.timed = FALSE, conn = "up", Frees,
           serverTx' = "none" /\ uncommitted' = {} /\ UNCHANGED <<committed, conn, resultVars, doubtful>>
    PROVE  ActorTypes' /\ DataTypes' /\ HolderPlace' /\ TxPlace' /\ LinkPlace'
<1>1. ActorTypes' /\ HolderPlace' /\ TxPlace' /\ actor'.timed = FALSE
  BY FreesKeeps
<1>2. DataTypes'
  BY DEF MySqlInv, DataTypes, resultVars
<1>3. LinkPlace'
  BY <1>1 DEF MySqlInv, MySqlPlaces, LinkPlace, resultVars
<1> QED BY <1>1, <1>2, <1>3

LEMMA RollBackKeeps == ASSUME MySqlInv, RollBack PROVE MySqlInv'
<1>1. /\ holder # 0 /\ IsBatch /\ actor.timed = FALSE /\ actor.at = "rollback"
      /\ Hears("failed") /\ UNCHANGED <<kind, done, doubtful>>
  BY HolderFacts DEF RollBack, ScriptPlace
<1>2. committed' = committed /\ holder' = 0
  BY DEF RollBack, Poisons, Frees, serverVars
<1>3. AskerTypes' /\ AllWhole'
  BY <1>1, <1>2, HearsKeeps, HeardIsWhole
<1>4. CASE conn = "up"
  BY <1>1, <1>3, <1>4, UndoneKeeps DEF RollBack, MySqlInv, MySqlPlaces
<1>5. CASE conn # "up"
  BY <1>1, <1>3, <1>5, PoisonsKeeps DEF RollBack, MySqlInv, MySqlPlaces
<1> QED BY <1>4, <1>5

LEMMA LeaveKeeps == ASSUME MySqlInv, Leave PROVE MySqlInv'
<1>1. holder # 0 /\ actor.at = "end" /\ actor.timed = FALSE /\ UNCHANGED <<askerVars, doubtful>>
  BY HolderFacts DEF Leave, MySqlInv, MySqlPlaces, LinkPlace, ActorTypes
<1>2. committed' = committed /\ holder' = 0
  BY DEF Leave, Poisons, Frees, serverVars
<1>3. AskerTypes' /\ AllWhole'
  BY <1>1, <1>2, QuietIsWhole
<1>4. CASE IsBatch /\ conn = "up"
  BY <1>1, <1>3, <1>4, UndoneKeeps DEF Leave, MySqlInv, MySqlPlaces
<1>5. CASE IsBatch /\ conn # "up"
  BY <1>1, <1>3, <1>5, PoisonsKeeps DEF Leave, MySqlInv, MySqlPlaces
<1>6. CASE ~IsBatch
  <2>1. Frees /\ UNCHANGED <<conn, serverVars, resultVars>>
    BY <1>6 DEF Leave
  <2>2. ActorTypes' /\ HolderPlace' /\ TxPlace' /\ actor'.timed = FALSE
    BY <2>1, FreesKeeps
  <2>3. DataTypes'
    BY <1>1, <2>1 DEF MySqlInv, DataTypes, serverVars, resultVars
  <2>4. LinkPlace'
    BY <1>1, <1>6, <2>1, <2>2 DEF MySqlInv, MySqlPlaces, LinkPlace, serverVars, resultVars, IsBatch
  <2> QED BY <1>3, <2>2, <2>3, <2>4 DEF MySqlInv, MySqlPlaces
<1> QED BY <1>4, <1>5, <1>6

LEMMA ResetKeeps == ASSUME MySqlInv, ResetDeadline PROVE MySqlInv'
<1>1. /\ holder # 0 /\ ~IsBatch /\ ScriptPlace(stage[holder], "reset", CommandSent(channel)) /\ actor.at = "reset"
      /\ UNCHANGED <<askerVars, doubtful>>
  BY HolderFacts DEF ResetDeadline, BatchPlace
<1>2. committed' = committed /\ holder' \in {0, holder}
  BY DEF ResetDeadline, Poisons, Frees, serverVars
<1>3. AskerTypes' /\ AllWhole'
  BY <1>1, <1>2, QuietIsWhole
<1>4. CASE conn # "up"
  BY <1>1, <1>3, <1>4, PoisonsKeeps DEF ResetDeadline, MySqlInv, MySqlPlaces
<1>5. CASE conn = "up"
  <2>1. /\ actor' = Untimed("end") /\ UNCHANGED <<holder, channel, conn, serverVars, unread>>
        /\ deadline' \in BOOLEAN /\ spoiled' \in BOOLEAN /\ (deadline' = TRUE => spoiled' = TRUE)
    BY <1>5 DEF ResetDeadline, MySqlInv, DataTypes
  <2>2. channel = <<>>
    BY <1>1, HolderTypes DEF ScriptPlace
  <2>3. ActorTypes' /\ actor'.at = "end" /\ actor'.timed = FALSE
    BY <1>1, <2>1, <2>2, HolderGoes DEF Untimed, ActorLabels
  <2>4. DataTypes'
    BY <1>1, <2>1 DEF MySqlInv, DataTypes, serverVars
  <2>5. LinkPlace'
    BY <1>1, <1>5, <2>1, <2>3 DEF MySqlInv, MySqlPlaces, LinkPlace, serverVars, IsBatch
  <2>6. ScriptPlace(stage'[holder], "end", CommandSent(channel))
    BY <1>1 DEF ScriptPlace, askerVars
  <2>7. HolderPlace' /\ TxPlace'
    BY <1>1, <2>1, <2>3, <2>6, ScriptGoes DEF askerVars
  <2> QED BY <1>3, <2>3, <2>4, <2>5, <2>7 DEF MySqlInv, MySqlPlaces
<1> QED BY <1>4, <1>5

\* The rest of a result is read, and the actor goes on at label l; or the connection is
\* given up.
LEMMA ReadOffKeeps ==
    ASSUME MySqlInv, actor.at = "stream", NEW l \in {"recv", "end", "rollback"}, ReadsOff(l),
           conn = "up" => channel' = <<>>, UNCHANGED <<kind, done, doubtful>>,
           AskerTypes', AllWhole',
           IsBatch => stage'[holder] \in {"failed", "dropped"} \/ (l = "rollback" /\ stage'[holder] = "undoing"),
           ~IsBatch => l = "end" /\ stage'[holder] \in {"asking", "ok", "failed", "dropped"},
           IsBatch /\ stage'[holder] = "failed" => l = "recv"
    PROVE  MySqlInv'
<1>1. /\ holder # 0 /\ done[holder] \in 0 .. Mutations /\ (IsBatch => actor.timed = FALSE)
  BY HolderFacts
<1>2. CASE conn # "up"
  BY <1>2, PoisonsKeeps DEF ReadsOff, MySqlInv, MySqlPlaces
<1>3. CASE conn = "up"
  <2>1. unread' = FALSE /\ AndThen(l) /\ UNCHANGED <<holder, conn, serverVars, deadline, spoiled>>
    BY <1>3 DEF ReadsOff
  <2>2. ActorTypes' /\ actor'.at = (IF actor.timed THEN "reset" ELSE l) /\ actor'.timed = actor.timed
    BY <1>1, <1>3, <2>1, GoesOn DEF ActorLabels
  <2>3. DataTypes'
    BY <2>1 DEF MySqlInv, DataTypes, serverVars
  <2>4. LinkPlace'
    BY <1>3, <2>1, <2>2 DEF MySqlInv, MySqlPlaces, LinkPlace, serverVars
  <2>5. CommandSent(channel') = "nothing"
    BY <1>3, OneCommand
  <2>6. CASE IsBatch
    <3>1. actor'.at = l
      BY <1>1, <2>2, <2>6
    <3>2. BatchPlace(stage'[holder], l, "nothing") /\ BatchData(stage'[holder], l, "nothing", done[holder])
      BY <2>6 DEF BatchPlace, BatchData
    <3>3. \A k : ~TxHolds(stage'[holder], l, "nothing", k, done[holder])
      BY <2>6 DEF TxHolds
    <3>4. uncommitted' \subseteq RowsOf(holder)
      BY <1>1, <2>1, <2>6 DEF MySqlInv, MySqlPlaces, TxPlace, IsBatch, serverVars
    <3>5. HolderPlace' /\ TxPlace'
      BY <1>1, <2>1, <2>5, <2>6, <3>1, <3>2, <3>3, <3>4, BatchGoes
    <3> QED BY <2>2, <2>3, <2>4, <3>5 DEF MySqlInv, MySqlPlaces
  <2>7. CASE ~IsBatch
    <3>1. ScriptPlace(stage'[holder], actor'.at, "nothing")
      BY <2>2, <2>7 DEF ScriptPlace
    <3>2. HolderPlace' /\ TxPlace'
      BY <1>1, <2>1, <2>5, <2>7, <3>1, ScriptGoes
    <3> QED BY <2>2, <2>3, <2>4, <3>2 DEF MySqlInv, MySqlPlaces
  <2> QED BY <2>6, <2>7
<1> QED BY <1>2, <1>3

LEMMA StreamKeeps == ASSUME MySqlInv, Stream PROVE MySqlInv'
<1> DEFINE s == stage[holder]
           c == CommandSent(channel)
           d == done[holder]
<1>1. /\ holder # 0 /\ d \in 0 .. Mutations /\ actor.at = "stream"
      /\ UNCHANGED <<kind, done, doubtful>>
      /\ IsBatch => BatchPlace(s, "stream", c) /\ BatchData(s, "stream", c, d)
      /\ ~IsBatch => ScriptPlace(s, "stream", c)
  BY HolderFacts DEF Stream
<1>2. CASE channel = <<>>
  <2> DEFINE l == IF IsBatch THEN "recv" ELSE "end"
  <2>1. c = "nothing" /\ s \notin Asking /\ l \in {"recv", "end", "rollback"} /\ ReadsOff(l) /\ UNCHANGED <<stage, channel>>
    BY <1>2, OneCommand DEF Stream, NobodyAsks
  <2>2. AskerTypes' /\ AllWhole'
    BY <1>1, <2>1, QuietIsWhole DEF askerVars, ReadsOff, Poisons, Frees, serverVars
  <2>3. /\ IsBatch => stage'[holder] \in {"failed", "dropped"}
        /\ ~IsBatch => stage'[holder] \in {"asking", "ok", "failed", "dropped"}
    BY <1>1, <2>1 DEF BatchPlace, ScriptPlace, Asking
  <2> QED BY <1>1, <1>2, <2>1, <2>2, <2>3, ReadOffKeeps
<1>3. CASE channel # <<>>
  <2>1. Head(channel) = c /\ Tail(channel) = <<>> /\ c # "nothing"
    BY <1>3, OneRequestServed
  <2>2. /\ IsBatch => c = "rollback" /\ s \in {"undoing", "dropped"}
        /\ ~IsBatch => c \in {"fetch", "close"} /\ s # "cursor"
    BY <1>1, <2>1 DEF BatchPlace, ScriptPlace
  <2>3. CASE /\ c = "fetch" /\ conn = "up" /\ Hears("cursor")
             /\ channel' = Tail(channel) /\ UNCHANGED <<holder, actor, conn, serverVars, resultVars>>
    <3>1. AskerTypes' /\ AllWhole' /\ stage'[holder] = IF s \in {"asking", "undoing"} THEN "cursor" ELSE s
      BY <1>1, <2>3, HearsKeeps, HeardIsWhole DEF serverVars
    <3>2. ActorTypes' /\ DataTypes' /\ channel' = <<>> /\ CommandSent(channel') = "nothing"
      BY <1>1, <2>1, <2>3, OneCommand DEF MySqlInv, ActorTypes, DataTypes, serverVars, resultVars
    <3>3. LinkPlace'
      BY <1>1, <2>3, LinkStands
    <3>4. ~IsBatch /\ ScriptPlace(stage'[holder], "stream", "nothing")
      BY <1>1, <2>2, <2>3, <3>1 DEF ScriptPlace
    <3>5. HolderPlace' /\ TxPlace'
      BY <1>1, <2>3, <3>2, <3>4, ScriptGoes
    <3> QED BY <3>1, <3>2, <3>3, <3>5 DEF MySqlInv, MySqlPlaces
  <2>4. CASE /\ c = "fetch" /\ (Hears("ok") \/ Hears("failed"))
             /\ ReadsOff("end") /\ (conn = "up" => channel' = Tail(channel))
    <3>1. PICK x \in {"ok", "failed"} : Hears(x)
      BY <2>4
    <3>2. ~IsBatch /\ committed' = committed /\ holder' \in {0, holder}
      BY <2>2, <2>4 DEF ReadsOff, Poisons, Frees, serverVars
    <3>3. AskerTypes' /\ AllWhole' /\ stage'[holder] = IF s \in {"asking", "undoing"} THEN x ELSE s
      BY <1>1, <3>1, <3>2, HearsKeeps, HeardIsWhole
    <3>4. stage'[holder] \in {"ok", "failed", "dropped"}
      BY <1>1, <2>2, <3>2, <3>3 DEF ScriptPlace
    <3> QED BY <1>1, <2>1, <2>4, <3>2, <3>3, <3>4, ReadOffKeeps
  <2>5. CASE /\ c = "close" /\ UNCHANGED stage
             /\ ReadsOff("end") /\ (conn = "up" => channel' = Tail(channel))
    <3>1. ~IsBatch /\ committed' = committed /\ holder' \in {0, holder}
      BY <2>2, <2>5 DEF ReadsOff, Poisons, Frees, serverVars
    <3>2. AskerTypes' /\ AllWhole'
      BY <1>1, <2>5, <3>1, QuietIsWhole DEF askerVars
    <3>3. stage'[holder] \in {"asking", "ok", "failed", "dropped"}
      BY <1>1, <2>2, <2>5, <3>1 DEF ScriptPlace
    <3> QED BY <1>1, <2>1, <2>5, <3>1, <3>2, <3>3, ReadOffKeeps
  <2>6. CASE /\ c \notin {"fetch", "close"}
             /\ IF conn = "up" THEN UNCHANGED stage ELSE Hears("failed")
             /\ ReadsOff(c) /\ (conn = "up" => channel' = Tail(channel))
    <3>1. IsBatch /\ c = "rollback" /\ s \in {"undoing", "dropped"}
      BY <2>2, <2>6
    <3>2. committed' = committed /\ holder' \in {0, holder}
      BY <2>6 DEF ReadsOff, Poisons, Frees, serverVars
    <3>3. CASE conn = "up"
      <4>1. AskerTypes' /\ AllWhole' /\ stage' = stage
        BY <1>1, <2>6, <3>2, <3>3, QuietIsWhole DEF askerVars
      <4> QED BY <1>1, <2>1, <2>6, <3>1, <3>3, <4>1, ReadOffKeeps
    <3>4. CASE conn # "up"
      <4>1. Hears("failed") /\ Poisons
        BY <2>6, <3>4 DEF ReadsOff
      <4>2. AskerTypes' /\ AllWhole'
        BY <1>1, <3>2, <4>1, HearsKeeps, HeardIsWhole
      <4> QED BY <1>1, <3>4, <4>1, <4>2, PoisonsKeeps DEF MySqlInv, MySqlPlaces
    <3> QED BY <3>3, <3>4
  <2> QED BY <1>3, <2>1, <2>3, <2>4, <2>5, <2>6 DEF Stream
<1> QED BY <1>2, <1>3

----------------------------------------------------------------------------
LEMMA StepKeeps == MySqlInv /\ [MySqlNext]_mysqlVars => MySqlInv'
<1> SUFFICES ASSUME MySqlInv, [MySqlNext]_mysqlVars PROVE MySqlInv'
  OBVIOUS
<1>1. CASE \E r \in Requests : AskMySql(r) \/ Lock(r) \/ Direct(r) \/ DropAsker(r) \/ HearNothing(r)
                               \/ NextMutation(r) \/ Undo(r) \/ Fetch(r)
  BY <1>1, AskKeeps, LockKeeps, DirectKeeps, DropKeeps, HearKeeps, NextKeeps, UndoKeeps, FetchKeeps
<1>2. CASE Shut \/ Breaks
  BY <1>2, ShutKeeps, BreakKeeps
<1>3. CASE OpenTransaction \/ RefuseAll \/ TakeCommand \/ SetDeadline \/ Run \/ Stream \/ ResetDeadline
  BY <1>3, OpenKeeps, RefuseKeeps, TakeKeeps, DeadlineKeeps, RunKeeps, StreamKeeps, ResetKeeps
<1>4. CASE Commit \/ RollBack \/ Leave
  BY <1>4, CommitKeeps, RollBackKeeps, LeaveKeeps
<1>5. CASE UNCHANGED mysqlVars
  <2>1. AskerTypes' /\ AllWhole'
    BY <1>5, QuietIsWhole DEF mysqlVars, askerVars, serverVars
  <2>3. ActorTypes' /\ DataTypes'
    BY <1>5 DEF MySqlInv, ActorTypes, DataTypes, mysqlVars, serverVars, resultVars
  <2>2. HolderPlace' /\ TxPlace' /\ LinkPlace'
    BY <1>5, HolderStands, LinkStands DEF mysqlVars, askerVars
  <2> QED BY <2>1, <2>2, <2>3 DEF MySqlInv, MySqlPlaces
<1> QED BY <1>1, <1>2, <1>3, <1>4, <1>5 DEF MySqlNext

LEMMA InvIsEnough == ASSUME MySqlInv PROVE MySqlBatchIsWhole
<1>1. NextFindsItClean
  <2>1. CASE holder = 0 /\ conn = "up"
    <3>1. deadline \in BOOLEAN /\ unread \in BOOLEAN /\ spoiled \in BOOLEAN
      BY DEF MySqlInv, DataTypes
    <3> QED BY <2>1, <3>1, FreeLink DEF NextFindsItClean
  <2> QED BY <2>1 DEF NextFindsItClean
<1>2. ASSUME NEW r \in Requests, kind[r] = "batch"
      PROVE  /\ RowsOf(r) \cap committed \in {{}, RowsOf(r)}
             /\ stage[r] = "ok" => RowsOf(r) \subseteq committed
             /\ stage[r] = "failed" /\ r \notin doubtful => RowsOf(r) \cap committed = {}
  <2>1. BatchWhole(r)
    BY DEF MySqlInv, MySqlPlaces, AllWhole
  <2> QED BY <1>2, <2>1 DEF BatchWhole
<1> QED BY <1>1, <1>2 DEF MySqlBatchIsWhole

LEMMA InvHolds == MySqlSpec => []MySqlInv
<1>1. MySqlInit => MySqlInv
  BY InitPlace
<1>2. MySqlInv /\ [MySqlNext]_mysqlVars => MySqlInv'
  BY StepKeeps
<1> QED BY <1>1, <1>2, PTL DEF MySqlSpec

\* Always: the state of connection, actor and askers has its type, and there is an actor
\* exactly as long as somebody holds the lock (spawn_simple, spawn_transaction).
THEOREM MySqlTypes == MySqlSpec => []MySqlTypeOK
<1>1. MySqlInv => MySqlTypeOK
  BY Types DEF MySqlInv
<1> QED BY <1>1, InvHolds, PTL

\* Always: of a batch all mutations are committed or none; all, if it succeeded, and none, if
\* it failed before its COMMIT; and the next request finds no transaction of the driver's,
\* no rows of another's result and no deadline (execute_mutate, spawn_transaction).
THEOREM BatchesAreWhole == MySqlSpec => []MySqlBatchIsWhole
<1>1. MySqlInv => MySqlBatchIsWhole
  BY InvIsEnough
<1> QED BY <1>1, InvHolds, PTL

-----------------------------------------------------------------------------
(***************************************************************************)
(* MySqlActor implements MutationBatch.                                    *)
(*                                                                         *)
(* One request moves at a time and only while it has no answer             *)
(* (AskersMove); nothing is committed but by the COMMIT of the batch that  *)
(* holds the connection, all of it and while nothing of it was.  That what *)
(* a request is told then is so is the invariant of the next state.        *)
(***************************************************************************)

Unanswered == Asking \cup {"unborn"}

\* Only request r moves, and only before it has an answer.
OnlyMoves(r) ==
    /\ stage[r] \in Unanswered
    /\ kind'[r] = kind[r] \/ (stage[r] = "unborn" /\ stage'[r] \in Asking)
    /\ \A p \in Requests \ {r} : kind'[p] = kind[p] /\ stage'[p] = stage[p]

LEMMA HearsMoves ==
    ASSUME MySqlInv, holder # 0, kind' = kind, NEW s, Hears(s) \/ UNCHANGED stage
    PROVE  UNCHANGED <<kind, stage>> \/ \E r \in Requests : OnlyMoves(r)
<1>1. holder \in Requests /\ stage \in [Requests -> Asking \cup {"unborn", "ok", "failed", "dropped"}]
  BY DEF MySqlInv, ActorTypes, AskerTypes
<1>2. CASE stage[holder] \in {"asking", "undoing"}
  BY <1>1, <1>2 DEF Hears, OnlyMoves, Unanswered, Asking
<1>3. CASE stage[holder] \notin {"asking", "undoing"}
  BY <1>1, <1>3 DEF Hears
<1> QED BY <1>2, <1>3

LEMMA AskersMove ==
    ASSUME MySqlInv, [MySqlNext]_mysqlVars
    PROVE  UNCHANGED <<kind, stage>> \/ \E r \in Requests : OnlyMoves(r)
<1> DEFINE Moves == UNCHANGED <<kind, stage>> \/ \E r \in Requests : OnlyMoves(r)
<1>1. kind \in [Requests -> {"none", "script", "batch", "direct"}]
      /\ stage \in [Requests -> Asking \cup {"unborn", "ok", "failed", "dropped"}]
  BY DEF MySqlInv, AskerTypes
<1>2. ASSUME NEW r \in Requests, NEW x, Becomes(r, x), stage[r] \in Unanswered, kind' = kind PROVE Moves
  BY <1>1, <1>2 DEF Becomes, OnlyMoves
<1>3. ASSUME NEW r \in Requests, AskMySql(r) PROVE Moves
  <2>1. PICK k \in {"script", "batch", "direct"} : kind' = [kind EXCEPT ![r] = k]
    BY <1>3 DEF AskMySql
  <2>2. stage[r] = "unborn" /\ stage' = [stage EXCEPT ![r] = "queued"]
    BY <1>3 DEF AskMySql, Becomes
  <2> QED BY <1>1, <2>1, <2>2 DEF OnlyMoves, Unanswered, Asking
<1>4. ASSUME NEW r \in Requests, Lock(r) \/ Direct(r) PROVE Moves
  <2>1. stage[r] \in Unanswered /\ kind' = kind
    BY <1>4 DEF Lock, Direct, Unanswered, Asking
  <2>2. \E x \in {"failed", "free", "asking", "ok", "dropped"} : Becomes(r, x)
    BY <1>4 DEF Lock, Direct
  <2> QED BY <1>2, <2>1, <2>2
<1>5. ASSUME NEW r \in Requests, DropAsker(r) \/ HearNothing(r) PROVE Moves
  <2>1. stage[r] \in Unanswered /\ kind' = kind
    BY <1>5 DEF DropAsker, HearNothing, Unanswered, Asking
  <2>2. \E x \in {"failed", "dropped"} : Becomes(r, x)
    BY <1>5 DEF DropAsker, HearNothing
  <2> QED BY <1>2, <2>1, <2>2
<1>6. ASSUME NEW r \in Requests, NextMutation(r) \/ Undo(r) \/ Fetch(r) PROVE Moves
  <2>1. stage[r] \in Unanswered /\ kind' = kind
    BY <1>6 DEF NextMutation, Undo, Fetch, Unanswered, Asking
  <2>2. \E x \in {"asking", "free", "undoing", "failed", "ok"} : Becomes(r, x)
    BY <1>6 DEF NextMutation, Undo, Fetch, Send
  <2> QED BY <1>2, <2>1, <2>2
<1>7. ASSUME Shut \/ Breaks \/ OpenTransaction \/ TakeCommand \/ ResetDeadline \/ Leave PROVE Moves
  BY <1>7 DEF Shut, Breaks, OpenTransaction, TakeCommand, ResetDeadline, Leave, askerVars
<1>8. ASSUME RefuseAll \/ SetDeadline \/ Run \/ Stream \/ Commit \/ RollBack PROVE Moves
  <2>1. holder # 0 /\ kind' = kind
    BY <1>8, HolderFacts DEF RefuseAll, SetDeadline, Run, Stream, Commit, RollBack
  <2>2. \E s \in Asking \cup {"ok", "failed"} : Hears(s) \/ UNCHANGED stage
    BY <1>8 DEF RefuseAll, SetDeadline, Run, Stream, Commit, RollBack, Asking
  <2> QED BY <2>1, <2>2, HearsMoves
<1>9. ASSUME UNCHANGED mysqlVars PROVE Moves
  BY <1>9 DEF mysqlVars, askerVars
<1> HIDE DEF Moves
<1>10. Moves
  BY <1>3, <1>4, <1>5, <1>6, <1>7, <1>8, <1>9 DEF MySqlNext
<1> QED BY <1>10 DEF Moves

\* What is committed, and when an answer is in doubt.
LEMMA CommitsMove ==
    ASSUME MySqlInv, [MySqlNext]_mysqlVars
    PROVE  \/ UNCHANGED <<committed, doubtful>>
           \/ /\ Commit /\ IsBatch /\ holder \in Requests /\ RowsOf(holder) \cap committed = {}
              /\ committed' = committed \cup RowsOf(holder)
              /\ stage[holder] \in {"asking", "dropped"} /\ kind' = kind
              /\ \/ Hears("ok") /\ doubtful' = doubtful
                 \/ Hears("failed") /\ doubtful' = doubtful \cup {holder}
<1> DEFINE Stands == UNCHANGED <<committed, doubtful>>
<1>1. ASSUME \E r \in Requests : AskMySql(r) \/ Lock(r) \/ Direct(r) \/ DropAsker(r) \/ HearNothing(r)
                                 \/ NextMutation(r) \/ Undo(r) \/ Fetch(r)
      PROVE  Stands
  BY <1>1 DEF AskMySql, Lock, Direct, DropAsker, HearNothing, NextMutation, Undo, Fetch, serverVars
<1>2. ASSUME Shut \/ Breaks \/ OpenTransaction \/ RefuseAll \/ TakeCommand \/ SetDeadline PROVE Stands
  BY <1>2 DEF Shut, Breaks, OpenTransaction, RefuseAll, TakeCommand, SetDeadline, Poisons, serverVars
<1>3. ASSUME Stream \/ ResetDeadline \/ RollBack \/ Leave PROVE Stands
  BY <1>3 DEF Stream, ResetDeadline, RollBack, Leave, ReadsOff, Poisons, serverVars
<1>4. ASSUME Run PROVE Stands
  <2>1. CASE conn = "up" /\ Affects
    <3>1. CASE IsBatch
      BY <1>4, <2>1, <3>1, AffectsBatch DEF Run, MySqlInv
    <3>2. CASE ~IsBatch
      BY <1>4, <2>1, <3>2 DEF Run, Affects
    <3> QED BY <3>1, <3>2
  <2>2. CASE ~(conn = "up" /\ Affects)
    BY <1>4, <2>2 DEF Run, Poisons, serverVars
  <2> QED BY <2>1, <2>2
<1>5. ASSUME Commit
      PROVE  \/ Stands
             \/ /\ IsBatch /\ holder \in Requests /\ RowsOf(holder) \cap committed = {}
                /\ committed' = committed \cup RowsOf(holder)
                /\ stage[holder] \in {"asking", "dropped"} /\ kind' = kind
                /\ \/ Hears("ok") /\ doubtful' = doubtful
                   \/ Hears("failed") /\ doubtful' = doubtful \cup {holder}
  <2>1. /\ holder # 0 /\ holder \in Requests /\ IsBatch /\ kind' = kind /\ actor.at = "commit"
        /\ BatchPlace(stage[holder], "commit", CommandSent(channel))
    BY <1>5, HolderFacts DEF Commit, ScriptPlace
  <2>2. stage[holder] \in {"asking", "dropped"}
    BY <2>1 DEF BatchPlace
  <2>3. RowsOf(holder) \cap committed = {}
    BY <2>1 DEF MySqlInv, MySqlPlaces, AllWhole, BatchWhole
  <2>4. CASE conn # "up"
    BY <1>5, <2>4 DEF Commit, Poisons, serverVars
  <2>5. CASE conn = "up"
    <3>1. TxHolds(stage[holder], "commit", CommandSent(channel), Mutations, done[holder]) /\ Mutations \in 0 .. Mutations
      BY MySqlAssumption DEF TxHolds
    <3>2. uncommitted = RowsOf(holder)
      BY <2>1, <2>5, <3>1 DEF MySqlInv, MySqlPlaces, TxPlace, InTx, RowsOf, IsBatch
    <3> QED BY <1>5, <2>1, <2>2, <2>3, <2>5, <3>2 DEF Commit
  <2> QED BY <2>4, <2>5
<1>6. UNCHANGED mysqlVars => Stands
  BY DEF mysqlVars, serverVars
<1> QED BY <1>1, <1>2, <1>3, <1>4, <1>5, <1>6 DEF MySqlNext

\* A batch has a first change.
LEMMA FirstRow == ASSUME NEW r PROVE RowsOf(r) # {}
<1>1. 1 \in 1 .. Mutations
  BY MySqlAssumption
<1>2. <<r, 1>> \in RowsOf(r)
  BY <1>1 DEF RowsOf
<1> QED BY <1>2

\* The invariant of the next state says that what is told in it is so.
LEMMA ToldIsSo ==
    ASSUME MySqlInv', NEW r \in Requests
    PROVE  /\ MySqlTold(r)' \in {"none", "applied", "refused", "unknown"}
           /\ MySqlTold(r)' = "applied" => MySqlSaved(r)' = "all"
           /\ MySqlTold(r)' = "refused" => MySqlSaved(r)' = "nothing"
<1>1. BatchWhole(r)'
  BY DEF MySqlInv, MySqlPlaces, AllWhole
<1>2. RowsOf(r)' # {}
  BY FirstRow DEF RowsOf
<1> QED BY <1>1, <1>2 DEF BatchWhole, MySqlTold, MySqlSaved

\* Requests that neither move nor are committed stay as they are.
LEMMA OthersStand ==
    ASSUME NEW r \in Requests, kind'[r] = kind[r], stage'[r] = stage[r], r \in doubtful' <=> r \in doubtful,
           RowsOf(r) \cap committed' = RowsOf(r) \cap committed
    PROVE  MySqlTold(r)' = MySqlTold(r) /\ MySqlSaved(r)' = MySqlSaved(r)
<1>1. RowsOf(r) \subseteq committed' <=> RowsOf(r) \subseteq committed
  OBVIOUS
<1>2. RowsOf(r)' = RowsOf(r)
  BY DEF RowsOf
<1> QED BY <1>1, <1>2 DEF MySqlTold, MySqlSaved

LEMMA MySqlBatchStarts == MySqlInit => MySqlBatches!BatchInit
<1> SUFFICES ASSUME MySqlInit PROVE MySqlBatches!BatchInit
  OBVIOUS
<1>1. \A r \in Requests : MySqlSaved(r) = "nothing" /\ MySqlTold(r) = "none"
  BY DEF MySqlInit, MySqlSaved, MySqlTold
<1> QED BY <1>1 DEF MySqlBatches!BatchInit

LEMMA MySqlBatchMoves ==
    ASSUME MySqlInv, MySqlInv', [MySqlNext]_mysqlVars
    PROVE  [MySqlBatches!BatchNext]_(MySqlBatches!batchVars)
<1> DEFINE saved == [r \in Requests |-> MySqlSaved(r)]
           told == [r \in Requests |-> MySqlTold(r)]
<1>1. ASSUME UNCHANGED <<saved, told>> PROVE UNCHANGED MySqlBatches!batchVars
  BY <1>1 DEF MySqlBatches!batchVars
<1>2. ASSUME NEW r \in Requests, told[r] = "none", told'[r] \in {"applied", "refused", "unknown"}, saved' = saved,
             told' = [told EXCEPT ![r] = told'[r]], told'[r] = "applied" => saved[r] = "all",
             told'[r] = "refused" => saved[r] = "nothing"
      PROVE  MySqlBatches!Answer(r)
  BY <1>2 DEF MySqlBatches!Answer
<1>3. ASSUME NEW r \in Requests, saved[r] = "nothing", saved' = [saved EXCEPT ![r] = "all"],
             told[r] \in {"none", "unknown"}, told' = [told EXCEPT ![r] = told'[r]],
             told'[r] = told[r] \/ (told[r] = "none" /\ told'[r] \in {"applied", "unknown"})
      PROVE  MySqlBatches!Save(r)
  BY <1>3 DEF MySqlBatches!Save
<1>4. CASE UNCHANGED <<committed, doubtful>>
  <2>1. \A r \in Requests : MySqlSaved(r)' = MySqlSaved(r)
    BY <1>4 DEF MySqlSaved, RowsOf
  <2>2. CASE UNCHANGED <<kind, stage>>
    BY <1>1, <1>4, <2>1, <2>2 DEF MySqlTold
  <2>3. CASE \E r \in Requests : OnlyMoves(r)
    <3>1. PICK r \in Requests : OnlyMoves(r)
      BY <2>3
    <3>2. \A p \in Requests \ {r} : MySqlTold(p)' = MySqlTold(p)
      BY <1>4, <3>1 DEF OnlyMoves, MySqlTold
    <3>3. MySqlTold(r) = "none"
      BY <3>1 DEF OnlyMoves, MySqlTold, Unanswered
    <3>4. /\ MySqlTold(r)' \in {"none", "applied", "refused", "unknown"}
          /\ MySqlTold(r)' = "applied" => MySqlSaved(r)' = "all"
          /\ MySqlTold(r)' = "refused" => MySqlSaved(r)' = "nothing"
      BY ToldIsSo
    <3> HIDE DEF MySqlTold, MySqlSaved
    <3>5. saved' = saved /\ told' = [told EXCEPT ![r] = told'[r]]
      BY <2>1, <3>2
    <3>6. told'[r] = "none" => told' = told
      BY <3>3, <3>5
    <3> QED BY <1>1, <1>2, <2>1, <3>3, <3>4, <3>5, <3>6 DEF MySqlBatches!BatchNext
  <2> QED BY <2>2, <2>3, AskersMove
<1>5. CASE /\ Commit /\ IsBatch /\ holder \in Requests /\ RowsOf(holder) \cap committed = {}
           /\ committed' = committed \cup RowsOf(holder)
           /\ stage[holder] \in {"asking", "dropped"} /\ kind' = kind
           /\ \/ Hears("ok") /\ doubtful' = doubtful
              \/ Hears("failed") /\ doubtful' = doubtful \cup {holder}
  <2>1. stage \in [Requests -> Asking \cup {"unborn", "ok", "failed", "dropped"}]
    BY DEF MySqlInv, AskerTypes
  <2>2. ASSUME NEW p \in Requests \ {holder} PROVE MySqlTold(p)' = MySqlTold(p) /\ MySqlSaved(p)' = MySqlSaved(p)
    <3>1. RowsOf(p) \cap RowsOf(holder) = {}
      BY DEF RowsOf
    <3>2. kind'[p] = kind[p] /\ stage'[p] = stage[p] /\ (p \in doubtful' <=> p \in doubtful)
      BY <1>5, <2>1 DEF Hears
    <3> QED BY <1>5, <3>1, <3>2, OthersStand
  <2>3. RowsOf(holder) # {}
    BY FirstRow
  <2>4. MySqlSaved(holder) = "nothing"
    BY <1>5 DEF MySqlSaved
  <2>5. PICK h \in Requests : h = holder
    BY <1>5
  <2>6. MySqlSaved(h)' = "all"
    <3>1. RowsOf(h) \cap committed' # {} /\ RowsOf(h) \subseteq committed'
      BY <1>5, <2>3, <2>5
    <3> QED BY <3>1 DEF MySqlSaved, RowsOf
  <2>7. /\ MySqlTold(h) = IF stage[h] = "asking" THEN "none" ELSE "unknown"
        /\ stage[h] = "dropped" => stage'[h] = "dropped"
        /\ stage[h] = "asking" => stage'[h] = "ok" \/ (stage'[h] = "failed" /\ h \in doubtful')
    BY <1>5, <2>1, <2>5 DEF MySqlTold, Hears, Asking, IsBatch
  <2>8. /\ MySqlTold(h) \in {"none", "unknown"}
        /\ MySqlTold(h)' = MySqlTold(h) \/ (MySqlTold(h) = "none" /\ MySqlTold(h)' \in {"applied", "unknown"})
    BY <1>5, <2>5, <2>7 DEF MySqlTold, Asking, IsBatch
  <2> HIDE DEF MySqlTold, MySqlSaved
  <2>9. saved' = [saved EXCEPT ![h] = "all"] /\ told' = [told EXCEPT ![h] = told'[h]]
    BY <2>2, <2>5, <2>6
  <2>10. MySqlBatches!Save(h)
    BY <1>3, <2>4, <2>5, <2>8, <2>9
  <2> QED BY <2>10 DEF MySqlBatches!BatchNext
<1> QED BY <1>4, <1>5, CommitsMove

\* A connection keeps the promise of ATOMIC_BATCH (driver.rs:38): batches are saved in one
\* step and for good, what was refused is not saved later by whoever has the connection
\* next, and what is said to be applied is; an asker that is gone changes none of it.
THEOREM MySqlBatchesAreAtomic == MySqlSpec => MySqlImplementsBatch
<1>1. MySqlInv /\ MySqlInv' /\ [MySqlNext]_mysqlVars => [MySqlBatches!BatchNext]_(MySqlBatches!batchVars)
  BY MySqlBatchMoves
<1> QED BY <1>1, MySqlBatchStarts, InvHolds, PTL DEF MySqlSpec, MySqlImplementsBatch, MySqlBatches!BatchSpec

-----------------------------------------------------------------------------
(***************************************************************************)
(* EsSearch                                                                *)
(*                                                                         *)
(* The pages of a search add up to the matches in order, none twice and    *)
(* none missing, whatever sizes are asked for and whatever the number of   *)
(* matches; and what is open on the server for it is released, or one      *)
(* request to release it was lost.                                         *)
(*                                                                         *)
(* The argument: while a result goes on, the place the next page is taken  *)
(* from (search_after, or the scroll itself) is the number of rows handed  *)
(* out and of those on their way, and a page holds as many as were asked   *)
(* for or all there are (RowsInOrder).  A context that is open is known to *)
(* the cursor, being released, or named by the answer it waits for, and    *)
(* one that is being released is known no more (PagesInTurn).              *)
(***************************************************************************)

SearchTypes ==
    /\ mode \in Modes /\ limit \in Limits /\ remaining \in Nat \cup {NoLimit}
    /\ cursor \in {"opening", "idle", "asking", "polling", "finishing", "ending", "closing", "gone"}
    /\ ended \in {"no", "clean", "error", "given_up"}
    /\ context \in {"none", "open", "forgotten"}
    /\ size \in Nat /\ lastSort \in Nat /\ position \in Nat /\ scrolled \in Nat
    /\ rows \in Seq(Nat) /\ page \in [there : BOOLEAN, docs : Seq(Nat)]
    /\ known \in BOOLEAN /\ freeing \in BOOLEAN /\ leaked \in BOOLEAN /\ cut \in BOOLEAN /\ grew \in BOOLEAN

\* A request is under way only while the result has not ended; what is open is known, or
\* about to be, or its release has been asked for.
PagesInTurn ==
    /\ InRequest => ended = "no" /\ size > 0
    /\ page.there => cursor \in {"asking", "finishing", "ending"} /\ (Scrolls /\ InRequest => context = "open")
    /\ ~page.there => page.docs = <<>>
    /\ cursor = "opening" => ended = "no" /\ context = "none"
    /\ cursor = "ending" => ended # "no"
    /\ cursor \in {"opening", "ending", "closing", "gone"} => ~known
    /\ freeing \/ leaked => ~known /\ ~InRequest
    /\ context = "open" => known \/ freeing \/ leaked \/ (InRequest /\ page.there)
    /\ ended = "no" /\ cursor \notin {"closing", "gone"} =>
          ~freeing /\ ~leaked /\ (Scrolls => (context = "open" <=> scrolled > 0))

\* As long as the server has left nothing out, the rows are the first of the matches and
\* the page under way holds those that follow.
AskedOf == IF Scrolls THEN scrolled ELSE size
RowsInOrder ==
    ~cut =>
        /\ \A i \in 1 .. Len(rows) : rows[i] = i
        /\ \A i \in 1 .. Len(page.docs) : page.docs[i] = Len(rows) + i
        /\ Len(rows) + Len(page.docs) <= Total
        /\ ended = "no" =>
              /\ lastSort = Len(rows)
              /\ remaining = IF limit = NoLimit THEN NoLimit ELSE IF Len(rows) <= limit THEN limit - Len(rows) ELSE 0
              /\ Scrolls => position = Len(rows) + Len(page.docs)
        /\ ~Scrolls => limit = NoLimit \/ Len(rows) + Len(page.docs) <= limit
        /\ InRequest => remaining = NoLimit \/ size <= remaining
        /\ InRequest /\ page.there => Len(page.docs) = Least(AskedOf, Total - Len(rows))
        /\ InRequest /\ Scrolls /\ ~grew => scrolled = 0 \/ scrolled >= size
        /\ ended = "clean" /\ ~grew => Len(rows) + Len(page.docs) >= Wanted

SearchInv == SearchTypes /\ PagesInTurn /\ RowsInOrder

\* The empty answer, and what the numbers are.
LEMMA SearchNumbers ==
    /\ NoPage \in [there : BOOLEAN, docs : Seq(Nat)] /\ NoPage.docs = <<>> /\ ~NoPage.there /\ Len(NoPage.docs) = 0
    /\ NoLimit \notin Nat /\ Total \in Nat /\ Hints \subseteq Nat \ {0} /\ Limits \subseteq Nat \cup {NoLimit}
    /\ \A r, n \in Nat : Least(r, n) \in Nat /\ Least(r, n) <= r /\ Least(r, n) <= n /\ Least(r, n) \in {r, n}
BY SearchAssumption DEF NoPage, NoLimit, Least

LEMMA SearchInitHolds == SearchInit => SearchInv
<1>1. SUFFICES ASSUME SearchInit PROVE SearchInv
  OBVIOUS
<1>2. SearchTypes
  BY <1>1, SearchNumbers DEF SearchInit, SearchTypes
<1>3. PagesInTurn
  BY <1>1, SearchNumbers DEF SearchInit, PagesInTurn, InRequest
<1>4. RowsInOrder
  <2>1. Len(rows) = 0 /\ Len(page.docs) = 0 /\ limit \in Nat \cup {NoLimit} /\ cursor = "opening" /\ ended = "no"
    BY <1>1, SearchNumbers DEF SearchInit
  <2> QED BY <1>1, <2>1, SearchNumbers DEF SearchInit, RowsInOrder, InRequest
<1> QED BY <1>2, <1>3, <1>4 DEF SearchInv

\* Outside a request, rows that stay and a page that stays, or one that is dropped with a
\* result that ends in an error or unread.
LEMMA RowsStay ==
    ASSUME SearchInv, ~InRequest', UNCHANGED <<mode, remaining, lastSort, rows, position, limit, cut, grew>>,
           \/ page' = page /\ ended' = ended
           \/ page' = NoPage /\ ended' \in {"error", "given_up"}
    PROVE  RowsInOrder'
<1>1. rows \in Seq(Nat) /\ Len(rows) \in Nat /\ page.docs \in Seq(Nat) /\ Len(page.docs) \in Nat
      /\ Total \in Nat /\ limit \in Nat \cup {NoLimit}
  BY SearchNumbers, LenProperties DEF SearchInv, SearchTypes
<1>2. CASE page' = page /\ ended' = ended
  BY <1>2 DEF SearchInv, RowsInOrder, Scrolls, Wanted
<1>3. CASE page' = NoPage /\ ended' \in {"error", "given_up"}
  <2>1. Len(page'.docs) = 0
    BY <1>3, SearchNumbers
  <2> SUFFICES ASSUME ~cut PROVE RowsInOrder'
    BY DEF RowsInOrder
  <2>2. /\ \A i \in 1 .. Len(rows) : rows[i] = i
        /\ Len(rows) + Len(page.docs) <= Total
        /\ ~Scrolls => limit = NoLimit \/ Len(rows) + Len(page.docs) <= limit
    BY DEF SearchInv, RowsInOrder
  <2>3. /\ Len(rows) + 0 = Len(rows) /\ Len(rows) <= Total
        /\ ~Scrolls => limit = NoLimit \/ Len(rows) <= limit
    BY <1>1, <2>2
  <2>4. ended' # "no" /\ ended' # "clean"
    BY <1>3
  <2>5. /\ Len(rows') + Len(page'.docs) = Len(rows)
        /\ \A i \in 1 .. Len(page'.docs) : page'.docs[i] = Len(rows') + i
    BY <2>1, <2>3
  <2>6. Scrolls' = Scrolls
    BY DEF Scrolls
  <2> QED BY <2>2, <2>3, <2>4, <2>5, <2>6 DEF RowsInOrder
<1> QED BY <1>2, <1>3

----------------------------------------------------------------------------
LEMMA OpenScanKeeps == ASSUME SearchInv, OpenScan PROVE SearchInv'
<1>1. /\ cursor = "opening" /\ cursor' \in {"idle", "gone"} /\ context' \in {"none", "open", "forgotten"}
      /\ known' \in BOOLEAN
      /\ context' = "open" => known' /\ ~Scrolls
      /\ cursor' = "gone" => known' = known
      /\ Scrolls => context' = context /\ cursor' = "idle"
      /\ UNCHANGED <<mode, size, remaining, lastSort, ended, rows, page, position, scrolled, freeing, leaked, limit, cut, grew>>
  BY DEF OpenScan, CursorAt, SearchInv, SearchTypes, PagesInTurn
<1>2. /\ ended = "no" /\ context = "none" /\ ~page.there /\ page.docs = <<>> /\ ~freeing /\ ~leaked /\ ~known
      /\ Scrolls => ~(scrolled > 0)
  BY <1>1 DEF SearchInv, PagesInTurn
<1>3. SearchTypes'
  BY <1>1 DEF SearchInv, SearchTypes
<1>4. PagesInTurn'
  <2>1. (cursor \in {"opening", "ending", "closing", "gone"} => ~known)'
    BY <1>1, <1>2
  <2>2. (ended = "no" /\ cursor \notin {"closing", "gone"} =>
          ~freeing /\ ~leaked /\ (Scrolls => (context = "open" <=> scrolled > 0)))'
    BY <1>1, <1>2 DEF Scrolls
  <2> QED BY <1>1, <1>2, <2>1, <2>2 DEF PagesInTurn, InRequest
<1>5. RowsInOrder'
  BY <1>1, RowsStay DEF InRequest
<1> QED BY <1>3, <1>4, <1>5 DEF SearchInv

LEMMA NextBatchKeeps == ASSUME SearchInv, NEW h \in Hints, NextBatch(h) PROVE SearchInv'
<1>1. /\ cursor = "idle" /\ ended = "no" /\ h \in Nat /\ h > 0
      /\ UNCHANGED <<mode, remaining, lastSort, rows, page, leaked, limit, cut, context, position, scrolled>>
      /\ page.there = FALSE /\ page.docs = <<>> /\ Len(page.docs) = 0 /\ ~InRequest /\ ~freeing /\ ~leaked
  BY SearchNumbers DEF NextBatch, Server, SearchInv, SearchTypes, PagesInTurn, InRequest
<1>2. CASE remaining # 0
  <2>1. /\ size' = IF remaining = NoLimit THEN h ELSE Least(h, remaining)
        /\ grew' = (grew \/ (0 < scrolled /\ scrolled < size')) /\ cursor' = "asking"
        /\ UNCHANGED <<ended, known, freeing>>
    BY <1>2 DEF NextBatch, CursorAt
  <2>2. remaining \in Nat \cup {NoLimit} /\ scrolled \in Nat /\ grew \in BOOLEAN
    BY DEF SearchInv, SearchTypes
  <2>3. size' \in Nat /\ size' > 0 /\ (remaining = NoLimit \/ size' <= remaining)
    BY <1>1, <1>2, <2>1, <2>2 DEF Least
  <2>4. /\ grew' \in BOOLEAN /\ (~grew' => ~grew)
        /\ ~grew' => scrolled = 0 \/ scrolled >= size'
    <3>1. grew' \in BOOLEAN /\ (~grew' => ~grew /\ ~(0 < scrolled /\ scrolled < size'))
      BY <2>1, <2>2
    <3>2. ~(0 < scrolled /\ scrolled < size') => scrolled = 0 \/ scrolled >= size'
      BY <2>2, <2>3
    <3> QED BY <3>1, <3>2
  <2>5. SearchTypes'
    BY <1>1, <2>1, <2>3, <2>4 DEF SearchInv, SearchTypes
  <2>6. PagesInTurn'
    BY <1>1, <2>1, <2>3 DEF SearchInv, PagesInTurn, InRequest, Scrolls
  <2>7. RowsInOrder'
    BY <1>1, <2>1, <2>3, <2>4 DEF SearchInv, RowsInOrder, InRequest, Wanted, Scrolls
  <2> QED BY <2>5, <2>6, <2>7 DEF SearchInv
<1>3. CASE remaining = 0
  <2>1. /\ ended' = "clean" /\ cursor' \in {"ending", "idle"} /\ known' = FALSE /\ freeing' = (freeing \/ known)
        /\ UNCHANGED <<size, grew>>
    BY <1>3 DEF NextBatch, Release
  <2>2. SearchTypes'
    BY <1>1, <2>1 DEF SearchInv, SearchTypes
  <2>3. PagesInTurn'
    BY <1>1, <2>1 DEF SearchInv, SearchTypes, PagesInTurn, InRequest
  <2>4. ~cut => Len(rows) >= Wanted
    <3>1. rows \in Seq(Nat) /\ limit \in Nat \cup {NoLimit}
      BY SearchNumbers DEF SearchInv, SearchTypes
    <3>2. Len(rows) \in Nat
      BY <3>1
    <3>3. ASSUME ~cut PROVE limit # NoLimit /\ Len(rows) >= limit
      <4>1. 0 = IF limit = NoLimit THEN NoLimit ELSE IF Len(rows) <= limit THEN limit - Len(rows) ELSE 0
        BY <1>1, <1>3, <3>3 DEF SearchInv, RowsInOrder
      <4> QED BY <3>1, <3>2, <4>1 DEF NoLimit
    <3> QED BY <3>1, <3>2, <3>3, SearchNumbers DEF Wanted, Least
  <2>5. RowsInOrder'
    <3>1. Len(rows) \in Nat /\ ~InRequest' /\ ended' # "no" /\ Len(page'.docs) = 0
      BY <1>1, <2>1 DEF SearchInv, SearchTypes, InRequest
    <3>2. ~cut => Len(rows') + Len(page'.docs) >= Wanted'
      BY <1>1, <2>4, <3>1, SearchNumbers DEF Wanted, Least
    <3> QED BY <1>1, <3>1, <3>2 DEF SearchInv, RowsInOrder, Scrolls
  <2> QED BY <2>2, <2>3, <2>5 DEF SearchInv
<1> QED BY <1>2, <1>3

----------------------------------------------------------------------------
\* A page is on its way, or the search it comes from has not answered yet.
LEMMA AnswerKeeps ==
    ASSUME SearchInv, cursor \in {"asking", "polling"}, ~page.there, Answer, cursor' \in {"asking", "finishing"},
           UNCHANGED <<mode, size, limit, grew, freeing, leaked, remaining, lastSort, ended, known, rows>>
    PROVE  SearchInv'
<1> DEFINE r == Len(rows)
<1>1. /\ rows \in Seq(Nat) /\ r \in Nat /\ Total \in Nat /\ position \in Nat /\ lastSort \in Nat
      /\ scrolled \in Nat /\ size \in Nat /\ cut \in BOOLEAN
      /\ context \in {"none", "open", "forgotten"} /\ page.docs = <<>> /\ Len(page.docs) = 0
      /\ ended = "no" /\ cursor # "gone" /\ size > 0 /\ ~freeing /\ ~leaked
      /\ Scrolls => (context = "open" <=> scrolled > 0)
  <2>1. ended = "no" /\ cursor \notin {"closing", "gone"} /\ size > 0 /\ page.docs = <<>>
    BY DEF SearchInv, PagesInTurn, InRequest
  <2>2. ~freeing /\ ~leaked /\ (Scrolls => (context = "open" <=> scrolled > 0))
    BY <2>1 DEF SearchInv, PagesInTurn
  <2>3. /\ rows \in Seq(Nat) /\ position \in Nat /\ lastSort \in Nat /\ scrolled \in Nat /\ size \in Nat
        /\ cut \in BOOLEAN /\ context \in {"none", "open", "forgotten"}
    BY DEF SearchInv, SearchTypes
  <2> QED BY <2>1, <2>2, <2>3, SearchNumbers, EmptySeq
<1>2. From \in Nat /\ Asked \in Nat /\ Asked > 0 /\ Left \in Int
  <2>1. From \in Nat
    BY <1>1 DEF From
  <2>2. Left \in Int
    BY <1>1, <2>1 DEF Left
  <2>3. Asked \in Nat /\ Asked > 0
    BY <1>1 DEF Asked
  <2> QED BY <2>1, <2>2, <2>3
<1>3. PICK skip \in 0 .. 1, n \in 0 .. Least(Asked, Left) :
         /\ page' = [there |-> TRUE, docs |-> [i \in 1 .. n |-> From + skip + i]]
         /\ cut' = (cut \/ skip > 0 \/ n < Least(Asked, Left))
         /\ IF Scrolls
            THEN context' = "open" /\ position' = From + skip + n /\ scrolled' = Asked
            ELSE UNCHANGED <<context, position, scrolled>>
  BY DEF Answer
<1>4. n \in Nat /\ skip \in Nat /\ Least(Asked, Left) \in Int
  BY <1>2 DEF Least
<1> DEFINE docs == [i \in 1 .. n |-> From + skip + i]
<1>5. docs \in Seq(Nat) /\ Len(docs) = n
  BY <1>2, <1>4
<1>6. /\ cut' \in BOOLEAN
      /\ ~cut' => ~cut /\ skip = 0 /\ n = Least(Asked, Left)
  <2>1. (~(skip > 0) => skip = 0) /\ (~(n < Least(Asked, Left)) => n = Least(Asked, Left))
    BY <1>4
  <2>2. cut' = (cut \/ skip > 0 \/ n < Least(Asked, Left))
    BY <1>3
  <2> QED BY <1>1, <2>1, <2>2
<1>7. page' \in [there : BOOLEAN, docs : Seq(Nat)] /\ page'.there /\ page'.docs = docs
  BY <1>3, <1>5
<1> HIDE DEF docs
<1>8. /\ context' \in {"none", "open", "forgotten"} /\ position' \in Nat /\ scrolled' \in Nat
      /\ Scrolls => context' = "open" /\ position' = From + skip + n /\ scrolled' = Asked
      /\ ~Scrolls => context' = context /\ position' = position /\ scrolled' = scrolled
      /\ Scrolls' = Scrolls /\ InRequest'
  <2>1. Scrolls' = Scrolls /\ InRequest'
    BY DEF Scrolls, InRequest
  <2>2. From + skip + n \in Nat
    BY <1>2, <1>4
  <2>3. CASE Scrolls
    BY <1>2, <1>3, <2>1, <2>2, <2>3
  <2>4. CASE ~Scrolls
    BY <1>1, <1>3, <2>1, <2>4
  <2> QED BY <2>3, <2>4
<1>9. SearchTypes'
  BY <1>6, <1>7, <1>8 DEF SearchInv, SearchTypes
<1>10. PagesInTurn'
  <2>1. (Scrolls => (context = "open" <=> scrolled > 0))'
    BY <1>2, <1>8
  <2> QED BY <1>1, <1>7, <1>8, <2>1 DEF PagesInTurn
<1>11. RowsInOrder'
  <2> SUFFICES ASSUME ~cut' PROVE RowsInOrder'
    BY DEF RowsInOrder
  <2>1. ~cut /\ skip = 0 /\ n = Least(Asked, Left) /\ InRequest
    BY <1>6 DEF InRequest
  <2>2. /\ \A i \in 1 .. r : rows[i] = i
        /\ r <= Total /\ lastSort = r
        /\ remaining = IF limit = NoLimit THEN NoLimit ELSE IF r <= limit THEN limit - r ELSE 0
        /\ ~Scrolls => limit = NoLimit \/ r <= limit
        /\ remaining = NoLimit \/ size <= remaining
        /\ Scrolls => position = r
        /\ Scrolls /\ ~grew => scrolled = 0 \/ scrolled >= size
    <3>1. r + 0 = r
      BY <1>1
    <3> QED BY <1>1, <2>1, <3>1 DEF SearchInv, RowsInOrder
  <2>3. From = r
    BY <2>2 DEF From
  <2>4. \A i \in 1 .. n : docs[i] = r + i
    BY <1>1, <1>4, <2>1, <2>3 DEF docs
  <2>5. AskedOf' = Asked /\ Left = Total - r
    BY <1>8, <2>3 DEF AskedOf, Asked, Left
  <2>6. Len(docs) = Least(AskedOf', Total - r) /\ r + Len(docs) <= Total
    <3>1. Len(docs) = Least(AskedOf', Total - r)
      BY <1>5, <2>1, <2>5
    <3>2. n <= Total - r
      BY <1>1, <1>2, <2>1, <2>2, <2>5 DEF Least
    <3> QED BY <1>1, <1>4, <1>5, <3>1, <3>2
  <2>7. Scrolls => position' = r + Len(docs)
    BY <1>1, <1>4, <1>5, <1>8, <2>1, <2>3
  <2>8. Scrolls /\ ~grew => scrolled' >= size
    BY <1>1, <1>8, <2>1, <2>2 DEF Asked
  <2>9. ~Scrolls => limit = NoLimit \/ r + Len(docs) <= limit
    <3>1. ASSUME ~Scrolls, limit # NoLimit PROVE r + Len(docs) <= limit
      <4>1. Asked = size /\ n <= size
        BY <1>1, <1>2, <2>1, <3>1 DEF Asked, Least
      <4>2. limit \in Nat /\ remaining = limit - r /\ size <= limit - r
        BY <1>1, <2>2, <3>1, SearchNumbers DEF SearchInv, SearchTypes
      <4> QED BY <1>1, <1>4, <1>5, <4>1, <4>2
    <3> QED BY <3>1
  <2>10. page'.docs = docs /\ Len(docs) = n /\ Wanted' = Wanted /\ ended' = "no"
    BY <1>1, <1>5, <1>7 DEF Wanted
  <2> HIDE DEF r
  <2>11. /\ \A i \in 1 .. Len(rows') : rows'[i] = i
         /\ \A i \in 1 .. Len(page'.docs) : page'.docs[i] = Len(rows') + i
         /\ Len(rows') + Len(page'.docs) <= Total
    BY <2>2, <2>4, <2>6, <2>10 DEF r
  <2>12. /\ lastSort' = Len(rows')
         /\ remaining' = IF limit' = NoLimit THEN NoLimit ELSE IF Len(rows') <= limit' THEN limit' - Len(rows') ELSE 0
         /\ Scrolls' => position' = Len(rows') + Len(page'.docs)
    BY <1>8, <2>2, <2>7, <2>10 DEF r
  <2>13. /\ ~Scrolls' => limit' = NoLimit \/ Len(rows') + Len(page'.docs) <= limit'
         /\ remaining' = NoLimit \/ size' <= remaining'
         /\ Len(page'.docs) = Least(AskedOf', Total - Len(rows'))
         /\ Scrolls' /\ ~grew' => scrolled' >= size'
    BY <1>8, <2>2, <2>6, <2>8, <2>9, <2>10 DEF r
  <2> QED BY <2>10, <2>11, <2>12, <2>13 DEF RowsInOrder
<1> QED BY <1>9, <1>10, <1>11 DEF SearchInv

LEMMA RequestKeeps ==
    ASSUME SearchInv, AnswerPage \/ SubmitAsync \/ PollAsync \/ FinishAsync
    PROVE  SearchInv'
<1>1. CASE AnswerPage
  BY <1>1, AnswerKeeps DEF AnswerPage, Reader
<1>2. CASE PollAsync
  <2>1. ~page.there
    BY <1>2 DEF PollAsync, SearchInv, PagesInTurn
  <2> QED BY <1>2, <2>1, AnswerKeeps DEF PollAsync, CursorAt, Reader
<1>3. CASE SubmitAsync \/ FinishAsync
  <2>1. /\ UNCHANGED <<mode, size, page, context, position, scrolled, freeing, leaked, limit, cut, grew, remaining,
                       lastSort, ended, known, rows>>
        /\ \/ cursor = "asking" /\ cursor' = "polling" /\ ~page.there
           \/ cursor = "finishing" /\ cursor' = "asking"
    BY <1>3 DEF SubmitAsync, FinishAsync, CursorAt, Reader
  <2>2. SearchTypes'
    BY <2>1 DEF SearchInv, SearchTypes
  <2>3. PagesInTurn'
    BY <2>1 DEF SearchInv, PagesInTurn, InRequest, Scrolls
  <2>4. RowsInOrder'
    BY <2>1 DEF SearchInv, RowsInOrder, InRequest, AskedOf, Wanted, Scrolls
  <2> QED BY <2>2, <2>3, <2>4 DEF SearchInv
<1> QED BY <1>1, <1>2, <1>3

----------------------------------------------------------------------------
\* A page that was read joins the rows of the matches before it.
LEMMA PageJoins ==
    ASSUME SearchInv, ~cut, rows' = rows \o page.docs
    PROVE  /\ Len(rows') = Len(rows) + Len(page.docs)
           /\ \A i \in 1 .. Len(rows') : rows'[i] = i
<1> DEFINE docs == page.docs
           r == Len(rows)
           n == Len(docs)
<1>1. /\ rows \in Seq(Nat) /\ docs \in Seq(Nat) /\ r \in Nat /\ n \in Nat
      /\ \A i \in 1 .. r : rows[i] = i
      /\ \A i \in 1 .. n : docs[i] = r + i
  BY LenProperties DEF SearchInv, SearchTypes, RowsInOrder
<1> HIDE DEF docs, r, n
<1>2. /\ Len(rows') = r + n
      /\ \A i \in 1 .. r + n : rows'[i] = IF i <= r THEN rows[i] ELSE docs[i - r]
  BY <1>1, ConcatProperties DEF r, n, docs
<1>3. ASSUME NEW i \in 1 .. r + n PROVE rows'[i] = i
  <2>1. CASE i <= r
    <3>1. i \in 1 .. r
      BY <1>1, <2>1
    <3> QED BY <1>1, <1>2, <2>1, <3>1
  <2>2. CASE ~(i <= r)
    <3>1. i - r \in 1 .. n
      BY <1>1, <2>2
    <3>2. docs[i - r] = r + (i - r)
      BY <1>1, <3>1
    <3> QED BY <1>1, <1>2, <2>2, <3>2
  <2> QED BY <2>1, <2>2
<1> QED BY <1>2, <1>3 DEF r, n, docs

\* What the numbers are behind a page that was read.
LEMMA PageCounts ==
    ASSUME SearchInv, ~cut, Receive
    PROVE  LET t == Len(rows) + Len(page.docs)
           IN  /\ t <= Total /\ lastSort' = t
               /\ remaining' = IF limit = NoLimit THEN NoLimit ELSE IF t <= limit THEN limit - t ELSE 0
               /\ Scrolls => position = t
               /\ LastPage(Len(page.docs)) /\ ~grew => t >= Wanted
<1> DEFINE docs == page.docs
           r == Len(rows)
           n == Len(docs)
<1>1. /\ remaining \in Nat \cup {NoLimit} /\ limit \in Nat \cup {NoLimit} /\ size \in Nat /\ scrolled \in Nat
      /\ r \in Nat /\ n \in Nat
  BY SearchNumbers, LenProperties DEF SearchInv, SearchTypes
<1>2. /\ lastSort' = IF n = 0 THEN lastSort ELSE docs[n]
      /\ remaining' = IF remaining = NoLimit THEN NoLimit ELSE remaining - Least(n, remaining)
      /\ cursor = "asking" /\ page.there
  BY DEF Receive, LastHit
<1>3. ended = "no" /\ size > 0 /\ InRequest /\ (Scrolls => scrolled > 0)
  BY <1>2 DEF SearchInv, PagesInTurn, InRequest
<1>4. /\ r + n <= Total /\ lastSort = r
      /\ remaining = IF limit = NoLimit THEN NoLimit ELSE IF r <= limit THEN limit - r ELSE 0
      /\ \A i \in 1 .. n : docs[i] = r + i
      /\ n = Least(AskedOf, Total - r)
      /\ Scrolls => position = r + n
      /\ Scrolls /\ ~grew => scrolled = 0 \/ scrolled >= size
  BY <1>2, <1>3 DEF SearchInv, RowsInOrder
<1>5. LastPage(n) => n < size \/ (remaining \in Nat /\ remaining <= n)
  BY <1>1, SearchNumbers DEF LastPage
<1> HIDE DEF docs, r, n
<1>6. lastSort' = r + n
  BY <1>1, <1>2, <1>4
<1>7. remaining' = IF limit = NoLimit THEN NoLimit ELSE IF r + n <= limit THEN limit - (r + n) ELSE 0
  BY <1>1, <1>2, <1>4, SearchNumbers DEF Least
<1>8. ASSUME LastPage(n), ~grew PROVE r + n >= Wanted
  <2>1. AskedOf \in Nat /\ AskedOf >= size
    BY <1>1, <1>3, <1>4, <1>8 DEF AskedOf
  <2>2. CASE n < size
    BY <1>1, <1>4, <2>1, <2>2, SearchNumbers DEF Least, Wanted
  <2>3. CASE remaining \in Nat /\ remaining <= n
    BY <1>1, <1>4, <2>3, SearchNumbers DEF Least, Wanted
  <2> QED BY <1>5, <1>8, <2>2, <2>3
<1> QED BY <1>4, <1>6, <1>7, <1>8 DEF r, n, docs

LEMMA ReceiveKeeps == ASSUME SearchInv, Receive PROVE SearchInv'
<1> DEFINE docs == page.docs
           n == Len(docs)
<1>1. /\ rows \in Seq(Nat) /\ docs \in Seq(Nat) /\ remaining \in Nat \cup {NoLimit} /\ lastSort \in Nat
      /\ Len(rows) \in Nat /\ n \in Nat /\ (n # 0 => docs[n] \in Nat) /\ limit \in Nat \cup {NoLimit}
  <2>1. /\ rows \in Seq(Nat) /\ docs \in Seq(Nat) /\ remaining \in Nat \cup {NoLimit} /\ lastSort \in Nat
        /\ limit \in Nat \cup {NoLimit}
    BY SearchNumbers DEF SearchInv, SearchTypes
  <2> QED BY <2>1, LenProperties
<1>2. /\ cursor = "asking" /\ page.there
      /\ lastSort' = IF n = 0 THEN lastSort ELSE docs[n]
      /\ remaining' = IF remaining = NoLimit THEN NoLimit ELSE remaining - Least(n, remaining)
      /\ UNCHANGED <<mode, size, leaked, limit, cut, grew, context, position, scrolled>>
  BY DEF Receive, LastHit, Server
<1>3. /\ ended = "no" /\ InRequest /\ ~freeing /\ ~leaked
      /\ Scrolls => (context = "open" <=> scrolled > 0)
  BY <1>2 DEF SearchInv, PagesInTurn, InRequest
<1>4. remaining' \in Nat \cup {NoLimit} /\ lastSort' \in Nat
  BY <1>1, <1>2 DEF Least
<1>5. CASE LastPage(n)
  <2>1. ended' = "clean" /\ known' = FALSE /\ freeing' = TRUE /\ cursor' = "ending" /\ UNCHANGED <<rows, page>>
    BY <1>5 DEF Receive, CursorAt
  <2>2. SearchTypes'
    BY <1>2, <1>4, <2>1 DEF SearchInv, SearchTypes
  <2>3. PagesInTurn'
    BY <1>2, <1>3, <2>1 DEF PagesInTurn, InRequest
  <2>4. RowsInOrder'
    BY <1>2, <1>5, <2>1, PageCounts DEF SearchInv, RowsInOrder, InRequest, Scrolls, Wanted
  <2> QED BY <2>2, <2>3, <2>4 DEF SearchInv
<1>6. CASE ~LastPage(n)
  <2>1. /\ known' = TRUE /\ rows' = rows \o docs /\ page' = NoPage /\ cursor' = "idle" /\ UNCHANGED <<ended, freeing>>
    BY <1>6 DEF Receive, CursorAt
  <2>2. SearchTypes'
    <3>1. rows' \in Seq(Nat)
      BY <1>1, <2>1, ConcatProperties
    <3> QED BY <1>2, <1>4, <2>1, <3>1, SearchNumbers DEF SearchInv, SearchTypes
  <2>3. PagesInTurn'
    BY <1>2, <1>3, <2>1, SearchNumbers DEF PagesInTurn, InRequest, Scrolls
  <2>4. RowsInOrder'
    <3> SUFFICES ASSUME ~cut PROVE RowsInOrder'
      BY <1>2 DEF RowsInOrder
    <3>1. Len(rows') = Len(rows) + n /\ \A i \in 1 .. Len(rows') : rows'[i] = i
      BY <2>1, PageJoins
    <3>2. Len(page'.docs) = 0 /\ Len(rows') \in Nat /\ Len(rows') + 0 = Len(rows') /\ ~InRequest' /\ ended' = "no"
      <4>1. Len(page'.docs) = 0 /\ ~InRequest' /\ ended' = "no"
        BY <1>3, <2>1, SearchNumbers DEF InRequest
      <4> QED BY <1>1, <3>1, <4>1
    <3>3. /\ Len(rows') <= Total /\ lastSort' = Len(rows')
          /\ remaining' = IF limit = NoLimit THEN NoLimit ELSE IF Len(rows') <= limit THEN limit - Len(rows') ELSE 0
          /\ Scrolls => position = Len(rows')
      BY <3>1, PageCounts
    <3>4. ~Scrolls => limit = NoLimit \/ Len(rows') <= limit
      BY <3>1 DEF SearchInv, RowsInOrder
    <3>5. Scrolls' = Scrolls /\ UNCHANGED <<limit, position>>
      BY <1>2 DEF Scrolls, Server
    <3> QED BY <3>1, <3>2, <3>3, <3>4, <3>5 DEF RowsInOrder
  <2> QED BY <2>2, <2>3, <2>4 DEF SearchInv
<1> QED BY <1>5, <1>6

\* The result ends early; what the cursor has not heard of stays with the server.
LEMMA StopsKeeps == ASSUME SearchInv, RequestFails \/ GiveUp \/ ShardsFail PROVE SearchInv'
<1>1. /\ cursor \in {"asking", "polling", "finishing"} /\ cursor' \in {"idle", "ending"} /\ page' = NoPage
      /\ ended' \in {"error", "given_up"}
      /\ UNCHANGED <<mode, size, remaining, lastSort, rows, position, scrolled, leaked, limit, cut, grew>>
      /\ \/ context' = context /\ known' = FALSE /\ freeing' = TRUE
         \/ /\ context' = IF known THEN context ELSE Unheard(context)
            /\ \/ known' = FALSE /\ freeing' = (freeing \/ known)
               \/ cursor' = "idle" /\ UNCHANGED <<known, freeing>>
  BY DEF RequestFails, GiveUp, ShardsFail, Release, CursorAt, Server, InRequest
<1>2. known \in BOOLEAN /\ freeing = FALSE /\ ~leaked /\ context \in {"none", "open", "forgotten"}
  <2>1. known \in BOOLEAN /\ freeing \in BOOLEAN /\ context \in {"none", "open", "forgotten"}
    BY DEF SearchInv, SearchTypes
  <2>2. ~freeing /\ ~leaked
    BY <1>1 DEF SearchInv, PagesInTurn, InRequest
  <2> QED BY <2>1, <2>2
<1>3. /\ context' \in {"none", "open", "forgotten"} /\ known' \in BOOLEAN /\ freeing' \in BOOLEAN
      /\ context' = "open" => known' \/ freeing'
      /\ freeing' => ~known'
      /\ cursor' = "ending" => ~known'
  <2>1. Unheard(context) \in {"none", "forgotten"}
    BY DEF Unheard
  <2>2. CASE context' = context /\ known' = FALSE /\ freeing' = TRUE
    BY <1>2, <2>2
  <2>3. CASE context' = (IF known THEN context ELSE Unheard(context)) /\ known' = FALSE /\ freeing' = (freeing \/ known)
    BY <1>2, <2>1, <2>3
  <2>4. CASE context' = (IF known THEN context ELSE Unheard(context)) /\ cursor' = "idle" /\ UNCHANGED <<known, freeing>>
    BY <1>2, <2>1, <2>4
  <2> QED BY <1>1, <2>2, <2>3, <2>4
<1>4. SearchTypes'
  BY <1>1, <1>3, SearchNumbers DEF SearchInv, SearchTypes
<1>5. PagesInTurn'
  BY <1>1, <1>2, <1>3, SearchNumbers DEF PagesInTurn, InRequest
<1>6. RowsInOrder'
  BY <1>1, RowsStay DEF InRequest
<1> QED BY <1>4, <1>5, <1>6 DEF SearchInv

----------------------------------------------------------------------------
\* A request that releases the context is answered, refused or lost.
LEMMA FreedKeeps == ASSUME SearchInv, Freed \/ FreeFails PROVE SearchInv'
<1>1. /\ freeing /\ freeing' = FALSE
      /\ context' = "none" \/ (context' = context /\ leaked' = TRUE)
      /\ leaked' = leaked \/ leaked' = TRUE
      /\ UNCHANGED <<mode, cursor, size, page, position, scrolled, limit, cut, grew, remaining, lastSort, ended, known, rows>>
  BY DEF Freed, FreeFails, Reader, Server
<1>2. /\ ended # "no" \/ cursor \in {"closing", "gone"}
      /\ ~InRequest /\ cursor # "opening" /\ ~known
  BY <1>1 DEF SearchInv, PagesInTurn, InRequest
<1>3. SearchTypes'
  <2>1. leaked' \in BOOLEAN /\ freeing' \in BOOLEAN /\ context' \in {"none", "open", "forgotten"}
    BY <1>1 DEF SearchInv, SearchTypes
  <2> QED BY <1>1, <2>1 DEF SearchInv, SearchTypes
<1>4. PagesInTurn'
  BY <1>1, <1>2 DEF SearchInv, PagesInTurn, InRequest, Scrolls
<1>5. RowsInOrder'
  BY <1>1, <1>2, RowsStay DEF InRequest
<1> QED BY <1>3, <1>4, <1>5 DEF SearchInv

\* The cursor goes on behind it, with the page it has read.
LEMMA ReleasedKeeps == ASSUME SearchInv, Released PROVE SearchInv'
<1> DEFINE docs == page.docs
<1>1. /\ cursor \in {"ending", "closing"} /\ ~freeing
      /\ cursor' = (IF cursor = "ending" THEN "idle" ELSE "gone") /\ rows' = rows \o docs /\ page' = NoPage
      /\ UNCHANGED <<mode, size, remaining, lastSort, ended, known, freeing, leaked, limit, cut, grew,
                     context, position, scrolled>>
  BY DEF Released, CursorAt, Server
<1>2. /\ rows \in Seq(Nat) /\ docs \in Seq(Nat) /\ Len(rows) \in Nat /\ Len(docs) \in Nat
      /\ limit \in Nat \cup {NoLimit} /\ Total \in Nat
  BY SearchNumbers, LenProperties DEF SearchInv, SearchTypes
<1>3. /\ cursor = "ending" => ended # "no"
      /\ cursor = "closing" => docs = <<>>
      /\ ~known /\ ~InRequest
      /\ context = "open" => leaked
  BY <1>1 DEF SearchInv, PagesInTurn, InRequest
<1>4. SearchTypes'
  <2>1. rows' \in Seq(Nat)
    BY <1>1, <1>2, ConcatProperties
  <2> QED BY <1>1, <2>1, SearchNumbers DEF SearchInv, SearchTypes
<1>5. PagesInTurn'
  BY <1>1, <1>3, SearchNumbers DEF PagesInTurn, InRequest
<1>6. RowsInOrder'
  <2> SUFFICES ASSUME ~cut PROVE RowsInOrder'
    BY <1>1 DEF RowsInOrder
  <2>1. Len(rows') = Len(rows) + Len(docs) /\ \A i \in 1 .. Len(rows') : rows'[i] = i
    BY <1>1, PageJoins
  <2>2. Len(page'.docs) = 0 /\ Len(rows') \in Nat /\ Len(rows') + 0 = Len(rows') /\ ~InRequest'
    <3>1. Len(page'.docs) = 0 /\ ~InRequest'
      BY <1>1, SearchNumbers DEF InRequest
    <3> QED BY <1>2, <2>1, <3>1
  <2>3. /\ Len(rows') <= Total
        /\ ~Scrolls => limit = NoLimit \/ Len(rows') <= limit
        /\ ended = "clean" /\ ~grew => Len(rows') >= Wanted
    BY <2>1 DEF SearchInv, RowsInOrder
  <2>4. ended = "no" => /\ lastSort = Len(rows')
                        /\ remaining = IF limit = NoLimit THEN NoLimit ELSE IF Len(rows') <= limit THEN limit - Len(rows') ELSE 0
                        /\ Scrolls => position = Len(rows')
    <3>1. ended = "no" => Len(docs) = 0 /\ Len(rows') = Len(rows)
      BY <1>1, <1>2, <1>3, <2>1, EmptySeq
    <3> QED BY <1>2, <2>1, <3>1 DEF SearchInv, RowsInOrder
  <2>5. Scrolls' = Scrolls /\ Wanted' = Wanted
    BY <1>1 DEF Scrolls, Wanted
  <2> QED BY <1>1, <2>1, <2>2, <2>3, <2>4, <2>5 DEF RowsInOrder
<1> QED BY <1>4, <1>5, <1>6 DEF SearchInv

\* The cursor is given up while it waits for the release, closed or dropped.
LEMMA LeavesKeeps == ASSUME SearchInv, GiveUpRelease \/ CloseCursor \/ DropCursor PROVE SearchInv'
<1>1. /\ UNCHANGED <<mode, size, remaining, lastSort, rows, limit, cut, grew, context, position, scrolled>>
      /\ cursor \in {"ending", "closing", "idle"}
      /\ \/ cursor = "ending" /\ cursor' = "idle" /\ ended' = "given_up" /\ page' = NoPage
         \/ cursor = "closing" /\ cursor' = "gone" /\ ended' = ended /\ page' = NoPage
         \/ cursor = "idle" /\ cursor' \in {"closing", "gone"} /\ known' = FALSE /\ UNCHANGED <<ended, page>>
      /\ \/ freeing' = (freeing \/ known) /\ leaked' = leaked
         \/ leaked' = TRUE /\ freeing' \in {freeing, FALSE}
      /\ known' \in {known, FALSE}
  <2>1. GiveUpRelease => ~known
    BY DEF GiveUpRelease, SearchInv, PagesInTurn
  <2>2. freeing \in BOOLEAN
    BY DEF SearchInv, SearchTypes
  <2>3. CASE GiveUpRelease
    BY <2>1, <2>2, <2>3 DEF GiveUpRelease, CursorAt, Server
  <2>4. CASE CloseCursor
    BY <2>4 DEF CloseCursor, Release, Server
  <2>5. CASE DropCursor
    BY <2>5 DEF DropCursor, CursorAt, Server
  <2> QED BY <2>3, <2>4, <2>5
<1>2. /\ known \in BOOLEAN /\ freeing \in BOOLEAN /\ leaked \in BOOLEAN
      /\ context = "open" => known \/ freeing \/ leaked
      /\ ~InRequest /\ ~InRequest' /\ ~known'
      /\ cursor # "ending" => ~page.there /\ page.docs = <<>>
  <2>1. known \in BOOLEAN /\ freeing \in BOOLEAN /\ leaked \in BOOLEAN
    BY DEF SearchInv, SearchTypes
  <2>2. ~InRequest /\ ~InRequest'
    BY <1>1 DEF InRequest
  <2>3. /\ context = "open" => known \/ freeing \/ leaked
        /\ cursor # "ending" => ~page.there /\ page.docs = <<>>
        /\ cursor \in {"ending", "closing"} => ~known
    BY <1>1, <2>2 DEF SearchInv, PagesInTurn
  <2>4. ~known'
    BY <1>1, <2>3
  <2> QED BY <2>1, <2>2, <2>3, <2>4
<1>3. \/ page' = page /\ ended' = ended /\ ~page.there
      \/ page' = NoPage /\ ended' = "given_up"
  <2>1. ASSUME ~page.there PROVE page = NoPage
    <3>1. page \in [there : BOOLEAN, docs : Seq(Nat)] /\ page.docs = <<>>
      BY <2>1 DEF SearchInv, SearchTypes, PagesInTurn
    <3>2. page = [there |-> FALSE, docs |-> <<>>]
      BY <2>1, <3>1
    <3> QED BY <3>2 DEF NoPage
  <2> QED BY <1>1, <1>2, <2>1
<1>4. leaked' \in BOOLEAN /\ freeing' \in BOOLEAN /\ (context' = "open" => freeing' \/ leaked')
  BY <1>1, <1>2
<1>5. SearchTypes'
  BY <1>1, <1>2, <1>3, <1>4, SearchNumbers DEF SearchInv, SearchTypes
<1>6. PagesInTurn'
  <2>1. ~page'.there /\ page'.docs = <<>>
    BY <1>3, SearchNumbers DEF SearchInv, PagesInTurn
  <2>2. ended' = "no" => cursor' \in {"closing", "gone"}
    BY <1>1
  <2>3. cursor' \notin {"opening", "ending"}
    BY <1>1
  <2> QED BY <1>2, <1>4, <2>1, <2>2, <2>3 DEF PagesInTurn
<1>7. RowsInOrder'
  BY <1>1, <1>2, <1>3, RowsStay
<1> QED BY <1>5, <1>6, <1>7 DEF SearchInv

LEMMA SearchKeeps == SearchInv /\ [SearchNext]_esVars => SearchInv'
<1> SUFFICES ASSUME SearchInv, [SearchNext]_esVars PROVE SearchInv'
  OBVIOUS
<1>1. CASE SearchNext
  BY <1>1, OpenScanKeeps, NextBatchKeeps, RequestKeeps, ReceiveKeeps, StopsKeeps, FreedKeeps, ReleasedKeeps,
     LeavesKeeps DEF SearchNext
<1>2. CASE UNCHANGED esVars
  <2>1. UNCHANGED <<mode, cursor, size, remaining, lastSort, ended, known, rows, page, context, position, scrolled,
                    freeing, leaked, limit, cut, grew>>
    BY <1>2 DEF esVars
  <2>2. SearchTypes'
    BY <2>1 DEF SearchInv, SearchTypes
  <2>3. PagesInTurn'
    BY <2>1 DEF SearchInv, PagesInTurn, InRequest, Scrolls
  <2>4. RowsInOrder'
    BY <2>1 DEF SearchInv, RowsInOrder, InRequest, AskedOf, Wanted, Scrolls
  <2> QED BY <2>2, <2>3, <2>4 DEF SearchInv
<1> QED BY <1>1, <1>2

LEMMA SearchInvHolds == SearchSpec => []SearchInv
BY SearchInitHolds, SearchKeeps, PTL DEF SearchSpec

\* Whatever the number of matches, the page sizes asked for and the limit, a search hands
\* out the matches in order, each once and none left out, never more than its limit
\* (a scroll aside), and an end without an error comes only behind the last that is
\* wanted (SearchCursor::next_batch).
THEOREM PagesAddUp == SearchSpec => []PagesAreWhole
<1>1. ASSUME SearchInv PROVE PagesAreWhole
  <2> SUFFICES ASSUME ~cut
               PROVE  /\ rows = [i \in 1 .. Len(rows) |-> i]
                      /\ ~Scrolls => Len(rows) <= Wanted
                      /\ ended = "clean" /\ cursor # "ending" /\ ~grew => Len(rows) >= Wanted
    BY DEF PagesAreWhole
  <2>1. rows \in Seq(Nat) /\ limit \in Nat \cup {NoLimit} /\ Len(page.docs) \in Nat
    BY <1>1, SearchNumbers DEF SearchInv, SearchTypes
  <2>2. Len(rows) \in Nat /\ rows \in [1 .. Len(rows) -> Nat]
    BY <2>1, LenProperties
  <2>3. /\ \A i \in 1 .. Len(rows) : rows[i] = i
        /\ Len(rows) + Len(page.docs) <= Total
        /\ ~Scrolls => limit = NoLimit \/ Len(rows) + Len(page.docs) <= limit
        /\ ended = "clean" /\ ~grew => Len(rows) + Len(page.docs) >= Wanted
    BY <1>1 DEF SearchInv, RowsInOrder
  <2>4. ended = "clean" /\ cursor # "ending" => Len(page.docs) = 0 /\ Len(rows) + Len(page.docs) = Len(rows)
    <3>1. ended = "clean" /\ cursor # "ending" => page.docs = <<>>
      BY <1>1 DEF SearchInv, PagesInTurn, InRequest
    <3>2. page.docs = <<>> => Len(page.docs) = 0 /\ Len(rows) + Len(page.docs) = Len(rows)
      BY <2>2
    <3> QED BY <3>1, <3>2
  <2>5. rows = [i \in 1 .. Len(rows) |-> i]
    BY <2>2, <2>3
  <2>6. ~Scrolls => Len(rows) <= Wanted
    BY <2>1, <2>2, <2>3, SearchNumbers DEF Wanted, Least
  <2> QED BY <2>3, <2>4, <2>5, <2>6
<1> QED BY <1>1, SearchInvHolds, PTL

\* However a result ends (read to its end, failed, given up in a request or in a release,
\* closed or dropped), a point-in-time or scroll that is open is one whose id the cursor
\* has or is being told, one whose release is under way, or one whose only release was
\* refused or lost; and none is released under a request that uses it or by two requests
\* (SearchCursor's release_context, Drop).
THEOREM ContextsAreReleased == SearchSpec => []ContextsGoBack
<1>1. ASSUME SearchInv PROVE ContextsGoBack
  BY <1>1 DEF SearchInv, PagesInTurn, ContextsGoBack
<1> QED BY <1>1, SearchInvHolds, PTL

----------------------------------------------------------------------------
\* What the numbers of a search are bounded by: the matches, the page sizes and the limit.
Sizes == {0} \cup Hints \cup 0 .. limit
SearchBounds ==
    /\ remaining \in -1 .. limit /\ size \in {0} \cup Hints \cup 1 .. limit /\ scrolled \in Sizes
    /\ lastSort \in 0 .. Total /\ position \in 0 .. Total
    /\ rows \in Seq(1 .. Total) /\ page.docs \in Seq(1 .. Total)
    /\ search \in {"none", "kept", "forgotten"}

LEMMA BoundsAreTypes == ASSUME SearchInv, SearchBounds PROVE SearchTypeOK
BY DEF SearchInv, SearchTypes, SearchBounds, Sizes, SearchTypeOK

LEMMA BoundsStart == SearchInit => SearchBounds
<1> SUFFICES ASSUME SearchInit PROVE SearchBounds
  OBVIOUS
<1>1. /\ limit \in Nat \cup {NoLimit} /\ remaining = limit /\ size = 0 /\ lastSort = 0 /\ rows = <<>> /\ page.docs = <<>>
      /\ position = 0 /\ scrolled = 0 /\ search = "none" /\ Total \in Nat
  BY SearchNumbers DEF SearchInit
<1>2. remaining \in -1 .. limit
  BY <1>1 DEF NoLimit
<1>3. <<>> \in Seq(1 .. Total)
  OBVIOUS
<1> QED BY <1>1, <1>2, <1>3 DEF SearchBounds, Sizes

\* A page holds matches, and leaves a scroll among them.
LEMMA PagesAreMatches ==
    ASSUME SearchInv, SearchBounds, Answer, UNCHANGED <<size, limit, remaining, lastSort, rows, search>>
    PROVE  SearchBounds'
<1>1. /\ Total \in Nat /\ lastSort \in 0 .. Total /\ position \in 0 .. Total /\ size \in Nat /\ scrolled \in Nat
      /\ limit \in Nat \cup {NoLimit}
  BY SearchNumbers DEF SearchBounds, SearchInv, SearchTypes
<1>2. From \in 0 .. Total /\ Left = Total - From
  BY <1>1 DEF From, Left
<1>3. Asked \in Nat /\ Asked \in Sizes
  <2>1. size \in Sizes
    BY <1>1 DEF SearchBounds, Sizes
  <2> QED BY <1>1, <2>1 DEF Asked, SearchBounds
<1>4. PICK skip \in 0 .. 1, n \in 0 .. Least(Asked, Left) :
         /\ skip + n <= Left
         /\ page' = [there |-> TRUE, docs |-> [i \in 1 .. n |-> From + skip + i]]
         /\ IF Scrolls
            THEN context' = "open" /\ position' = From + skip + n /\ scrolled' = Asked
            ELSE UNCHANGED <<context, position, scrolled>>
  BY DEF Answer
<1>5. n \in Nat /\ skip \in Nat
  BY <1>2, <1>3 DEF Least
<1>6. page'.docs \in Seq(1 .. Total)
  <2> DEFINE docs == [i \in 1 .. n |-> From + skip + i]
  <2>1. ASSUME NEW i \in 1 .. n PROVE From + skip + i \in 1 .. Total
    BY <1>1, <1>2, <1>4, <1>5
  <2>2. docs \in [1 .. n -> 1 .. Total]
    BY <2>1
  <2>3. docs \in Seq(1 .. Total)
    BY <1>5, <2>2
  <2>4. page'.docs = docs
    BY <1>4
  <2> QED BY <2>3, <2>4
<1>7. position' \in 0 .. Total
  BY <1>1, <1>2, <1>4, <1>5
<1>8. scrolled' \in Sizes
  BY <1>3, <1>4 DEF SearchBounds
<1> QED BY <1>6, <1>7, <1>8 DEF SearchBounds, Sizes

LEMMA ReceiveIsBounded == ASSUME SearchInv, SearchBounds, Receive PROVE SearchBounds'
<1> DEFINE docs == page.docs
           n == Len(docs)
<1>1. /\ docs \in Seq(1 .. Total) /\ rows \in Seq(1 .. Total) /\ lastSort \in 0 .. Total /\ remaining \in -1 .. limit
      /\ limit \in Nat \cup {NoLimit} /\ Total \in Nat
  BY SearchNumbers DEF SearchBounds, SearchInv, SearchTypes
<1>2. n \in Nat /\ (n # 0 => docs[n] \in 1 .. Total)
  BY <1>1, LenProperties
<1>3. /\ \/ rows' = rows \o docs /\ page' = NoPage
         \/ UNCHANGED <<rows, page>>
      /\ lastSort' = IF n = 0 THEN lastSort ELSE docs[n]
      /\ remaining' = IF remaining = NoLimit THEN NoLimit ELSE remaining - Least(n, remaining)
      /\ UNCHANGED <<size, limit, position, scrolled, search>>
  BY DEF Receive, LastHit, Server
<1>4. rows' \in Seq(1 .. Total)
  BY <1>1, <1>3, ConcatProperties
<1>5. page'.docs \in Seq(1 .. Total)
  <2>1. CASE page' = NoPage
    BY <2>1, SearchNumbers
  <2>2. CASE page' = page
    BY <1>1, <2>2
  <2> QED BY <1>3, <2>1, <2>2
<1> HIDE DEF docs, n
<1>6. remaining' \in -1 .. limit
  <2>1. remaining = NoLimit => remaining' = remaining
    BY <1>3
  <2>2. remaining # NoLimit => remaining' \in 0 .. remaining
    BY <1>1, <1>2, <1>3 DEF Least, NoLimit
  <2>3. limit \in Int
    BY <1>1 DEF NoLimit
  <2> QED BY <1>1, <2>1, <2>2, <2>3
<1>7. lastSort' \in 0 .. Total
  BY <1>1, <1>2, <1>3
<1> QED BY <1>3, <1>4, <1>5, <1>6, <1>7 DEF SearchBounds, Sizes

LEMMA BoundsStay == ASSUME SearchInv, SearchBounds, [SearchNext]_esVars PROVE SearchBounds'
<1> DEFINE same == UNCHANGED <<remaining, lastSort, rows, position, scrolled, limit>>
<1>1. CASE AnswerPage \/ PollAsync
  BY <1>1, PagesAreMatches DEF AnswerPage, PollAsync, Reader
<1>2. CASE Receive
  BY <1>2, ReceiveIsBounded
<1>3. ASSUME NEW h \in Hints, NextBatch(h) PROVE SearchBounds'
  <2>1. same /\ UNCHANGED <<page, search>>
    BY <1>3 DEF NextBatch, Server
  <2>2. size' = size \/ (remaining # 0 /\ size' = IF remaining = NoLimit THEN h ELSE Least(h, remaining))
    BY <1>3 DEF NextBatch
  <2>3. size' \in {0} \cup Hints \cup 1 .. limit
    <3>1. remaining \in -1 .. limit /\ limit \in Nat \cup {NoLimit} /\ h \in Nat \ {0}
      BY SearchNumbers DEF SearchBounds, SearchInv, SearchTypes
    <3>2. CASE size' = size
      BY <2>1, <3>2 DEF SearchBounds
    <3>3. CASE size' = h
      BY <3>3
    <3>4. CASE remaining # 0 /\ remaining # NoLimit /\ size' = remaining
      BY <3>1, <3>4 DEF NoLimit
    <3> QED BY <2>2, <3>2, <3>3, <3>4 DEF Least
  <2> QED BY <2>1, <2>3 DEF SearchBounds, Sizes
<1>4. CASE OpenScan
  BY <1>4 DEF OpenScan, SearchBounds, Sizes
<1>5. CASE SubmitAsync \/ FinishAsync
  BY <1>5 DEF SubmitAsync, FinishAsync, Reader, SearchBounds, Sizes
<1>6. CASE RequestFails \/ GiveUp \/ ShardsFail
  <2>1. same /\ page' = NoPage /\ search' \in {"none", Unheard(search), search} /\ UNCHANGED size
    BY <1>6 DEF RequestFails, GiveUp, ShardsFail, Server
  <2>2. page'.docs \in Seq(1 .. Total)
    BY <2>1, SearchNumbers
  <2>3. search' \in {"none", "kept", "forgotten"}
    BY <2>1 DEF Unheard, SearchBounds
  <2> QED BY <2>1, <2>2, <2>3 DEF SearchBounds, Sizes
<1>7. CASE Freed \/ FreeFails \/ GiveUpRelease \/ CloseCursor \/ DropCursor
  <2>1. same /\ page' \in {page, NoPage} /\ UNCHANGED <<size, search>>
    BY <1>7 DEF Freed, FreeFails, GiveUpRelease, CloseCursor, DropCursor, Server, Reader
  <2>2. page'.docs \in Seq(1 .. Total)
    BY <2>1, SearchNumbers DEF SearchBounds
  <2> QED BY <2>1, <2>2 DEF SearchBounds, Sizes
<1>9. CASE Released
  <2>1. /\ rows' = rows \o page.docs /\ page' = NoPage
        /\ UNCHANGED <<remaining, lastSort, position, scrolled, limit, size, search>>
    BY <1>9 DEF Released, Server
  <2>2. rows' \in Seq(1 .. Total) /\ page'.docs \in Seq(1 .. Total)
    BY <2>1, SearchNumbers, ConcatProperties DEF SearchBounds
  <2> QED BY <2>1, <2>2 DEF SearchBounds, Sizes
<1>8. CASE UNCHANGED esVars
  BY <1>8 DEF esVars, SearchBounds, Sizes
<1> QED BY <1>1, <1>2, <1>3, <1>4, <1>5, <1>6, <1>7, <1>8, <1>9 DEF SearchNext

\* The cursor, the rows and what the server keeps for a search have their types: each row
\* is a match, and no page is asked for beyond a hint of the feeder or the limit.
THEOREM SearchesKeepTypes == SearchSpec => []SearchTypeOK
BY SearchInitHolds, SearchKeeps, BoundsStart, BoundsStay, BoundsAreTypes, PTL DEF SearchSpec

-----------------------------------------------------------------------------
(***************************************************************************)
(* SqliteWorker                                                            *)
(*                                                                         *)
(* A batch of mutations is written as a whole or not at all, whatever the  *)
(* other callers of the connection ask for, cancel or let go of: for any   *)
(* number of calls and cancels, and batches of any length.                 *)
(*                                                                         *)
(* The argument: the worker begins a batch only outside of a transaction,  *)
(* and until it is over nothing but the batch itself writes                *)
(* (BatchUnderWay).  Of a batch that is over nothing is left in an open    *)
(* transaction, unless SQLite did not end it (BatchesBefore), so that what *)
(* others commit and roll back later does not touch it.                    *)
(***************************************************************************)

Answers == {"none", "awaited", "cursor", "ok", "end", "failed", "let_go"}

\* Every job in the channel is asked for once, and not begun.
ChannelInOrder ==
    \A i \in 1 .. Len(jobs) :
        /\ asked[jobs[i]] # Unasked /\ jobs[i] # Job /\ jobs[i] \notin managed
        /\ answer[jobs[i]] \in {"awaited", "let_go"}
        /\ \A j \in 1 .. Len(jobs) : jobs[j] = jobs[i] => j = i

\* What is not begun has written nothing.
Ahead(n) == asked[n] = Unasked \/ \E i \in 1 .. Len(jobs) : jobs[i] = n
NothingAhead == \A n \in CallIds : Ahead(n) => Of(n) \cap (unsaved \cup durable) = {}

\* What the worker is at; a batch that is not over has not been answered.
WorkInTurn ==
    /\ Job = 0 <=> doing.at \in {"idle", "ended"}
    /\ Job # 0 => asked[Job] # Unasked
    /\ doing.at = "statement" => OpOf(Job) # "mutate"
    /\ doing.at \in {"begin", "commit", "rollback"} => Job \in managed
    /\ doing.at = "mutation" => doing.part # 0
    /\ \A n \in managed : OpOf(n) = "mutate" /\ (answer[n] = "awaited" => n = Job)
    /\ Job \in managed => answer[Job] \in {"awaited", "let_go"}
    /\ \A n \in CallIds : answer[n] = "cursor" => OpOf(n) = "scan"

\* What the batch that is under way has written so far, and where.
BatchUnderWay ==
    ~stuck /\ Job \in managed =>
        /\ Of(Job) \cap durable = {}
        /\ doing.at = "begin" => Of(Job) \cap unsaved = {}
        /\ doing.at = "mutation" => inTx /\ Of(Job) \cap unsaved = {Job} \X (1 .. doing.part - 1)
        /\ doing.at = "commit" => inTx /\ Of(Job) \subseteq unsaved

\* What is true of a batch that is over.
BatchSettled(n) ==
    /\ Of(n) \cap unsaved = {}
    /\ Of(n) \cap durable \in {{}, Of(n)}
    /\ answer[n] = "ok" => Of(n) \subseteq durable
    /\ answer[n] = "failed" => Of(n) \cap durable = {}

BatchesBefore == ~stuck => \A n \in managed \ {Job} : BatchSettled(n)

WorkerInv == WorkerTypeOK /\ ChannelInOrder /\ NothingAhead /\ WorkInTurn /\ BatchUnderWay /\ BatchesBefore

\* The first change of a statement is one; what a batch changes.
LEMMA WorkerNumbers ==
    /\ MaxCalls \in Nat /\ MaxInterrupts \in Nat /\ BatchLen \in Nat /\ 1 \in 1 .. BatchLen
    /\ 0 \notin CallIds /\ NoJob.call = 0 /\ NoJob.at = "idle" /\ Over.call = 0 /\ Over.at = "ended"
    /\ {NoJob, Over} \subseteq [call : CallIds \cup {0}, at : Labels, part : 0 .. BatchLen, doomed : BOOLEAN]
    /\ Unasked \in [op : WorkerOps \cup {"none"}, scan : CallIds \cup {0}] /\ Unasked.op = "none"
BY SqliteAssumption DEF CallIds, NoJob, Over, Unasked, Labels

LEMMA ChangesOf ==
    /\ \A n \in CallIds, k \in 1 .. BatchLen : <<n, k>> \in Changes /\ <<n, k>> \in Of(n)
    /\ \A m, n \in CallIds \cup {0} : m # n => Of(m) \cap Of(n) = {}
    /\ \A n \in CallIds : Of(n) \subseteq Changes
BY DEF Changes, Of

LEMMA WorkerInitHolds == WorkerInit => WorkerInv
<1>1. SUFFICES ASSUME WorkerInit PROVE WorkerInv
  OBVIOUS
<1>2. Len(<<>>) = 0 /\ <<>> \in Seq(CallIds)
  BY EmptySeq
<1>3. WorkerTypeOK
  <2>1. /\ asked \in [CallIds -> [op : WorkerOps \cup {"none"}, scan : CallIds \cup {0}]]
        /\ answer \in [CallIds -> Answers] /\ scans \in [CallIds -> {"none", "new", "under_way", "over"}]
    BY <1>1, WorkerNumbers DEF WorkerInit, Answers
  <2>2. /\ jobs \in Seq(CallIds)
        /\ doing \in [call : CallIds \cup {0}, at : Labels, part : 0 .. BatchLen, doomed : BOOLEAN]
    BY <1>1, <1>2, WorkerNumbers DEF WorkerInit
  <2>3. /\ unsaved \subseteq Changes /\ durable \subseteq Changes /\ (unsaved # {} => inTx)
        /\ inTx \in BOOLEAN /\ interrupted \in BOOLEAN /\ managed \subseteq CallIds /\ stuck \in BOOLEAN
    BY <1>1 DEF WorkerInit
  <2>4. cancels \in 0 .. MaxInterrupts /\ readOnly \in [session : BOOLEAN, forced : BOOLEAN, pragma : BOOLEAN]
    BY <1>1, WorkerNumbers DEF WorkerInit
  <2> QED BY <2>1, <2>2, <2>3, <2>4 DEF WorkerTypeOK, Answers
<1>4. ChannelInOrder /\ NothingAhead
  BY <1>1, <1>2 DEF WorkerInit, ChannelInOrder, NothingAhead
<1>5. WorkInTurn
  BY <1>1, WorkerNumbers DEF WorkerInit, WorkInTurn, Job
<1>6. BatchUnderWay /\ BatchesBefore
  BY <1>1 DEF WorkerInit, BatchUnderWay, BatchesBefore
<1> QED BY <1>3, <1>4, <1>5, <1>6 DEF WorkerInv

----------------------------------------------------------------------------
(* The callers *)

LEMMA EnqueueKeeps == ASSUME WorkerInv, NEW n \in CallIds, Enqueue(n) PROVE WorkerInv'
<1>1. PICK op \in Asks, s \in CallIds \cup {0} :
         /\ IF op \in {"fetch", "close"} THEN s # 0 /\ answer[s] = "cursor" ELSE s = 0
         /\ asked' = [asked EXCEPT ![n] = [op |-> op, scan |-> s]]
         /\ answer' = [m \in CallIds |->
                         IF m = n THEN IF doing = Over THEN "failed" ELSE "awaited"
                         ELSE IF m = s /\ op = "close" THEN "ok" ELSE answer[m]]
  BY DEF Enqueue
<1>2. /\ asked[n] = Unasked /\ jobs' = IF doing = Over THEN jobs ELSE Append(jobs, n)
      /\ UNCHANGED <<doing, scans, inTx, unsaved, durable, interrupted, cancels, readOnly, managed, stuck>>
      /\ jobs \in Seq(CallIds) /\ asked \in [CallIds -> [op : WorkerOps \cup {"none"}, scan : CallIds \cup {0}]]
      /\ answer \in [CallIds -> Answers] /\ op \in WorkerOps /\ op # "none" /\ Job' = Job /\ Job \in CallIds \cup {0}
      /\ managed \subseteq CallIds
  BY SqliteAssumption DEF Enqueue, storeVars, historyVars, WorkerInv, WorkerTypeOK, Answers, Job, WorkerOps
<1>3. /\ asked' \in [CallIds -> [op : WorkerOps \cup {"none"}, scan : CallIds \cup {0}]]
      /\ \A m \in CallIds \ {n} : asked'[m] = asked[m]
      /\ asked'[n] # Unasked
  BY <1>1, <1>2 DEF Unasked
<1>4. answer' \in [CallIds -> Answers]
  BY <1>1, <1>2 DEF Answers
<1>5. \A m \in CallIds : \/ answer'[m] = answer[m] /\ m # n
                         \/ m = n /\ answer'[m] = IF doing = Over THEN "failed" ELSE "awaited"
                         \/ m # n /\ answer[m] = "cursor" /\ answer'[m] = "ok"
  BY <1>1, WorkerNumbers
<1>6. OpOf(n) = "none" /\ n # Job /\ n \notin managed
  BY <1>2, WorkerNumbers DEF OpOf, WorkerInv, WorkInTurn
<1>7. \A m \in CallIds \ {n} : OpOf(m)' = OpOf(m)
  BY <1>3 DEF OpOf
<1>8. \A m \in managed : answer'[m] = answer[m] /\ OpOf(m)' = OpOf(m)
  BY <1>2, <1>5, <1>6, <1>7 DEF WorkerInv, WorkInTurn
<1>9. /\ Len(jobs) \in Nat /\ \A i \in 1 .. Len(jobs) : jobs[i] \in CallIds /\ jobs[i] # n
  BY <1>2, LenProperties DEF WorkerInv, ChannelInOrder
<1>10. /\ jobs' \in Seq(CallIds) /\ Len(jobs') \in {Len(jobs), Len(jobs) + 1}
       /\ \A i \in 1 .. Len(jobs) : jobs'[i] = jobs[i]
       /\ Len(jobs') = Len(jobs) + 1 => jobs'[Len(jobs) + 1] = n
  <2>1. CASE doing = Over
    BY <1>2, <1>9, <2>1
  <2>2. CASE doing # Over
    BY <1>2, <2>2, AppendProperties
  <2> QED BY <2>1, <2>2
<1>11. WorkerTypeOK'
  BY <1>2, <1>3, <1>4, <1>10 DEF WorkerInv, WorkerTypeOK, Answers
<1>12. ChannelInOrder'
  <2> SUFFICES ASSUME NEW i \in 1 .. Len(jobs')
               PROVE  /\ asked'[jobs'[i]] # Unasked /\ jobs'[i] # Job /\ jobs'[i] \notin managed
                      /\ answer'[jobs'[i]] \in {"awaited", "let_go"}
                      /\ \A j \in 1 .. Len(jobs') : jobs'[j] = jobs'[i] => j = i
    BY <1>2 DEF ChannelInOrder
  <2>1. \A j \in 1 .. Len(jobs') : j \in 1 .. Len(jobs) \/ (j = Len(jobs) + 1 /\ jobs'[j] = n)
    BY <1>9, <1>10
  <2>2. CASE i \in 1 .. Len(jobs)
    <3>1. jobs'[i] = jobs[i] /\ answer'[jobs[i]] = answer[jobs[i]]
      BY <1>5, <1>9, <1>10, <2>2 DEF WorkerInv, ChannelInOrder
    <3> QED BY <1>3, <1>9, <1>10, <2>1, <2>2, <3>1 DEF WorkerInv, ChannelInOrder
  <2>3. CASE i = Len(jobs) + 1 /\ jobs'[i] = n
    <3>1. answer'[n] = "awaited"
      BY <1>2, <1>5, <1>9, <2>3
    <3> QED BY <1>3, <1>6, <1>9, <1>10, <2>1, <2>3, <3>1
  <2> QED BY <2>1, <2>2, <2>3
<1>13. WorkInTurn'
  <2>1. \A m \in CallIds : answer'[m] = "cursor" => OpOf(m)' = "scan"
    BY <1>5, <1>7 DEF WorkerInv, WorkInTurn
  <2>2. Job # 0 => asked'[Job] # Unasked /\ OpOf(Job)' = OpOf(Job)
    BY <1>2, <1>3, <1>6, <1>7 DEF WorkerInv, WorkInTurn
  <2>3. \A m \in managed : OpOf(m)' = "mutate" /\ (answer'[m] = "awaited" => m = Job)
    BY <1>8 DEF WorkerInv, WorkInTurn
  <2>4. Job \in managed => answer'[Job] \in {"awaited", "let_go"}
    BY <1>8 DEF WorkerInv, WorkInTurn
  <2>5. doing.at = "statement" => OpOf(Job)' # "mutate"
    BY <2>2, WorkerNumbers DEF WorkerInv, WorkInTurn
  <2>6. /\ Job = 0 <=> doing.at \in {"idle", "ended"}
        /\ doing.at \in {"begin", "commit", "rollback"} => Job \in managed
        /\ doing.at = "mutation" => doing.part # 0
    BY DEF WorkerInv, WorkInTurn
  <2> QED BY <1>2, <2>1, <2>2, <2>3, <2>4, <2>5, <2>6 DEF WorkInTurn, OpOf
<1>14. BatchUnderWay'
  BY <1>2 DEF WorkerInv, BatchUnderWay
<1>15. BatchesBefore'
  BY <1>2, <1>8 DEF WorkerInv, BatchesBefore, BatchSettled
<1>16. NothingAhead'
  <2>1. \A m \in CallIds : Ahead(m)' => Ahead(m)
    BY <1>2, <1>3, <1>9, <1>10 DEF Ahead
  <2> QED BY <1>2, <2>1 DEF WorkerInv, NothingAhead
<1> QED BY <1>11, <1>12, <1>13, <1>14, <1>15, <1>16 DEF WorkerInv

LEMMA LetGoOfJobKeeps == ASSUME WorkerInv, NEW n \in CallIds, LetGoOfJob(n) PROVE WorkerInv'
<1>1. /\ answer[n] \in {"awaited", "cursor"} /\ answer' = [answer EXCEPT ![n] = "let_go"]
      /\ UNCHANGED <<asked, jobs, doing, scans, inTx, unsaved, durable, interrupted, cancels, readOnly, managed, stuck>>
  BY DEF LetGoOfJob, storeVars, historyVars
<1>2. answer \in [CallIds -> Answers] /\ managed \subseteq CallIds
  BY DEF WorkerInv, WorkerTypeOK, Answers
<1>3. /\ answer' \in [CallIds -> Answers] /\ answer'[n] = "let_go"
      /\ \A m \in CallIds \ {n} : answer'[m] = answer[m]
  BY <1>1, <1>2 DEF Answers
<1>4. WorkerTypeOK'
  BY <1>1, <1>3 DEF WorkerInv, WorkerTypeOK, Answers
<1>5. BatchUnderWay' /\ NothingAhead'
  BY <1>1 DEF WorkerInv, BatchUnderWay, NothingAhead, Ahead, Job
<1>8. ChannelInOrder'
  <2>1. \A i \in 1 .. Len(jobs) : jobs[i] \in CallIds
    BY LenProperties DEF WorkerInv, WorkerTypeOK
  <2> QED BY <1>1, <1>3, <2>1 DEF WorkerInv, ChannelInOrder, Job
<1>6. WorkInTurn'
  BY <1>1, <1>2, <1>3 DEF WorkerInv, WorkInTurn, Job, OpOf
<1>7. BatchesBefore'
  BY <1>1, <1>2, <1>3 DEF WorkerInv, BatchesBefore, BatchSettled, Job
<1> QED BY <1>4, <1>5, <1>6, <1>7, <1>8 DEF WorkerInv

LEMMA InterruptKeeps == ASSUME WorkerInv, Interrupt PROVE WorkerInv'
<1>1. /\ cancels' = cancels + 1 /\ cancels < MaxInterrupts /\ interrupted' = TRUE
      /\ UNCHANGED <<asked, answer, jobs, doing, scans, inTx, unsaved, durable, readOnly, managed, stuck>>
  BY DEF Interrupt, storeVars, historyVars
<1>2. cancels' \in 0 .. MaxInterrupts
  BY <1>1, WorkerNumbers DEF WorkerInv, WorkerTypeOK
<1>3. WorkerTypeOK'
  BY <1>1, <1>2 DEF WorkerInv, WorkerTypeOK
<1>4. ChannelInOrder' /\ NothingAhead' /\ WorkInTurn' /\ BatchUnderWay' /\ BatchesBefore'
  BY <1>1 DEF WorkerInv, ChannelInOrder, NothingAhead, Ahead, WorkInTurn, BatchUnderWay, BatchesBefore, BatchSettled, Job, OpOf
<1> QED BY <1>3, <1>4 DEF WorkerInv

----------------------------------------------------------------------------
(* Requests that need one statement *)

\* What is known while the worker runs a statement that is no batch.
LEMMA StatementFacts ==
    ASSUME WorkerInv, doing.at = "statement"
    PROVE  Job \in CallIds /\ Job \notin managed
<1>1. Job \in CallIds \cup {0}
  BY DEF WorkerInv, WorkerTypeOK, Job
<1> QED BY <1>1 DEF WorkerInv, WorkInTurn

\* The transaction, whatever a statement of the call that is worked on does to it.
StoreMoves ==
    /\ inTx' \in BOOLEAN /\ (unsaved' # {} => inTx')
    /\ durable \subseteq durable' /\ durable' \subseteq durable \cup unsaved \cup Of(Job)
    /\ unsaved' \subseteq unsaved \cup Of(Job)

LEMMA StoreSteps ==
    ASSUME WorkerTypeOK, Job \in CallIds, NEW k \in 1 .. BatchLen,
           Begins \/ Commits \/ RollsBack \/ Writes(<<Job, k>>) \/ ExecuteFails \/ UNCHANGED storeVars
    PROVE  StoreMoves
<1>1. inTx \in BOOLEAN /\ (unsaved # {} => inTx) /\ <<Job, k>> \in Of(Job)
  BY ChangesOf DEF WorkerTypeOK
<1>2. Begins \/ Commits \/ RollsBack \/ Writes(<<Job, k>>) \/ UNCHANGED storeVars
  BY DEF ExecuteFails
<1> QED BY <1>1, <1>2 DEF Begins, Commits, RollsBack, Writes, storeVars, StoreMoves

\* It touches neither what is in the channel nor what is over.
LEMMA AheadStays ==
    ASSUME WorkerInv, Job \in CallIds, StoreMoves, UNCHANGED <<asked, jobs>>
    PROVE  NothingAhead'
<1> SUFFICES ASSUME NEW n \in CallIds, Ahead(n) PROVE Of(n) \cap (unsaved' \cup durable') = {}
  BY DEF NothingAhead, Ahead
<1>1. n # Job
  BY WorkerNumbers DEF Ahead, WorkerInv, WorkInTurn, ChannelInOrder
<1>2. Of(n) \cap Of(Job) = {} /\ Of(n) \cap (unsaved \cup durable) = {}
  BY <1>1, ChangesOf DEF WorkerInv, NothingAhead
<1> QED BY <1>2 DEF StoreMoves

LEMMA OthersStay ==
    ASSUME WorkerInv, Job \in CallIds, StoreMoves, ~stuck, NEW n \in managed, n # Job, answer'[n] = answer[n]
    PROVE  BatchSettled(n)'
<1>1. BatchSettled(n) /\ n \in CallIds
  BY DEF WorkerInv, WorkerTypeOK, BatchesBefore
<1>2. Of(n) \cap Of(Job) = {}
  BY <1>1, ChangesOf
<1>3. Of(n) \cap unsaved' = {} /\ Of(n) \cap durable' = Of(n) \cap durable /\ (Of(n) \subseteq durable => Of(n) \subseteq durable')
  BY <1>1, <1>2 DEF StoreMoves, BatchSettled
<1> QED BY <1>1, <1>3 DEF BatchSettled

LEMMA ChannelStays ==
    ASSUME WorkerInv, UNCHANGED <<asked, jobs, managed>>, Job' = 0 \/ Job' = Job,
           \A n \in CallIds : n = Job \/ answer'[n] = answer[n] \/ (answer[n] = "cursor" /\ answer'[n] = "ok")
    PROVE  ChannelInOrder'
<1>1. \A i \in 1 .. Len(jobs) : jobs[i] \in CallIds
  BY LenProperties DEF WorkerInv, WorkerTypeOK
<1>2. \A i \in 1 .. Len(jobs) : jobs[i] # Job' /\ answer'[jobs[i]] = answer[jobs[i]]
  BY <1>1, WorkerNumbers DEF WorkerInv, ChannelInOrder
<1> QED BY <1>2 DEF WorkerInv, ChannelInOrder

\* A call is over: if it was a batch, it is settled.
LEMMA CallEnds ==
    ASSUME WorkerInv, Job \in CallIds, StoreMoves, doing' = NoJob,
           UNCHANGED <<asked, jobs, managed, cancels, interrupted>>, stuck' \in BOOLEAN, stuck => stuck',
           answer' \in [CallIds -> Answers],
           \A n \in CallIds : n = Job \/ answer'[n] = answer[n] \/ (answer[n] = "cursor" /\ answer'[n] = "ok"),
           answer'[Job] = "cursor" => OpOf(Job) = "scan", Job \in managed => answer'[Job] # "awaited",
           \A n \in managed : n = Job /\ ~stuck' => BatchSettled(n)',
           scans' \in [CallIds -> {"none", "new", "under_way", "over"}],
           readOnly' \in [session : BOOLEAN, forced : BOOLEAN, pragma : BOOLEAN]
    PROVE  WorkerInv'
<1>1. managed \subseteq CallIds /\ Of(Job) \subseteq Changes
  BY ChangesOf DEF WorkerInv, WorkerTypeOK
<1>2. Job' = 0 /\ doing'.at = "idle" /\ 0 \notin managed /\ 0 \notin CallIds
  BY <1>1, WorkerNumbers DEF Job
<1>3. unsaved' \subseteq Changes /\ durable' \subseteq Changes
  BY <1>1 DEF StoreMoves, WorkerInv, WorkerTypeOK
<1>4. WorkerTypeOK'
  <2>1. doing' \in [call : CallIds \cup {0}, at : Labels, part : 0 .. BatchLen, doomed : BOOLEAN]
    BY WorkerNumbers
  <2> QED BY <1>3, <2>1 DEF StoreMoves, WorkerInv, WorkerTypeOK, Answers
<1>5. ChannelInOrder' /\ NothingAhead'
  BY <1>2, ChannelStays, AheadStays
<1>6. \A n \in managed \ {Job} : answer'[n] = answer[n]
  BY <1>1 DEF WorkerInv, WorkInTurn, OpOf
<1>7. WorkInTurn'
  <2>1. \A n \in CallIds : answer'[n] = "cursor" => OpOf(n)' = "scan"
    BY DEF WorkerInv, WorkInTurn, OpOf
  <2>2. \A n \in managed : OpOf(n)' = "mutate" /\ answer'[n] # "awaited"
    BY <1>6 DEF WorkerInv, WorkInTurn, OpOf
  <2> QED BY <1>2, <2>1, <2>2 DEF WorkInTurn, OpOf
<1>8. BatchUnderWay'
  BY <1>2 DEF BatchUnderWay
<1>9. BatchesBefore'
  <2> SUFFICES ASSUME ~stuck', NEW n \in managed PROVE BatchSettled(n)'
    BY DEF BatchesBefore
  <2>1. CASE n = Job
    BY <2>1
  <2>2. CASE n # Job
    BY <1>6, <2>2, OthersStay
  <2> QED BY <2>1, <2>2
<1> QED BY <1>4, <1>5, <1>7, <1>8, <1>9 DEF WorkerInv

\* Only the call that is worked on hears something.
LEMMA TellFacts ==
    ASSUME WorkerInv, Job \in CallIds, NEW a \in Answers, Tell(a)
    PROVE  /\ answer' \in [CallIds -> Answers]
           /\ \A n \in CallIds : n = Job \/ answer'[n] = answer[n]
           /\ answer'[Job] = IF answer[Job] = "awaited" THEN a ELSE answer[Job]
<1>1. answer \in [CallIds -> Answers]
  BY DEF WorkerInv, WorkerTypeOK, Answers
<1> QED BY <1>1 DEF Tell

\* The same, for a call that makes no cursor and is no scan.
LEMMA DoneKeeps ==
    ASSUME WorkerInv, Job \in CallIds, StoreMoves, Done("ok") \/ Done("failed"),
           UNCHANGED <<asked, jobs, managed, cancels>>, stuck' \in BOOLEAN, stuck => stuck',
           \A n \in managed : n = Job /\ ~stuck' => BatchSettled(n)',
           scans' \in [CallIds -> {"none", "new", "under_way", "over"}],
           readOnly' \in [session : BOOLEAN, forced : BOOLEAN, pragma : BOOLEAN]
    PROVE  WorkerInv'
<1>2. PICK a \in {"ok", "failed"} : Tell(a) /\ Rest
  BY DEF Done
<1>3. a \in Answers /\ a # "cursor"
  BY DEF Answers
<1>4. /\ answer' \in [CallIds -> Answers]
      /\ \A n \in CallIds : n = Job \/ answer'[n] = answer[n]
      /\ answer'[Job] = IF answer[Job] = "awaited" THEN a ELSE answer[Job]
  BY <1>2, <1>3, TellFacts
<1>5. (answer'[Job] = "cursor" => OpOf(Job) = "scan") /\ answer'[Job] # "awaited"
  BY <1>2, <1>3, <1>4 DEF WorkerInv, WorkInTurn
<1> QED BY <1>2, <1>4, <1>5, CallEnds DEF Rest

LEMMA ReadsKeep == ASSUME WorkerInv, Prepare \/ CloseScan \/ Look PROVE WorkerInv'
<1>1. /\ doing.at = "statement" /\ UNCHANGED <<asked, jobs, managed, cancels, stuck, readOnly>> /\ UNCHANGED storeVars
  BY DEF Prepare, CloseScan, Look, RunsStatement, historyVars
<1>2. /\ scans \in [CallIds -> {"none", "new", "under_way", "over"}] /\ stuck \in BOOLEAN
      /\ readOnly \in [session : BOOLEAN, forced : BOOLEAN, pragma : BOOLEAN] /\ WorkerTypeOK
  BY DEF WorkerInv, WorkerTypeOK
<1>3. StoreMoves /\ Job \in CallIds /\ Job \notin managed
  BY <1>1, <1>2, StoreSteps, StatementFacts, WorkerNumbers
<1>4. CASE Done("ok") \/ Done("failed")
  <2>1. scans' \in [CallIds -> {"none", "new", "under_way", "over"}]
    BY <1>2 DEF Prepare, CloseScan, Look
  <2> QED BY <1>1, <1>2, <1>3, <1>4, <2>1, DoneKeeps
<1>5. CASE Prepare /\ scans' = [scans EXCEPT ![Job] = "new"] /\ Done("cursor")
  <2>1. Tell("cursor") /\ Rest /\ "cursor" \in Answers /\ OpOf(Job) = "scan"
    BY <1>5 DEF Prepare, RunsStatement, Done, Answers
  <2>2. /\ answer' \in [CallIds -> Answers]
        /\ \A n \in CallIds : n = Job \/ answer'[n] = answer[n]
    BY <1>3, <2>1, TellFacts
  <2>3. scans' \in [CallIds -> {"none", "new", "under_way", "over"}]
    BY <1>2, <1>5
  <2> QED BY <1>1, <1>2, <1>3, <2>1, <2>2, <2>3, CallEnds DEF Rest
<1>6. (Done("ok") \/ Done("failed")) \/ (Prepare /\ scans' = [scans EXCEPT ![Job] = "new"] /\ Done("cursor"))
  BY DEF Prepare, CloseScan, Look
<1> QED BY <1>4, <1>5, <1>6

LEMMA FetchBatchKeeps == ASSUME WorkerInv, FetchBatch PROVE WorkerInv'
<1>1. /\ doing.at = "statement" /\ Rest /\ OpOf(Job) = "fetch"
      /\ UNCHANGED <<asked, jobs, managed, cancels, stuck, readOnly>> /\ UNCHANGED storeVars
  BY DEF FetchBatch, RunsStatement, historyVars
<1>2. /\ scans \in [CallIds -> {"none", "new", "under_way", "over"}] /\ stuck \in BOOLEAN
      /\ readOnly \in [session : BOOLEAN, forced : BOOLEAN, pragma : BOOLEAN] /\ WorkerTypeOK
      /\ answer \in [CallIds -> Answers]
  BY DEF WorkerInv, WorkerTypeOK, Answers
<1>3. StoreMoves /\ Job \in CallIds /\ Job \notin managed
  BY <1>1, <1>2, StoreSteps, StatementFacts, WorkerNumbers
<1> DEFINE s == ScanOf(Job)
<1>4. PICK state \in {"none", "under_way", "over"}, a \in {"ok", "end", "failed"} :
         /\ scans' = [scans EXCEPT ![s] = state]
         /\ answer' = [n \in CallIds |->
                         IF n = Job /\ answer[n] = "awaited" THEN a
                         ELSE IF n = s /\ a = "end" /\ answer[n] = "cursor" /\ answer[Job] = "awaited" THEN "ok"
                         ELSE answer[n]]
  BY DEF FetchBatch
<1> HIDE DEF s
<1>5. scans' \in [CallIds -> {"none", "new", "under_way", "over"}]
  BY <1>2, <1>4
<1>6. /\ answer' \in [CallIds -> Answers]
      /\ \A n \in CallIds : n = Job \/ answer'[n] = answer[n] \/ (answer[n] = "cursor" /\ answer'[n] = "ok")
  BY <1>2, <1>4 DEF Answers
<1>7. answer'[Job] = "cursor" => OpOf(Job) = "scan"
  <2>1. answer'[Job] = "cursor" => answer[Job] = "cursor"
    BY <1>3, <1>4
  <2> QED BY <1>3, <2>1 DEF WorkerInv, WorkInTurn
<1> QED BY <1>1, <1>2, <1>3, <1>5, <1>6, <1>7, CallEnds DEF Rest

LEMMA WritesKeep == ASSUME WorkerInv, Execute \/ SetReadOnly \/ Begin \/ EndTx PROVE WorkerInv'
<1>1. /\ doing.at = "statement" /\ (Done("ok") \/ Done("failed"))
      /\ UNCHANGED <<asked, jobs, managed, cancels, scans>>
  BY DEF Execute, SetReadOnly, Begin, EndTx, RunsStatement, historyVars
<1>2. /\ scans \in [CallIds -> {"none", "new", "under_way", "over"}] /\ stuck \in BOOLEAN
      /\ readOnly \in [session : BOOLEAN, forced : BOOLEAN, pragma : BOOLEAN] /\ WorkerTypeOK
  BY DEF WorkerInv, WorkerTypeOK
<1>3. stuck' \in BOOLEAN /\ (stuck => stuck')
  BY <1>2 DEF Execute, SetReadOnly, Begin, EndTx, historyVars
<1>4. StoreMoves /\ Job \in CallIds /\ Job \notin managed
  <2>1. Begins \/ Commits \/ RollsBack \/ Writes(<<Job, 1>>) \/ ExecuteFails \/ UNCHANGED storeVars
    BY DEF Execute, SetReadOnly, Begin, EndTx
  <2> QED BY <1>1, <1>2, <2>1, StoreSteps, StatementFacts, WorkerNumbers
<1>5. readOnly' \in [session : BOOLEAN, forced : BOOLEAN, pragma : BOOLEAN]
  BY <1>2 DEF Execute, SetReadOnly, Begin, EndTx
<1> QED BY <1>1, <1>2, <1>3, <1>4, <1>5, DoneKeeps

----------------------------------------------------------------------------
(* The channel *)

LEMMA GoToFacts ==
    ASSUME WorkerTypeOK, NEW n \in CallIds, NEW at \in Labels, NEW k \in 0 .. BatchLen, GoTo(n, at, k)
    PROVE  /\ doing' \in [call : CallIds \cup {0}, at : Labels, part : 0 .. BatchLen, doomed : BOOLEAN]
           /\ interrupted' \in BOOLEAN /\ doing'.call = n /\ doing'.at = at /\ doing'.part = k
<1>1. (interrupted /\ \E s \in CallIds : scans[s] = "under_way") \in BOOLEAN
  OBVIOUS
<1> QED BY <1>1 DEF GoTo

LEMMA TakeJobKeeps == ASSUME WorkerInv, Take PROVE WorkerInv'
<1> DEFINE n == Head(jobs)
           at == IF OpOf(n) # "mutate" THEN "statement" ELSE IF inTx THEN "mutation" ELSE "begin"
           k == IF at = "mutation" THEN 1 ELSE 0
<1>1. /\ doing = NoJob /\ jobs # <<>> /\ jobs' = Tail(jobs) /\ GoTo(n, at, k)
      /\ managed' = IF at = "begin" THEN managed \cup {n} ELSE managed
      /\ UNCHANGED <<asked, answer, scans, inTx, unsaved, durable, cancels, readOnly, stuck>>
  BY DEF Take, storeVars
<1>2. jobs \in Seq(CallIds) /\ WorkerTypeOK /\ managed \subseteq CallIds /\ inTx \in BOOLEAN
  BY DEF WorkerInv, WorkerTypeOK
<1>3. /\ n \in CallIds /\ jobs' \in Seq(CallIds) /\ Len(jobs) \in Nat \ {0} /\ Len(jobs') = Len(jobs) - 1
      /\ n = jobs[1] /\ \A i \in 1 .. Len(jobs') : jobs'[i] = jobs[i + 1]
  BY <1>1, <1>2, HeadTailProperties, EmptySeq
<1>4. /\ asked[n] # Unasked /\ n \notin managed /\ answer[n] \in {"awaited", "let_go"}
      /\ \A i \in 1 .. Len(jobs') : jobs'[i] # n
      /\ Of(n) \cap (unsaved \cup durable) = {}
  <2>1. 1 \in 1 .. Len(jobs) /\ \A i \in 1 .. Len(jobs') : i + 1 \in 1 .. Len(jobs) /\ i + 1 # 1
    BY <1>3
  <2>2. asked[n] # Unasked /\ n \notin managed /\ answer[n] \in {"awaited", "let_go"}
    BY <1>3, <2>1 DEF WorkerInv, ChannelInOrder
  <2>3. \A i \in 1 .. Len(jobs') : jobs'[i] # n
    BY <1>3, <2>1 DEF WorkerInv, ChannelInOrder
  <2>4. Of(n) \cap (unsaved \cup durable) = {}
    BY <1>3, <2>1 DEF WorkerInv, NothingAhead, Ahead
  <2> QED BY <2>2, <2>3, <2>4
<1>5. at \in {"statement", "mutation", "begin"} /\ at \in Labels /\ k \in 0 .. BatchLen
  BY WorkerNumbers DEF Labels
<1>6. /\ at = "statement" <=> OpOf(n) # "mutate"
      /\ at = "mutation" => inTx /\ k = 1
  OBVIOUS
<1> HIDE DEF n, at, k
<1>7. /\ doing' \in [call : CallIds \cup {0}, at : Labels, part : 0 .. BatchLen, doomed : BOOLEAN]
      /\ interrupted' \in BOOLEAN /\ Job' = n /\ doing'.at = at /\ doing'.part = k
  BY <1>1, <1>2, <1>3, <1>5, GoToFacts DEF Job
<1>8. Job = 0 /\ Job \notin managed /\ n # 0
  BY <1>1, <1>2, <1>3, WorkerNumbers DEF Job
<1>9. managed' \subseteq CallIds /\ \A m \in managed' : m \in managed \/ (m = n /\ at = "begin")
  BY <1>1, <1>2, <1>3
<1>10. WorkerTypeOK'
  BY <1>1, <1>2, <1>3, <1>7, <1>9 DEF WorkerTypeOK
<1>11. ChannelInOrder'
  <2> SUFFICES ASSUME NEW i \in 1 .. Len(jobs')
               PROVE  /\ asked[jobs'[i]] # Unasked /\ jobs'[i] # n /\ jobs'[i] \notin managed'
                      /\ answer[jobs'[i]] \in {"awaited", "let_go"}
                      /\ \A j \in 1 .. Len(jobs') : jobs'[j] = jobs'[i] => j = i
    BY <1>1, <1>7 DEF ChannelInOrder
  <2>1. i + 1 \in 1 .. Len(jobs) /\ jobs'[i] = jobs[i + 1] /\ jobs'[i] # n
    BY <1>3, <1>4
  <2>2. /\ asked[jobs[i + 1]] # Unasked /\ jobs[i + 1] \notin managed
        /\ answer[jobs[i + 1]] \in {"awaited", "let_go"}
    BY <2>1 DEF WorkerInv, ChannelInOrder
  <2>3. ASSUME NEW j \in 1 .. Len(jobs'), jobs'[j] = jobs'[i] PROVE j = i
    <3>1. j + 1 \in 1 .. Len(jobs) /\ jobs[j + 1] = jobs[i + 1]
      BY <1>3, <2>1, <2>3
    <3>2. j + 1 = i + 1
      BY <2>1, <3>1 DEF WorkerInv, ChannelInOrder
    <3> QED BY <3>2
  <2> QED BY <1>9, <2>1, <2>2, <2>3
<1>12. NothingAhead'
  <2>1. \A m \in CallIds : Ahead(m)' => Ahead(m)
    <3> SUFFICES ASSUME NEW m \in CallIds, NEW i \in 1 .. Len(jobs'), jobs'[i] = m PROVE Ahead(m)
      BY <1>1 DEF Ahead
    <3>1. i + 1 \in 1 .. Len(jobs) /\ jobs[i + 1] = m
      BY <1>3
    <3> QED BY <3>1 DEF Ahead
  <2> QED BY <1>1, <2>1 DEF WorkerInv, NothingAhead
<1>13. WorkInTurn'
  <2>1. \A m \in managed' : OpOf(m) = "mutate" /\ (answer[m] = "awaited" => m = n)
    BY <1>2, <1>6, <1>8, <1>9 DEF WorkerInv, WorkInTurn
  <2>2. n \in managed' => answer[n] \in {"awaited", "let_go"}
    BY <1>4
  <2>3. at = "begin" => n \in managed'
    BY <1>1
  <2> QED BY <1>1, <1>4, <1>5, <1>6, <1>7, <1>8, <2>1, <2>2, <2>3 DEF WorkerInv, WorkInTurn, OpOf
<1>14. BatchUnderWay'
  <2>1. n \in managed' => at = "begin"
    BY <1>4, <1>9
  <2>2. Of(n) \cap durable = {} /\ Of(n) \cap unsaved = {}
    BY <1>4
  <2> QED BY <1>1, <1>7, <2>1, <2>2 DEF BatchUnderWay
<1>15. BatchesBefore'
  BY <1>1, <1>7, <1>8, <1>9 DEF WorkerInv, BatchesBefore, BatchSettled
<1> QED BY <1>10, <1>11, <1>12, <1>13, <1>14, <1>15 DEF WorkerInv

LEMMA CloseConnKeeps == ASSUME WorkerInv, CloseConn PROVE WorkerInv'
<1>1. /\ doing = NoJob /\ doing' = Over /\ jobs' = <<>>
      /\ answer' = [n \in CallIds |->
                      IF answer[n] # "awaited" THEN answer[n] ELSE IF n = Head(jobs) THEN "ok" ELSE "failed"]
      /\ scans' = [n \in CallIds |-> "none"] /\ inTx' = FALSE /\ unsaved' = {}
      /\ UNCHANGED <<asked, durable, interrupted, cancels, readOnly, managed, stuck>>
  BY DEF CloseConn, historyVars
<1>2. answer \in [CallIds -> Answers] /\ managed \subseteq CallIds
  BY DEF WorkerInv, WorkerTypeOK, Answers
<1>3. Job = 0 /\ Job' = 0 /\ doing'.at = "ended" /\ 0 \notin CallIds /\ 0 \notin managed
  BY <1>1, <1>2, WorkerNumbers DEF Job
<1>4. /\ answer' \in [CallIds -> Answers]
      /\ \A n \in CallIds : answer'[n] = answer[n] \/ (answer[n] = "awaited" /\ answer'[n] \in {"ok", "failed"})
  BY <1>1, <1>2 DEF Answers
<1>5. \A n \in managed : answer'[n] = answer[n] /\ answer[n] # "awaited"
  BY <1>2, <1>3, <1>4 DEF WorkerInv, WorkInTurn
<1>6. WorkerTypeOK'
  <2>1. scans' \in [CallIds -> {"none", "new", "under_way", "over"}] /\ jobs' \in Seq(CallIds)
    BY <1>1, EmptySeq
  <2> QED BY <1>1, <1>4, <2>1, WorkerNumbers DEF WorkerInv, WorkerTypeOK, Answers
<1>7. ChannelInOrder' /\ NothingAhead'
  <2>1. Len(jobs') = 0
    BY <1>1, EmptySeq
  <2> QED BY <1>1, <2>1 DEF WorkerInv, ChannelInOrder, NothingAhead, Ahead
<1>8. WorkInTurn'
  <2>1. \A n \in CallIds : answer'[n] = "cursor" => OpOf(n) = "scan"
    BY <1>4 DEF WorkerInv, WorkInTurn
  <2>2. \A n \in managed : OpOf(n) = "mutate"
    BY DEF WorkerInv, WorkInTurn
  <2> QED BY <1>1, <1>3, <1>5, <2>1, <2>2 DEF WorkInTurn, OpOf
<1>9. BatchUnderWay'
  BY <1>1, <1>3 DEF BatchUnderWay
<1>10. BatchesBefore'
  BY <1>1, <1>3, <1>5 DEF WorkerInv, BatchesBefore, BatchSettled
<1> QED BY <1>6, <1>7, <1>8, <1>9, <1>10 DEF WorkerInv

----------------------------------------------------------------------------
(* Batches *)

\* What is known of the call of a batch's statement, and of the batch if it has its own
\* transaction.
LEMMA BatchFacts ==
    ASSUME WorkerInv, doing.at \in {"begin", "mutation", "commit", "rollback"}
    PROVE  /\ Job \in CallIds /\ (doing.at # "mutation" => Job \in managed)
           /\ doing.at = "mutation" => doing.part \in 1 .. BatchLen
           /\ \A n \in managed : n = Job /\ ~stuck => Of(n) \cap durable = {}
           /\ Job \in managed => answer[Job] \in {"awaited", "let_go"}
<1>1. Job \in CallIds \cup {0} /\ doing.part \in 0 .. BatchLen
  BY DEF WorkerInv, WorkerTypeOK, Job
<1>2. Job # 0 /\ (doing.at # "mutation" => Job \in managed) /\ (doing.at = "mutation" => doing.part # 0)
  BY DEF WorkerInv, WorkInTurn
<1>3. doing.at = "mutation" => doing.part \in 1 .. BatchLen
  BY <1>1, <1>2, WorkerNumbers
<1> QED BY <1>1, <1>2, <1>3 DEF WorkerInv, WorkInTurn, BatchUnderWay

\* The batch goes on with its next statement.
LEMMA BatchGoesOn ==
    ASSUME WorkerInv, Job \in CallIds, StoreMoves, NEW at \in {"mutation", "commit", "rollback"},
           NEW k \in 0 .. BatchLen, GoTo(Job, at, k), at = "mutation" => k # 0, at # "mutation" => Job \in managed,
           UNCHANGED <<asked, answer, jobs, managed, cancels, stuck, scans, readOnly>>,
           \A n \in managed : n = Job /\ ~stuck =>
               /\ Of(n) \cap durable' = {}
               /\ at = "mutation" => inTx' /\ Of(n) \cap unsaved' = {n} \X (1 .. k - 1)
               /\ at = "commit" => inTx' /\ Of(n) \subseteq unsaved'
    PROVE  WorkerInv'
<1>1. /\ doing' \in [call : CallIds \cup {0}, at : Labels, part : 0 .. BatchLen, doomed : BOOLEAN]
      /\ interrupted' \in BOOLEAN /\ doing'.at = at /\ doing'.part = k /\ Job' = Job
  <2>1. at \in Labels
    BY DEF Labels
  <2> QED BY <2>1, GoToFacts DEF WorkerInv, Job
<1>2. unsaved' \subseteq Changes /\ durable' \subseteq Changes
  BY ChangesOf DEF StoreMoves, WorkerInv, WorkerTypeOK
<1>3. WorkerTypeOK'
  BY <1>1, <1>2 DEF StoreMoves, WorkerInv, WorkerTypeOK
<1>4. ChannelInOrder' /\ NothingAhead'
  BY <1>1, ChannelStays, AheadStays
<1>5. WorkInTurn'
  BY <1>1, WorkerNumbers DEF WorkerInv, WorkInTurn, OpOf
<1>6. BatchUnderWay'
  BY <1>1 DEF BatchUnderWay
<1>7. BatchesBefore'
  BY <1>1, OthersStay DEF BatchesBefore
<1> QED BY <1>3, <1>4, <1>5, <1>6, <1>7 DEF WorkerInv

LEMMA OneChangeMore == \A n, A, k : k \in Nat \ {0} => ({n} \X (1 .. k - 1)) \cup {<<n, k>>} = {n} \X (1 .. k)
OBVIOUS

LEMMA MutateBeginsKeeps == ASSUME WorkerInv, MutateBegins PROVE WorkerInv'
<1>1. /\ doing.at = "begin" /\ UNCHANGED <<asked, jobs, scans, cancels, readOnly, managed, stuck>>
      /\ \/ Begins /\ GoTo(Job, "mutation", 1) /\ UNCHANGED answer
         \/ Done("failed") /\ UNCHANGED storeVars
  BY DEF MutateBegins, historyVars
<1>2. /\ Job \in CallIds /\ Job \in managed /\ WorkerTypeOK /\ stuck \in BOOLEAN
      /\ scans \in [CallIds -> {"none", "new", "under_way", "over"}]
      /\ readOnly \in [session : BOOLEAN, forced : BOOLEAN, pragma : BOOLEAN]
      /\ answer \in [CallIds -> Answers] /\ answer[Job] \in {"awaited", "let_go"}
  BY <1>1, BatchFacts DEF WorkerInv, WorkerTypeOK, Answers
<1>3. StoreMoves
  BY <1>1, <1>2, StoreSteps, WorkerNumbers
<1>4. \A n \in managed : n = Job /\ ~stuck => Of(n) \cap durable = {} /\ Of(n) \cap unsaved = {}
  BY <1>1 DEF WorkerInv, BatchUnderWay
<1>5. CASE Begins /\ GoTo(Job, "mutation", 1) /\ UNCHANGED answer
  <2>1. \A n : {n} \X (1 .. 1 - 1) = {}
    OBVIOUS
  <2>2. \A n \in managed : n = Job /\ ~stuck =>
            Of(n) \cap durable' = {} /\ inTx' /\ Of(n) \cap unsaved' = {n} \X (1 .. 1 - 1)
    BY <1>4, <1>5, <2>1 DEF Begins
  <2>3. 1 \in 0 .. BatchLen
    BY WorkerNumbers
  <2> QED BY <1>1, <1>2, <1>3, <1>5, <2>2, <2>3, BatchGoesOn
<1>6. CASE Done("failed") /\ UNCHANGED storeVars
  <2>1. answer'[Job] \in {"failed", "let_go"}
    BY <1>2, <1>6, TellFacts DEF Done, Answers
  <2>2. \A n \in managed : n = Job /\ ~stuck' => BatchSettled(n)'
    BY <1>1, <1>4, <1>6, <2>1 DEF BatchSettled, storeVars
  <2> QED BY <1>1, <1>2, <1>3, <1>6, <2>2, DoneKeeps
<1> QED BY <1>1, <1>5, <1>6

LEMMA MutationKeeps == ASSUME WorkerInv, Mutation PROVE WorkerInv'
<1> DEFINE k == doing.part
<1>1. /\ doing.at = "mutation" /\ UNCHANGED <<asked, jobs, scans, cancels, readOnly, managed, stuck>>
      /\ \/ /\ Writes(<<Job, k>>)
            /\ IF k < BatchLen THEN GoTo(Job, "mutation", k + 1) /\ UNCHANGED answer
               ELSE IF Manages THEN GoTo(Job, "commit", 0) /\ UNCHANGED answer
               ELSE Done("ok")
         \/ /\ ExecuteFails \/ Writes(<<Job, k>>)
            /\ IF Manages THEN GoTo(Job, "rollback", 0) /\ UNCHANGED answer ELSE Done("failed")
  BY DEF Mutation, historyVars
<1>2. /\ Job \in CallIds /\ k \in 1 .. BatchLen /\ WorkerTypeOK /\ stuck \in BOOLEAN
      /\ scans \in [CallIds -> {"none", "new", "under_way", "over"}]
      /\ readOnly \in [session : BOOLEAN, forced : BOOLEAN, pragma : BOOLEAN]
  BY <1>1, BatchFacts DEF WorkerInv, WorkerTypeOK
<1> HIDE DEF k
<1>3. StoreMoves
  BY <1>1, <1>2, StoreSteps
<1>4. \A n \in managed : n = Job /\ ~stuck =>
          Of(n) \cap durable = {} /\ inTx /\ Of(n) \cap unsaved = {n} \X (1 .. k - 1)
  BY <1>1 DEF WorkerInv, BatchUnderWay, k
<1>5. ASSUME Writes(<<Job, k>>), NEW n \in managed, n = Job, ~stuck
      PROVE  Of(n) \cap durable' = {} /\ inTx' /\ Of(n) \cap unsaved' = {n} \X (1 .. k)
  <2>1. inTx /\ unsaved' = unsaved \cup {<<n, k>>} /\ UNCHANGED <<inTx, durable>>
    BY <1>4, <1>5 DEF Writes
  <2>2. <<n, k>> \in Of(n) /\ ({n} \X (1 .. k - 1)) \cup {<<n, k>>} = {n} \X (1 .. k)
    BY <1>2, <1>5, ChangesOf, OneChangeMore
  <2> QED BY <1>4, <1>5, <2>1, <2>2
<1>6. CASE Writes(<<Job, k>>) /\ k < BatchLen /\ GoTo(Job, "mutation", k + 1) /\ UNCHANGED answer
  <2>1. k + 1 \in 0 .. BatchLen /\ k + 1 # 0 /\ (k + 1) - 1 = k
    BY <1>2, <1>6, WorkerNumbers
  <2>2. \A n \in managed : n = Job /\ ~stuck =>
            Of(n) \cap durable' = {} /\ inTx' /\ Of(n) \cap unsaved' = {n} \X (1 .. (k + 1) - 1)
    BY <1>5, <1>6, <2>1
  <2> QED BY <1>1, <1>2, <1>3, <1>6, <2>1, <2>2, BatchGoesOn
<1>7. CASE Writes(<<Job, k>>) /\ ~(k < BatchLen) /\ Manages /\ GoTo(Job, "commit", 0) /\ UNCHANGED answer
  <2>1. k = BatchLen /\ 0 \in 0 .. BatchLen
    BY <1>2, <1>7, WorkerNumbers
  <2>2. \A n \in managed : n = Job /\ ~stuck => Of(n) \cap durable' = {} /\ inTx' /\ Of(n) \subseteq unsaved'
    BY <1>5, <1>7, <2>1 DEF Of
  <2> QED BY <1>1, <1>2, <1>3, <1>7, <2>1, <2>2, BatchGoesOn DEF Manages
<1>8. CASE ~Manages /\ (Done("ok") \/ Done("failed"))
  <2>1. \A n \in managed : n = Job /\ ~stuck' => BatchSettled(n)'
    BY <1>8 DEF Manages
  <2> QED BY <1>1, <1>2, <1>3, <1>8, <2>1, DoneKeeps
<1>9. CASE (ExecuteFails \/ Writes(<<Job, k>>)) /\ Manages /\ GoTo(Job, "rollback", 0) /\ UNCHANGED answer
  <2>1. \A n \in managed : n = Job /\ ~stuck => Of(n) \cap durable' = {}
    <3>1. CASE Writes(<<Job, k>>)
      BY <1>5, <3>1
    <3>2. CASE ExecuteFails
      BY <1>4, <3>2 DEF ExecuteFails, RollsBack, storeVars
    <3> QED BY <1>9, <3>1, <3>2
  <2>2. 0 \in 0 .. BatchLen
    BY WorkerNumbers
  <2> QED BY <1>1, <1>2, <1>3, <1>9, <2>1, <2>2, BatchGoesOn DEF Manages
<1> QED BY <1>1, <1>6, <1>7, <1>8, <1>9

LEMMA MutateRollsBackKeeps == ASSUME WorkerInv, MutateRollsBack PROVE WorkerInv'
<1>1. /\ doing.at = "rollback" /\ Done("failed") /\ UNCHANGED <<asked, jobs, scans, cancels, readOnly, managed>>
      /\ RollsBack \/ UNCHANGED storeVars
      /\ stuck' = stuck \/ stuck' = TRUE
      /\ ~stuck' => unsaved' = {} \/ ~inTx'
  BY DEF MutateRollsBack, RollsBack, storeVars
<1>2. /\ Job \in CallIds /\ Job \in managed /\ WorkerTypeOK /\ stuck \in BOOLEAN
      /\ scans \in [CallIds -> {"none", "new", "under_way", "over"}]
      /\ readOnly \in [session : BOOLEAN, forced : BOOLEAN, pragma : BOOLEAN]
      /\ answer[Job] \in {"awaited", "let_go"}
      /\ \A n \in managed : n = Job /\ ~stuck => Of(n) \cap durable = {}
  BY <1>1, BatchFacts DEF WorkerInv, WorkerTypeOK
<1>3. StoreMoves
  BY <1>1, <1>2, StoreSteps, WorkerNumbers
<1>4. answer'[Job] \in {"failed", "let_go"}
  BY <1>1, <1>2, TellFacts DEF Done, Answers
<1>5. durable' = durable /\ (~stuck' => unsaved' = {}) /\ stuck' \in BOOLEAN /\ (stuck => stuck')
  BY <1>1, <1>2, <1>3 DEF RollsBack, storeVars, StoreMoves
<1>6. \A n \in managed : n = Job /\ ~stuck' => BatchSettled(n)'
  BY <1>2, <1>4, <1>5 DEF BatchSettled
<1> QED BY <1>1, <1>2, <1>3, <1>5, <1>6, DoneKeeps

LEMMA MutateCommitsKeeps == ASSUME WorkerInv, MutateCommits PROVE WorkerInv'
<1>1. /\ doing.at = "commit" /\ UNCHANGED <<asked, jobs, scans, cancels, readOnly, managed>>
      /\ \/ Commits /\ Done("ok") /\ UNCHANGED stuck
         \/ Done("failed") /\ UNCHANGED storeVars /\ stuck' = TRUE
  BY DEF MutateCommits
<1>2. /\ Job \in CallIds /\ Job \in managed /\ WorkerTypeOK /\ stuck \in BOOLEAN
      /\ scans \in [CallIds -> {"none", "new", "under_way", "over"}]
      /\ readOnly \in [session : BOOLEAN, forced : BOOLEAN, pragma : BOOLEAN]
      /\ answer[Job] \in {"awaited", "let_go"}
  BY <1>1, BatchFacts DEF WorkerInv, WorkerTypeOK
<1>3. StoreMoves /\ stuck' \in BOOLEAN /\ (stuck => stuck')
  BY <1>1, <1>2, StoreSteps, WorkerNumbers
<1>4. \A n \in managed : n = Job /\ ~stuck' => BatchSettled(n)'
  <2> SUFFICES ASSUME ~stuck', NEW n \in managed, n = Job PROVE BatchSettled(n)'
    OBVIOUS
  <2>1. Commits /\ Done("ok") /\ ~stuck
    BY <1>1
  <2>2. Of(n) \subseteq unsaved
    BY <1>1, <2>1 DEF WorkerInv, BatchUnderWay
  <2>3. answer'[n] \in {"ok", "let_go"}
    BY <1>2, <2>1, TellFacts DEF Done, Answers
  <2>4. unsaved' = {} /\ Of(n) \subseteq durable'
    BY <2>1, <2>2 DEF Commits
  <2> QED BY <2>3, <2>4 DEF BatchSettled
<1> QED BY <1>1, <1>2, <1>3, <1>4, DoneKeeps

LEMMA WorkerKeeps == WorkerInv /\ [WorkerNext]_workerVars => WorkerInv'
<1> SUFFICES ASSUME WorkerInv, [WorkerNext]_workerVars PROVE WorkerInv'
  OBVIOUS
<1>1. CASE \E n \in CallIds : Enqueue(n) \/ LetGoOfJob(n)
  BY <1>1, EnqueueKeeps, LetGoOfJobKeeps
<1>2. CASE Interrupt
  BY <1>2, InterruptKeeps
<1>3. CASE Serves
  BY <1>3, TakeJobKeeps, CloseConnKeeps, ReadsKeep, FetchBatchKeeps, WritesKeep, MutateBeginsKeeps, MutationKeeps,
     MutateRollsBackKeeps, MutateCommitsKeeps DEF Serves
<1>4. CASE UNCHANGED workerVars
  <2>1. UNCHANGED <<asked, answer, jobs, doing, scans, inTx, unsaved, durable, interrupted, cancels, readOnly, managed, stuck>>
    BY <1>4 DEF workerVars
  <2>2. WorkerTypeOK' /\ ChannelInOrder' /\ NothingAhead'
    BY <2>1 DEF WorkerInv, WorkerTypeOK, ChannelInOrder, NothingAhead, Ahead, Job
  <2>3. WorkInTurn' /\ BatchUnderWay' /\ BatchesBefore'
    BY <2>1 DEF WorkerInv, WorkInTurn, BatchUnderWay, BatchesBefore, BatchSettled, Job, OpOf
  <2> QED BY <2>2, <2>3 DEF WorkerInv
<1> QED BY <1>1, <1>2, <1>3, <1>4 DEF WorkerNext

LEMMA WorkerInvHolds == WorkerSpec => []WorkerInv
BY WorkerInitHolds, WorkerKeeps, PTL DEF WorkerSpec

\* The state of a SQLite worker, its channel, scans and transaction, has its types
\* (connection.rs, Worker and Job).
THEOREM SqliteTypes == WorkerSpec => []WorkerTypeOK
<1>1. WorkerInv => WorkerTypeOK
  BY DEF WorkerInv
<1> QED BY <1>1, WorkerInvHolds, PTL

\* Either all mutations of a SQLite batch are written or none are: all if it was answered
\* with success, none, not even in an open transaction, if with a failure; whatever the
\* other callers of the connection ask for, cancel or let go of, as long as SQLite ends
\* the transactions it is told to end (handle_mutate).
THEOREM SqliteBatchesAreWhole == WorkerSpec => []BatchIsWhole
<1>1. ASSUME WorkerInv PROVE BatchIsWhole
  <2> SUFFICES ASSUME ~stuck, NEW n \in managed
               PROVE  /\ Of(n) \cap durable \in {{}, Of(n)}
                      /\ Job # n => Of(n) \cap unsaved = {}
                      /\ answer[n] = "ok" => Of(n) \subseteq durable
                      /\ answer[n] = "failed" => Of(n) \cap durable = {}
    BY DEF BatchIsWhole
  <2>1. CASE n = Job
    BY <1>1, <2>1 DEF WorkerInv, BatchUnderWay, WorkInTurn
  <2>2. CASE n # Job
    BY <1>1, <2>2 DEF WorkerInv, BatchesBefore, BatchSettled
  <2> QED BY <2>1, <2>2
<1> QED BY <1>1, WorkerInvHolds, PTL

\* A session that was answered that it is read-only stays so, whatever transactions begin
\* and end around that answer (session_read_only, tx_forced_read_only).
THEOREM ReadOnlyStays == WorkerSpec => []ReadOnlyIsKept
<1>1. ASSUME WorkerInv, ReadOnlyIsKept, [WorkerNext]_workerVars PROVE ReadOnlyIsKept'
  <2>1. readOnly \in [session : BOOLEAN, forced : BOOLEAN, pragma : BOOLEAN]
    BY <1>1 DEF WorkerInv, WorkerTypeOK
  <2>2. CASE SetReadOnly \/ Begin \/ EndTx
    BY <1>1, <2>1, <2>2 DEF SetReadOnly, Begin, EndTx, ReadOnlyIsKept
  <2>3. UNCHANGED readOnly \/ SetReadOnly \/ Begin \/ EndTx
    BY <1>1 DEF WorkerNext, Serves, Enqueue, LetGoOfJob, Interrupt, Take, CloseConn, Prepare, FetchBatch, CloseScan, Look,
       Execute, MutateBegins, Mutation, MutateRollsBack, MutateCommits, workerVars
  <2> QED BY <1>1, <2>2, <2>3 DEF ReadOnlyIsKept
<1>2. WorkerInit => ReadOnlyIsKept
  BY DEF WorkerInit, ReadOnlyIsKept
<1> QED BY <1>1, <1>2, WorkerInvHolds, PTL DEF WorkerSpec

-----------------------------------------------------------------------------
(***************************************************************************)
(* SqliteWorker implements MutationBatch.                                  *)
(*                                                                         *)
(* In one step at most one batch begins, is answered or is written         *)
(* (OneMoves): what others leave in the transaction is not of a batch that *)
(* is over.  Nothing that is written is taken back, an answer stands       *)
(* (BatchesKeep), and the invariant of the next state says that it is so.  *)
(***************************************************************************)

\* The statements of the worker, but not its taking a job or its end.
Runs == Prepare \/ FetchBatch \/ CloseScan \/ Look \/ Execute \/ SetReadOnly \/ Begin \/ EndTx
        \/ MutateBegins \/ Mutation \/ MutateRollsBack \/ MutateCommits

LEMMA RunsFacts ==
    ASSUME WorkerInv, Runs
    PROVE  /\ Job \in CallIds /\ StoreMoves /\ managed' = managed /\ (stuck => stuck')
           /\ \A n \in CallIds : n = Job \/ answer'[n] = answer[n] \/ answer[n] = "cursor"
           /\ answer'[Job] = answer[Job] \/ answer[Job] \in {"awaited", "cursor"}
<1>1. WorkerTypeOK /\ 1 \in 1 .. BatchLen /\ stuck \in BOOLEAN /\ answer \in [CallIds -> Answers]
  BY WorkerNumbers DEF WorkerInv, WorkerTypeOK, Answers
<1> DEFINE Told1 == /\ \A n \in CallIds : n = Job \/ answer'[n] = answer[n] \/ answer[n] = "cursor"
                    /\ answer'[Job] = answer[Job] \/ answer[Job] \in {"awaited", "cursor"}
<1>2. ASSUME NEW w, Tell(w) PROVE Told1
  BY <1>1, <1>2 DEF Tell
<1>3. ASSUME NEW w, Done(w) PROVE Told1
  BY <1>2, <1>3 DEF Done
<1>4. answer' = answer => Told1
  OBVIOUS
<1>5. ASSUME Prepare \/ CloseScan \/ Look \/ SetReadOnly
      PROVE  Job \in CallIds /\ managed' = managed /\ UNCHANGED storeVars /\ (stuck => stuck') /\ Told1
  <2>1. doing.at = "statement" /\ UNCHANGED <<managed, stuck>> /\ UNCHANGED storeVars
    BY <1>5 DEF Prepare, CloseScan, Look, SetReadOnly, RunsStatement, historyVars
  <2>2. Done("cursor") \/ Done("failed") \/ Done("ok")
    BY <1>5 DEF Prepare, CloseScan, Look, SetReadOnly
  <2> QED BY <1>3, <2>1, <2>2, StatementFacts
<1>6. ASSUME FetchBatch
      PROVE  Job \in CallIds /\ managed' = managed /\ UNCHANGED storeVars /\ (stuck => stuck') /\ Told1
  <2>1. doing.at = "statement" /\ UNCHANGED <<managed, stuck>> /\ UNCHANGED storeVars
    BY <1>6 DEF FetchBatch, RunsStatement, historyVars
  <2>2. Job \in CallIds
    BY <2>1, StatementFacts
  <2>3. \A n \in CallIds : \/ answer'[n] = answer[n]
                           \/ n = Job /\ answer[n] = "awaited"
                           \/ answer[n] = "cursor"
    BY <1>6, <2>2 DEF FetchBatch
  <2> QED BY <2>1, <2>2, <2>3
<1>7. ASSUME Execute \/ Begin \/ EndTx
      PROVE  Job \in CallIds /\ managed' = managed /\ StoreMoves /\ (stuck => stuck') /\ Told1
  <2>1. doing.at = "statement" /\ managed' = managed /\ (stuck => stuck')
    BY <1>7 DEF Execute, Begin, EndTx, RunsStatement, historyVars
  <2>2. Done("ok") \/ Done("failed")
    BY <1>7 DEF Execute, Begin, EndTx
  <2>3. Begins \/ Commits \/ RollsBack \/ Writes(<<Job, 1>>) \/ ExecuteFails \/ UNCHANGED storeVars
    BY <1>7 DEF Execute, Begin, EndTx
  <2> QED BY <1>1, <1>3, <2>1, <2>2, <2>3, StatementFacts, StoreSteps
<1>8. ASSUME MutateBegins \/ MutateRollsBack \/ MutateCommits
      PROVE  Job \in CallIds /\ managed' = managed /\ StoreMoves /\ (stuck => stuck') /\ Told1
  <2>1. doing.at \in {"begin", "rollback", "commit"} /\ managed' = managed /\ (stuck => stuck')
    BY <1>8 DEF MutateBegins, MutateRollsBack, MutateCommits, historyVars
  <2>2. answer' = answer \/ Done("ok") \/ Done("failed")
    BY <1>8 DEF MutateBegins, MutateRollsBack, MutateCommits
  <2>3. Begins \/ Commits \/ RollsBack \/ UNCHANGED storeVars
    BY <1>8 DEF MutateBegins, MutateRollsBack, MutateCommits, storeVars
  <2> QED BY <1>1, <1>3, <1>4, <2>1, <2>2, <2>3, BatchFacts, StoreSteps
<1>9. ASSUME Mutation PROVE Job \in CallIds /\ managed' = managed /\ StoreMoves /\ (stuck => stuck') /\ Told1
  <2>1. doing.at = "mutation" /\ UNCHANGED <<managed, stuck>>
    BY <1>9 DEF Mutation, historyVars
  <2>2. answer' = answer \/ Done("ok") \/ Done("failed")
    BY <1>9 DEF Mutation
  <2>3. Writes(<<Job, doing.part>>) \/ ExecuteFails
    BY <1>9 DEF Mutation
  <2> QED BY <1>1, <1>3, <1>4, <2>1, <2>2, <2>3, BatchFacts, StoreSteps
<1>10. Job \in CallIds /\ UNCHANGED storeVars => StoreMoves
  BY <1>1, StoreSteps
<1> QED BY <1>5, <1>6, <1>7, <1>8, <1>9, <1>10 DEF Runs

\* What SQLite has not ended once counts for good.
LEMMA StuckStays == ASSUME WorkerInv, [WorkerNext]_workerVars PROVE stuck => stuck'
<1>1. Runs => (stuck => stuck')
  BY RunsFacts
<1>2. \A n \in CallIds : Enqueue(n) \/ LetGoOfJob(n) => UNCHANGED stuck
  BY DEF Enqueue, LetGoOfJob, historyVars
<1>3. Interrupt \/ Take \/ CloseConn \/ UNCHANGED workerVars => UNCHANGED stuck
  BY DEF Interrupt, Take, CloseConn, historyVars, workerVars
<1> QED BY <1>1, <1>2, <1>3 DEF WorkerNext, Serves, Runs

\* What is said of a batch stands; what is written stays written.
BatchesKeep ==
    /\ managed \subseteq managed' /\ durable \subseteq durable' /\ (stuck => stuck')
    /\ \A n \in managed : answer'[n] = answer[n] \/ answer[n] = "awaited"

\* Of all batches only m may begin, be answered or be written.
OnlyBatch(m) ==
    \A n \in CallIds \ {m} :
        /\ n \in managed' <=> n \in managed
        /\ n \in managed => answer'[n] = answer[n] /\ Of(n) \cap durable' = Of(n) \cap durable

LEMMA OneMoves ==
    ASSUME WorkerInv, [WorkerNext]_workerVars, ~stuck
    PROVE  BatchesKeep /\ \E m \in CallIds \cup {0} : OnlyBatch(m)
<1>1. /\ managed \subseteq CallIds /\ 0 \notin CallIds /\ answer \in [CallIds -> Answers]
      /\ \A n \in managed : OpOf(n) = "mutate" /\ answer[n] # "cursor" /\ (answer[n] = "awaited" => n = Job)
  BY WorkerNumbers DEF WorkerInv, WorkerTypeOK, WorkInTurn, Answers
<1>2. ASSUME NEW n \in CallIds, Enqueue(n) PROVE BatchesKeep /\ OnlyBatch(0)
  <2>1. UNCHANGED <<managed, durable, stuck>> /\ asked[n] = Unasked
    BY <1>2 DEF Enqueue, storeVars, historyVars
  <2>2. n \notin managed
    BY <1>1, <2>1, WorkerNumbers DEF OpOf
  <2>3. PICK op \in Asks, s \in CallIds \cup {0} :
           /\ IF op \in {"fetch", "close"} THEN s # 0 /\ answer[s] = "cursor" ELSE s = 0
           /\ answer' = [m \in CallIds |->
                           IF m = n THEN IF doing = Over THEN "failed" ELSE "awaited"
                           ELSE IF m = s /\ op = "close" THEN "ok" ELSE answer[m]]
    BY <1>2 DEF Enqueue
  <2>4. \A m \in managed : answer'[m] = answer[m]
    BY <1>1, <2>2, <2>3
  <2> QED BY <1>1, <2>1, <2>4 DEF BatchesKeep, OnlyBatch
<1>3. ASSUME NEW n \in CallIds, LetGoOfJob(n) PROVE BatchesKeep /\ OnlyBatch(n)
  <2>1. UNCHANGED <<managed, durable, stuck>> /\ answer[n] \in {"awaited", "cursor"} /\ answer' = [answer EXCEPT ![n] = "let_go"]
    BY <1>3 DEF LetGoOfJob, storeVars, historyVars
  <2> QED BY <1>1, <2>1 DEF BatchesKeep, OnlyBatch
<1>4. ASSUME Interrupt \/ UNCHANGED workerVars PROVE BatchesKeep /\ OnlyBatch(0)
  <2>1. UNCHANGED <<managed, durable, stuck, answer>>
    BY <1>4 DEF Interrupt, storeVars, historyVars, workerVars
  <2> QED BY <2>1 DEF BatchesKeep, OnlyBatch
<1>5. ASSUME Take PROVE BatchesKeep /\ OnlyBatch(Head(jobs)) /\ Head(jobs) \in CallIds
  <2>1. UNCHANGED <<durable, stuck, answer>> /\ managed' \in {managed, managed \cup {Head(jobs)}} /\ jobs # <<>>
    BY <1>5 DEF Take, storeVars
  <2>2. Head(jobs) \in CallIds
    BY <2>1, HeadTailProperties DEF WorkerInv, WorkerTypeOK
  <2> QED BY <2>1, <2>2 DEF BatchesKeep, OnlyBatch
<1>6. ASSUME CloseConn PROVE BatchesKeep /\ OnlyBatch(0)
  <2>1. UNCHANGED <<managed, durable, stuck>> /\ doing = NoJob
    BY <1>6 DEF CloseConn, historyVars
  <2>2. \A n \in managed : answer[n] # "awaited"
    BY <1>1, <2>1, WorkerNumbers DEF Job
  <2>3. \A n \in managed : answer'[n] = answer[n]
    BY <1>1, <1>6, <2>2 DEF CloseConn
  <2> QED BY <2>1, <2>3 DEF BatchesKeep, OnlyBatch
<1>7. ASSUME Runs PROVE BatchesKeep /\ OnlyBatch(Job) /\ Job \in CallIds
  <2>1. /\ Job \in CallIds /\ StoreMoves /\ managed' = managed /\ (stuck => stuck')
        /\ \A n \in CallIds : n = Job \/ answer'[n] = answer[n] \/ answer[n] = "cursor"
        /\ answer'[Job] = answer[Job] \/ answer[Job] \in {"awaited", "cursor"}
    BY <1>7, RunsFacts
  <2>2. \A n \in managed : n # Job => answer'[n] = answer[n]
    BY <1>1, <2>1
  <2>3. \A n \in managed : answer'[n] = answer[n] \/ answer[n] = "awaited"
    BY <1>1, <2>1, <2>2
  <2>4. ASSUME NEW n \in managed, n # Job PROVE Of(n) \cap durable' = Of(n) \cap durable
    <3>1. Of(n) \cap Of(Job) = {} /\ Of(n) \cap unsaved = {}
      BY <1>1, <2>1, <2>4, ChangesOf DEF WorkerInv, BatchesBefore, BatchSettled
    <3> QED BY <2>1, <3>1 DEF StoreMoves
  <2> QED BY <2>1, <2>2, <2>3, <2>4 DEF BatchesKeep, OnlyBatch, StoreMoves
<1> QED BY <1>2, <1>3, <1>4, <1>5, <1>6, <1>7 DEF WorkerNext, Serves, Runs

\* What is told of a batch is so.
AnswersSo(n) ==
    /\ SqliteSaved(n) \in {"nothing", "all"}
    /\ SqliteTold(n) \in {"none", "applied", "refused", "unknown"}
    /\ SqliteTold(n) = "applied" => SqliteSaved(n) = "all"
    /\ SqliteTold(n) = "refused" => SqliteSaved(n) = "nothing"

LEMMA AnswersAreSo == ASSUME WorkerInv, ~stuck, NEW n \in CallIds PROVE AnswersSo(n)
<1>1. 1 \in 1 .. BatchLen /\ <<n, 1>> \in Of(n)
  BY WorkerNumbers, ChangesOf
<1>2. CASE n \notin managed
  BY <1>2 DEF AnswersSo, SqliteSaved, SqliteTold
<1>3. CASE n \in managed /\ n = Job
  BY <1>3 DEF WorkerInv, BatchUnderWay, WorkInTurn, AnswersSo, SqliteSaved, SqliteTold
<1>4. CASE n \in managed /\ n # Job
  BY <1>1, <1>4 DEF WorkerInv, BatchesBefore, BatchSettled, AnswersSo, SqliteSaved, SqliteTold
<1> QED BY <1>2, <1>3, <1>4

\* The same of the next state.
LEMMA AnswersWillBeSo == ASSUME WorkerInv', ~stuck', NEW n \in CallIds PROVE AnswersSo(n)'
<1>1. 1 \in 1 .. BatchLen /\ (<<n, 1>> \in Of(n))'
  BY WorkerNumbers, ChangesOf DEF Of
<1>2. CASE n \notin managed'
  BY <1>2 DEF AnswersSo, SqliteSaved, SqliteTold
<1>3. CASE n \in managed' /\ n = Job'
  BY <1>3 DEF WorkerInv, BatchUnderWay, WorkInTurn, AnswersSo, SqliteSaved, SqliteTold
<1>4. CASE n \in managed' /\ n # Job'
  BY <1>1, <1>4 DEF WorkerInv, BatchesBefore, BatchSettled, AnswersSo, SqliteSaved, SqliteTold
<1> QED BY <1>2, <1>3, <1>4

LEMMA SqliteBatchStarts == WorkerInit => SqliteBatches!BatchInit
<1> SUFFICES ASSUME WorkerInit PROVE SqliteBatches!BatchInit
  OBVIOUS
<1>1. \A n \in CallIds : SqliteSaved(n) = "nothing" /\ SqliteTold(n) = "none"
  BY DEF WorkerInit, SqliteSaved, SqliteTold
<1> QED BY <1>1 DEF SqliteBatches!BatchInit

LEMMA SqliteBatchMoves ==
    ASSUME WorkerInv, \A n \in CallIds : AnswersSo(n), \A n \in CallIds : AnswersSo(n)', [WorkerNext]_workerVars,
           ~stuck
    PROVE  [SqliteBatches!BatchNext]_(SqliteBatches!batchVars)
<1> DEFINE saved == [n \in CallIds |-> SqliteSaved(n)]
           told == [n \in CallIds |-> SqliteTold(n)]
<1>1. ASSUME UNCHANGED <<saved, told>> PROVE UNCHANGED SqliteBatches!batchVars
  BY <1>1 DEF SqliteBatches!batchVars
<1>2. ASSUME NEW n \in CallIds, told[n] = "none", told'[n] \in {"applied", "refused", "unknown"}, saved' = saved,
             told' = [told EXCEPT ![n] = told'[n]], told'[n] = "applied" => saved[n] = "all",
             told'[n] = "refused" => saved[n] = "nothing"
      PROVE  SqliteBatches!Answer(n)
  BY <1>2 DEF SqliteBatches!Answer
<1>3. ASSUME NEW n \in CallIds, saved[n] = "nothing", saved' = [saved EXCEPT ![n] = "all"],
             told[n] \in {"none", "unknown"}, told' = [told EXCEPT ![n] = told'[n]],
             told'[n] = told[n] \/ (told[n] = "none" /\ told'[n] \in {"applied", "unknown"})
      PROVE  SqliteBatches!Save(n)
  BY <1>3 DEF SqliteBatches!Save
<1>4. PICK m \in CallIds \cup {0} : BatchesKeep /\ OnlyBatch(m)
  BY OneMoves
<1>5. \A n \in CallIds : Of(n)' = Of(n)
  BY DEF Of
<1>6. \A n \in CallIds \ {m} : SqliteSaved(n)' = SqliteSaved(n) /\ SqliteTold(n)' = SqliteTold(n)
  <2> SUFFICES ASSUME NEW n \in CallIds \ {m} PROVE SqliteSaved(n)' = SqliteSaved(n) /\ SqliteTold(n)' = SqliteTold(n)
    OBVIOUS
  <2>1. n \in managed => (Of(n) \subseteq durable' <=> Of(n) \subseteq durable)
    BY <1>4 DEF OnlyBatch
  <2> QED BY <1>4, <1>5, <2>1 DEF OnlyBatch, SqliteSaved, SqliteTold
<1>7. CASE m \notin CallIds
  <2> HIDE DEF SqliteSaved, SqliteTold
  <2>1. saved' = saved /\ told' = told
    BY <1>6, <1>7
  <2> QED BY <1>1, <2>1
<1>8. CASE m \in CallIds
  <2>1. AnswersSo(m) /\ AnswersSo(m)'
    BY <1>8
  <2>2. SqliteTold(m)' = SqliteTold(m) \/ SqliteTold(m) = "none"
    BY <1>4 DEF BatchesKeep, SqliteTold
  <2>3. SqliteSaved(m) = "all" => SqliteSaved(m)' = "all"
    BY <1>4, <1>5, <1>8, <2>1 DEF BatchesKeep, SqliteSaved, AnswersSo
  <2> HIDE DEF SqliteSaved, SqliteTold
  <2>4. saved' = [saved EXCEPT ![m] = saved'[m]] /\ told' = [told EXCEPT ![m] = told'[m]]
    BY <1>6, <1>8
  <2>5. /\ saved[m] = SqliteSaved(m) /\ saved'[m] = SqliteSaved(m)'
        /\ told[m] = SqliteTold(m) /\ told'[m] = SqliteTold(m)'
    BY <1>8
  <2> HIDE DEF saved, told
  <2>6. CASE saved'[m] = saved[m] /\ told'[m] = told[m]
    <3>1. saved' = saved /\ told' = told
      BY <1>8, <2>4, <2>6 DEF saved, told
    <3> QED BY <1>1, <3>1
  <2>7. CASE saved'[m] = saved[m] /\ told'[m] # told[m]
    <3>1. saved' = saved
      BY <1>8, <2>4, <2>7 DEF saved
    <3> QED BY <1>2, <1>8, <2>1, <2>2, <2>4, <2>5, <2>7, <3>1 DEF AnswersSo, SqliteBatches!BatchNext
  <2>8. CASE saved'[m] # saved[m]
    <3>1. saved[m] = "nothing" /\ saved'[m] = "all"
      BY <2>1, <2>3, <2>5, <2>8 DEF AnswersSo
    <3>2. /\ told[m] \in {"none", "unknown"}
          /\ told'[m] = told[m] \/ (told[m] = "none" /\ told'[m] \in {"applied", "unknown"})
      BY <2>1, <2>2, <2>5, <3>1 DEF AnswersSo
    <3> QED BY <1>3, <1>8, <2>4, <3>1, <3>2 DEF SqliteBatches!BatchNext
  <2> QED BY <2>6, <2>7, <2>8
<1> QED BY <1>4, <1>7, <1>8

\* A connection keeps the promise of ATOMIC_BATCH (driver.rs:43) for the batches that have a
\* transaction of their own: each is saved in one step and for good, one that was refused
\* is not saved later and one that is said to be applied is, whoever asks, cancels or lets
\* go of what; as long as SQLite ends the transactions it is told to end.
THEOREM SqliteBatchesAreAtomic == WorkerSpec => SqliteImplementsBatch
<1>1. ASSUME WorkerInv, WorkerInv', [WorkerNext]_workerVars
      PROVE  [SqliteBatches!BatchNext \/ stuck']_(SqliteBatches!batchVars)
  <2>1. CASE stuck'
    BY <2>1
  <2>2. CASE ~stuck'
    <3>1. ~stuck
      BY <1>1, <2>2, StuckStays
    <3>2. \A n \in CallIds : AnswersSo(n)
      BY <1>1, <3>1, AnswersAreSo
    <3>3. \A n \in CallIds : AnswersSo(n)'
      BY <1>1, <2>2, AnswersWillBeSo
    <3> QED BY <1>1, <2>2, <3>1, <3>2, <3>3, SqliteBatchMoves
  <2> QED BY <2>1, <2>2
<1> QED BY <1>1, SqliteBatchStarts, WorkerInvHolds, PTL DEF WorkerSpec, SqliteImplementsBatch
=============================================================================
