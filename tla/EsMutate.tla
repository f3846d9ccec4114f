------------------------------ MODULE EsMutate ------------------------------
(***************************************************************************)
(* Edits of documents through the Elasticsearch driver (execute_mutate of  *)
(* elasticsearch/connection.rs, mutate.rs, run_mutation of ffi/mutate.rs). *)
(* Every write of a document that was loaded carries the sequence number   *)
(* it was loaded with; one write is sent by itself, several as one _bulk,  *)
(* which the server works off item by item between the writes of others.   *)
(*                                                                         *)
(* An answer may be lost or come too late; the request is carried out all  *)
(* the same, possibly after the user has tried again.  The primary term    *)
(* goes with the sequence number.  A new document has an _id of the        *)
(* user's: one whose id the server chooses has no guard at all.            *)
(***************************************************************************)
EXTENDS Integers, FiniteSets

CONSTANTS
    Docs,
    MaxAttempts,  \* bound: batches the user sends
    MaxOthers     \* bound: writes of others

ASSUME MutateBounds == IsFiniteSet(Docs) /\ MaxAttempts \in Nat /\ MaxOthers \in Nat

Attempts == 1 .. MaxAttempts
Absent == 0    \* the sequence number of a document that is not there

VARIABLES
    seqNo,      \* _seq_no of the stored documents, Absent if there is none
    fresh,      \* the next sequence number of the shard
    loaded,     \* _seq_no of the row the user edits, Absent for a new one
    request,    \* the requests: their ops, guards, what is left to do, and the results
    sent,       \* how many there are
    waiting,    \* the request the user waits for
    outcome,    \* what the user is told of each document
    others,     \* how much others have written
    applied,    \* history: how often this edit of the document was carried out
    lost,       \* history: an answer about this edit was lost
    clobbered   \* history: the user's write has replaced one the user has not seen

mutateVars == <<seqNo, fresh, loaded, request, sent, waiting, outcome, others, applied, lost, clobbered>>

NoRequest == [op |-> [d \in Docs |-> "none"], guard |-> [d \in Docs |-> Absent], todo |-> {},
              result |-> [d \in Docs |-> "none"]]

MutateInit ==
    /\ seqNo \in [Docs -> {Absent, 1}] /\ fresh = 2
    /\ loaded = seqNo
    /\ request = [n \in Attempts |-> NoRequest] /\ sent = 0 /\ waiting = 0
    /\ outcome = [d \in Docs |-> "none"]
    /\ others = 0
    /\ applied = [d \in Docs |-> 0] /\ lost = [d \in Docs |-> FALSE] /\ clobbered = FALSE

ItemsOf(n) == {d \in Docs : request[n].op[d] # "none"}
Bulk(n) == Cardinality(ItemsOf(n)) > 1

----------------------------------------------------------------------------
(* The user *)

\* The row is read again: what is edited now is another edit.
Reread(d) ==
    /\ waiting = 0 /\ loaded[d] # seqNo[d]
    /\ loaded' = [loaded EXCEPT ![d] = seqNo[d]]
    /\ applied' = [applied EXCEPT ![d] = 0] /\ lost' = [lost EXCEPT ![d] = FALSE]
    /\ outcome' = [outcome EXCEPT ![d] = "none"]
    /\ \A n \in 1 .. sent : d \notin request[n].todo
    /\ UNCHANGED <<seqNo, fresh, request, sent, waiting, others, clobbered>>

\* compile_mutation: a loaded row is updated or deleted under its guard, a new one created.
OpsFor(d) == IF loaded[d] = Absent THEN {"none", "create"} ELSE {"none", "update", "delete"}

SendBatch ==
    /\ waiting = 0 /\ sent < MaxAttempts
    /\ \E op \in [Docs -> {"none", "create", "update", "delete"}] :
        /\ \A d \in Docs : op[d] \in OpsFor(d) /\ (outcome[d] = "applied" => op[d] = "none")
        /\ \E d \in Docs : op[d] # "none"
        /\ request' = [request EXCEPT ![sent + 1] =
               [op |-> op, guard |-> loaded, todo |-> {d \in Docs : op[d] # "none"}, result |-> @.result]]
        /\ outcome' = [d \in Docs |-> IF op[d] = "none" THEN outcome[d] ELSE "none"]
    /\ sent' = sent + 1 /\ waiting' = sent + 1
    /\ UNCHANGED <<seqNo, fresh, loaded, others, applied, lost, clobbered>>

----------------------------------------------------------------------------
(* The server *)

\* Fault: the guard is left out of a _bulk action line.
HeldBySingles(n, d) == Bulk(n) \/ seqNo[d] = request[n].guard[d]

\* if_seq_no, and op_type=create for a document that must not be there.
Held(n, d) == seqNo[d] = request[n].guard[d]

\* One item is carried out, or refused: by its guard or for another reason.
Carry(n, d) ==
    /\ d \in request[n].todo /\ \A c \in request[n].todo : d <= c
    /\ \/ /\ Held(n, d)
          /\ seqNo' = [seqNo EXCEPT ![d] = IF request[n].op[d] = "delete" THEN Absent ELSE fresh]
          /\ fresh' = fresh + 1
          /\ request' = [request EXCEPT ![n].todo = @ \ {d}, ![n].result[d] = "applied"]
          /\ applied' = [applied EXCEPT ![d] = @ + 1]
          /\ clobbered' = (clobbered \/ seqNo[d] # request[n].guard[d])
       \/ /\ request' = [request EXCEPT ![n].todo = @ \ {d}, ![n].result[d] = "failed"]
          /\ UNCHANGED <<seqNo, fresh, applied, clobbered>>
    /\ UNCHANGED <<loaded, sent, waiting, outcome, others, lost>>

OtherWrites(d) ==
    /\ others < MaxOthers /\ others' = others + 1
    /\ seqNo' \in {[seqNo EXCEPT ![d] = fresh], [seqNo EXCEPT ![d] = Absent]}
    /\ fresh' = fresh + 1
    /\ UNCHANGED <<loaded, request, sent, waiting, outcome, applied, lost, clobbered>>

----------------------------------------------------------------------------
(* The answer *)

\* Fault: the first item that failed is taken to have stopped the rest.
ReportHalted(n) ==
    /\ waiting = n /\ n # 0 /\ request[n].todo = {}
    /\ outcome' = [d \in Docs |->
           IF d \notin ItemsOf(n) THEN outcome[d]
           ELSE IF \E c \in ItemsOf(n) : c < d /\ request[n].result[c] = "failed" THEN "failed"
           ELSE request[n].result[d]]
    /\ waiting' = 0
    /\ UNCHANGED <<seqNo, fresh, loaded, request, sent, others, applied, lost, clobbered>>

\* bulk_report and batch_report: item by item.
Report(n) ==
    /\ waiting = n /\ n # 0 /\ request[n].todo = {}
    /\ outcome' = [d \in Docs |-> IF d \in ItemsOf(n) THEN request[n].result[d] ELSE outcome[d]]
    /\ waiting' = 0
    /\ UNCHANGED <<seqNo, fresh, loaded, request, sent, others, applied, lost, clobbered>>

\* The request times out or its connection breaks: a single write is reported as failed,
\* of a _bulk there is no report.
AnswerIsLost(n) ==
    /\ waiting = n /\ n # 0
    /\ outcome' = [d \in Docs |-> IF d \notin ItemsOf(n) THEN outcome[d] ELSE IF Bulk(n) THEN "none" ELSE "failed"]
    /\ lost' = [d \in Docs |-> lost[d] \/ d \in ItemsOf(n)]
    /\ waiting' = 0
    /\ UNCHANGED <<seqNo, fresh, loaded, request, sent, others, applied, clobbered>>

MutateNext ==
    \/ SendBatch
    \/ \E d \in Docs : Reread(d) \/ OtherWrites(d)
    \/ \E n \in Attempts : Report(n) \/ AnswerIsLost(n) \/ \E d \in Docs : Carry(n, d)

MutateSpec == MutateInit /\ [][MutateNext]_mutateVars

----------------------------------------------------------------------------
Outcomes == {"none", "applied", "failed"}
SeqNos == 0 .. MaxOthers + MaxAttempts * Cardinality(Docs) + 2

MutateTypeOK ==
    /\ seqNo \in [Docs -> SeqNos] /\ loaded \in [Docs -> SeqNos] /\ fresh \in SeqNos
    /\ \A n \in Attempts :
        /\ request[n].op \in [Docs -> {"none", "create", "update", "delete"}]
        /\ request[n].guard \in [Docs -> SeqNos] /\ request[n].todo \subseteq ItemsOf(n)
        /\ request[n].result \in [Docs -> Outcomes]
    /\ sent \in 0 .. MaxAttempts /\ waiting \in 0 .. sent
    /\ outcome \in [Docs -> Outcomes] /\ others \in 0 .. MaxOthers
    /\ lost \in [Docs -> BOOLEAN] /\ clobbered \in BOOLEAN

\* A write never replaces what its user has not seen, and an edit of a loaded row is
\* carried out at most once, however often it is sent again after lost answers and
\* whenever the requests arrive (mutate.rs:792: a silent retry is the clobber).
GuardHolds == ~clobbered /\ \A d \in Docs : loaded[d] # Absent => applied[d] <= 1

\* What is reported as applied is stored, and what is reported as failed was left
\* unwritten, item by item, unless an answer was lost on the way (mutate.rs:899).
ReportIsTrue ==
    \A d \in Docs :
        /\ outcome[d] = "applied" => applied[d] >= 1
        /\ outcome[d] = "failed" /\ ~lost[d] => applied[d] = 0
=============================================================================
