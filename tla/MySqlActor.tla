----------------------------- MODULE MySqlActor ------------------------------
(***************************************************************************)
(* One MySQL connection (drv-mysql).  A request locks the connection and   *)
(* gives the lock to a task of its own, the actor, which works off a       *)
(* channel of commands; the asker may be dropped between any two of them,  *)
(* and the actor learns it when the channel is closed.  A script is one    *)
(* command and the fetches of its cursor; a batch of mutations is a        *)
(* transaction with one command for each.  What is asked without an actor  *)
(* (ping, set_read_only, the catalog) is "direct".                         *)
(*                                                                         *)
(* What server and mysql_async do is external: a deadlock rolls the whole  *)
(* transaction back, a COMMIT that is refused does too, a ROLLBACK fails   *)
(* only with the connection, START TRANSACTION commits what was open, and  *)
(* a connection dropped in the middle of a call is not used again.  A      *)
(* cancel (KILL QUERY with the id of the connection) makes a statement     *)
(* fail, as other things do.  Interactive transactions (Connection::begin) *)
(* are left out: nothing in the program begins one.                        *)
(***************************************************************************)
EXTENDS Integers, Sequences

CONSTANTS
    MaxRequests,    \* bound: requests in all
    Mutations       \* mutations in a batch

ASSUME MySqlAssumption == MaxRequests \in Nat /\ Mutations \in Nat \ {0}

Requests == 1 .. MaxRequests
Rows == Requests \X (1 .. Mutations)

VARIABLES
    kind,         \* the requests: "script", "batch" or "direct"
    stage,        \* how far each is
    done,    \* the mutations of each that were acknowledged
    holder,       \* the request whose actor holds the lock, 0 if it is free
    actor,        \* where that actor is, and whether it has set a deadline
    channel,      \* its commands
    conn,         \* MySqlConnection.conn: "up", "broken", or "gone" (None)
    serverTx,     \* the open transaction: "none", "the_users" or "the_drivers"
    uncommitted,  \* changes of batches in it
    committed,    \* changes of batches that are durable
    unread,       \* rows of a result are on the wire
    deadline,     \* the session has a max_execution_time
    spoiled,      \* history: a deadline could not be reset
    doubtful      \* history: batches whose COMMIT had no answer

serverVars == <<serverTx, uncommitted, committed>>
resultVars == <<unread, deadline, spoiled>>
askerVars == <<kind, stage, done>>
mysqlVars == <<askerVars, holder, actor, channel, conn, serverVars, resultVars, doubtful>>

NoActor == [at |-> "none", timed |-> FALSE]
Untimed(label) == [at |-> label, timed |-> FALSE]
ActorLabels == {"none", "open", "refuse", "recv", "execute", "run", "stream", "reset",
                "rollback", "commit", "end"}
Asking == {"queued", "free", "asking", "told", "refused", "cursor", "undoing"}

MySqlInit ==
    /\ kind = [r \in Requests |-> "none"] /\ stage = [r \in Requests |-> "unborn"]
    /\ done = [r \in Requests |-> 0]
    /\ holder = 0 /\ actor = NoActor /\ channel = <<>> /\ conn = "up"
    /\ serverTx = "none" /\ uncommitted = {} /\ committed = {}
    /\ unread = FALSE /\ deadline = FALSE /\ spoiled = FALSE /\ doubtful = {}

Becomes(r, s) == stage' = [stage EXCEPT ![r] = s]
Send(r, command, s) == channel' = Append(channel, command) /\ Becomes(r, s)
----------------------------------------------------------------------------
(* The askers: one at a time has the connection leased. *)

AskMySql(r) ==
    /\ stage[r] = "unborn" /\ \A p \in Requests : p < r => stage[p] # "unborn"
    /\ \A p \in Requests : stage[p] \notin Asking
    /\ \E k \in {"script", "batch", "direct"} : kind' = [kind EXCEPT ![r] = k]
    /\ Becomes(r, "queued")
    /\ UNCHANGED <<done, holder, actor, channel, conn, serverVars, resultVars, doubtful>>

\* spawn_simple and spawn_transaction
Lock(r) ==
    /\ stage[r] = "queued" /\ kind[r] # "direct" /\ holder = 0
    /\ IF conn = "gone" THEN Becomes(r, "failed") /\ UNCHANGED <<holder, actor, channel>>
       ELSE /\ holder' = r
            /\ IF kind[r] = "batch" THEN actor' = Untimed("open") /\ channel' = <<>> /\ Becomes(r, "free")
               ELSE actor' = Untimed("recv") /\ channel' = <<"execute">> /\ Becomes(r, "asking")
    /\ UNCHANGED <<kind, done, conn, serverVars, resultVars, doubtful>>

\* ping, set_read_only, the catalog: under the lock, without an actor.
Direct(r) ==
    /\ stage[r] = "queued" /\ kind[r] = "direct" /\ holder = 0
    /\ \/ conn = "up" /\ (Becomes(r, "ok") \/ Becomes(r, "failed")) /\ UNCHANGED <<conn, serverTx>>
       \/ conn = "up" /\ Becomes(r, "dropped") /\ conn' = "broken" /\ serverTx' = "none"
       \/ conn # "up" /\ Becomes(r, "failed") /\ UNCHANGED <<conn, serverTx>>
    /\ UNCHANGED <<kind, done, holder, actor, channel, uncommitted, committed, resultVars, doubtful>>

\* The caller is dropped; a statement that does not compile ends the batch likewise.
DropAsker(r) ==
    /\ stage[r] \in Asking
    /\ \/ Becomes(r, "dropped")
       \/ kind[r] = "batch" /\ stage[r] = "free" /\ Becomes(r, "failed")
    /\ UNCHANGED <<kind, done, holder, actor, channel, conn, serverVars, resultVars, doubtful>>

\* The actor has ended without an answer: DbError::Closed.
HearNothing(r) ==
    /\ stage[r] \in {"free", "asking", "cursor", "undoing"} /\ holder # r
    /\ Becomes(r, "failed")
    /\ UNCHANGED <<kind, done, holder, actor, channel, conn, serverVars, resultVars, doubtful>>

\* execute_mutate: the next mutation, or the end of the batch.
NextMutation(r) ==
    /\ kind[r] = "batch" /\ holder = r
    /\ \/ stage[r] = "free"
          /\ Send(r, IF done[r] < Mutations THEN "execute" ELSE "commit", "asking")
          /\ UNCHANGED done
       \/ stage[r] = "told" /\ done' = [done EXCEPT ![r] = @ + 1]
          /\ Becomes(r, "free") /\ UNCHANGED channel
    /\ UNCHANGED <<kind, holder, actor, conn, serverVars, resultVars, doubtful>>

\* rollback_actor: an error, rows, or more or fewer rows changed than one.
Undo(r) ==
    /\ kind[r] = "batch" /\ stage[r] \in {"told", "refused", "cursor"}
    /\ IF holder = r THEN Send(r, "rollback", "undoing") ELSE Becomes(r, "failed") /\ UNCHANGED channel
    /\ UNCHANGED <<kind, done, holder, actor, conn, serverVars, resultVars, doubtful>>

\* MySqlCursor: next_batch, or close.
Fetch(r) ==
    /\ kind[r] = "script" /\ stage[r] = "cursor" /\ holder = r
    /\ Send(r, "fetch", "asking") \/ Send(r, "close", "ok")
    /\ UNCHANGED <<kind, done, holder, actor, conn, serverVars, resultVars, doubtful>>

\* Connection::close
Shut ==
    /\ holder = 0 /\ conn # "gone" /\ \A r \in Requests : stage[r] \notin Asking
    /\ conn' = "gone" /\ serverTx' = "none"
    /\ UNCHANGED <<askerVars, holder, actor, channel, uncommitted, committed, resultVars, doubtful>>

\* The connection breaks: the server rolls back what was open.
Breaks ==
    /\ conn = "up"
    /\ conn' = "broken" /\ serverTx' = "none" /\ uncommitted' = {}
    /\ UNCHANGED <<askerVars, holder, actor, channel, committed, resultVars, doubtful>>
----------------------------------------------------------------------------
(* The actor *)

IsBatch == kind[holder] = "batch"
NobodyAsks == stage[holder] \notin Asking /\ channel = <<>>
Hears(s) == stage' = [stage EXCEPT ![holder] = IF @ \in {"asking", "undoing"} THEN s ELSE @]

Frees == holder' = 0 /\ actor' = NoActor /\ channel' = <<>>
\* The guard is emptied: the connection is not used again.
Poisons == Frees /\ conn' = "gone" /\ unread' = FALSE /\ UNCHANGED <<serverVars, deadline, spoiled>>

\* ExecuteEnd: after a statement, first its deadline is reset.
AndThen(label) == actor' = IF actor.timed THEN [at |-> "reset", timed |-> TRUE] ELSE Untimed(label)
Continues == AndThen(IF IsBatch THEN "recv" ELSE "end")

OpenTransaction ==
    /\ actor.at = "open"
    /\ \/ conn = "up" /\ actor' = Untimed("recv") /\ serverTx' = "the_drivers"
       \/ actor' = Untimed("refuse") /\ UNCHANGED serverTx
    /\ UNCHANGED <<askerVars, holder, channel, conn, uncommitted, committed, resultVars, doubtful>>

\* drain_replying: what is asked for is refused until nobody asks.
RefuseAll ==
    /\ actor.at = "refuse"
    /\ \/ /\ channel # <<>> /\ channel' = Tail(channel)
          /\ Hears(IF Head(channel) = "rollback" THEN "failed" ELSE "refused")
          /\ UNCHANGED <<holder, actor, conn, serverVars, resultVars>>
       \/ /\ NobodyAsks /\ UNCHANGED stage
          /\ IF conn = "up" THEN Frees /\ UNCHANGED <<conn, serverVars, resultVars>> ELSE Poisons
    /\ UNCHANGED <<kind, done, doubtful>>

TakeCommand ==
    /\ actor.at = "recv"
    /\ \/ /\ channel # <<>> /\ channel' = Tail(channel)
          /\ actor' = Untimed(Head(channel))
       \/ NobodyAsks /\ actor' = Untimed("end") /\ UNCHANGED channel
    /\ UNCHANGED <<askerVars, holder, conn, serverVars, resultVars, doubtful>>

\* set_server_deadline: a script may have a timeout, a mutation has none.
SetDeadline ==
    /\ actor.at = "execute"
    /\ \/ actor' = Untimed("run") /\ UNCHANGED <<stage, deadline>>
       \/ /\ ~IsBatch /\ conn = "up"
          /\ actor' = [at |-> "run", timed |-> TRUE] /\ deadline' = TRUE /\ UNCHANGED stage
       \/ ~IsBatch /\ conn = "up" /\ Hears("failed") /\ Continues /\ UNCHANGED deadline
    /\ UNCHANGED <<kind, done, holder, channel, conn, serverVars, unread, spoiled, doubtful>>

\* What a statement does to the transaction; the last of the batch's comes next.
Affects ==
    IF ~IsBatch
    THEN serverTx' \in {"none", "the_users"} /\ UNCHANGED <<uncommitted, committed>>
    ELSE LET c == <<holder, done[holder] + 1>>
         IN  /\ UNCHANGED serverTx
             /\ IF serverTx = "none" THEN committed' = committed \cup {c} /\ UNCHANGED uncommitted
                ELSE uncommitted' = uncommitted \cup {c} /\ UNCHANGED committed

\* handle_script and finish_result
Run ==
    /\ actor.at = "run"
    /\ \/ /\ conn = "up" /\ Affects /\ Continues
          /\ Hears(IF IsBatch THEN "told" ELSE "ok")
          /\ UNCHANGED <<holder, channel, conn, resultVars>>
       \/ /\ conn = "up" /\ Affects /\ unread' = TRUE
          /\ actor' = [actor EXCEPT !.at = "stream"] /\ Hears("cursor")
          /\ UNCHANGED <<holder, channel, conn, deadline, spoiled>>
       \/ /\ conn = "up" /\ Continues /\ Hears(IF IsBatch THEN "refused" ELSE "failed")
          /\ \/ UNCHANGED serverVars
             \/ serverTx' = "none" /\ uncommitted' = {} /\ UNCHANGED committed
          /\ UNCHANGED <<holder, channel, conn, resultVars>>
       \/ conn # "up" /\ Poisons /\ Hears(IF IsBatch THEN "refused" ELSE "failed")
    /\ UNCHANGED <<kind, done, doubtful>>

\* The rest of the result is read off the wire, or the connection is broken.
ReadsOff(label) ==
    IF conn = "up" THEN unread' = FALSE /\ AndThen(label) /\ UNCHANGED <<holder, conn, serverVars, deadline, spoiled>>
    ELSE Poisons

\* stream_result
Stream ==
    /\ actor.at = "stream"
    /\ IF channel = <<>> THEN NobodyAsks /\ ReadsOff(IF IsBatch THEN "recv" ELSE "end") /\ UNCHANGED <<stage, channel>>
       ELSE \/ /\ Head(channel) = "fetch" /\ conn = "up" /\ Hears("cursor")
               /\ channel' = Tail(channel) /\ UNCHANGED <<holder, actor, conn, serverVars, resultVars>>
            \/ /\ Head(channel) = "fetch" /\ (Hears("ok") \/ Hears("failed"))
               /\ ReadsOff("end") /\ (conn = "up" => channel' = Tail(channel))
            \/ /\ Head(channel) = "close" /\ UNCHANGED stage
               /\ ReadsOff("end") /\ (conn = "up" => channel' = Tail(channel))
            \/ /\ Head(channel) \notin {"fetch", "close"}
               /\ IF conn = "up" THEN UNCHANGED stage ELSE Hears("failed")
               /\ ReadsOff(Head(channel)) /\ (conn = "up" => channel' = Tail(channel))
    /\ UNCHANGED <<kind, done, doubtful>>

\* reset_server_deadline; a KILL QUERY for the statement before may meet it.
ResetDeadline ==
    /\ actor.at = "reset"
    /\ \/ conn = "up" /\ deadline' = FALSE /\ actor' = Untimed("end") /\ UNCHANGED <<holder, channel, conn, serverVars, unread, spoiled>>
       \/ conn = "up" /\ spoiled' = TRUE /\ actor' = Untimed("end") /\ UNCHANGED <<holder, channel, conn, serverVars, unread, deadline>>
       \/ conn # "up" /\ Poisons
    /\ UNCHANGED <<askerVars, doubtful>>

\* run_tx_end
Commit ==
    /\ actor.at = "commit"
    /\ \/ conn = "up" /\ committed' = committed \cup uncommitted /\ uncommitted' = {} /\ serverTx' = "none"
          /\ Hears("ok") /\ Frees /\ UNCHANGED <<conn, resultVars, doubtful>>
       \/ conn = "up" /\ uncommitted' = {} /\ serverTx' = "none" /\ Hears("failed") /\ Frees
          /\ UNCHANGED <<committed, conn, resultVars, doubtful>>
       \/ /\ conn = "up" /\ conn' = "gone" /\ serverTx' = "none" /\ uncommitted' = {}
          /\ committed' = committed \cup uncommitted /\ doubtful' = doubtful \cup {holder}
          /\ Hears("failed") /\ Frees /\ UNCHANGED resultVars
       \/ conn # "up" /\ Hears("failed") /\ Poisons /\ UNCHANGED doubtful
    /\ UNCHANGED <<kind, done>>

RollBack ==
    /\ actor.at = "rollback" /\ Hears("failed")
    /\ IF conn = "up" THEN serverTx' = "none" /\ uncommitted' = {} /\ Frees /\ UNCHANGED <<committed, conn, resultVars>>
       ELSE Poisons
    /\ UNCHANGED <<kind, done, doubtful>>

\* Fault: the actor of a batch that nobody asks for anything any more just leaves.
LeaveOpen ==
    /\ actor.at = "end" /\ Frees
    /\ UNCHANGED <<askerVars, conn, serverVars, resultVars, doubtful>>

\* The end of the task: a transaction that was neither committed nor rolled back is
\* rolled back.
Leave ==
    /\ actor.at = "end"
    /\ IF ~IsBatch THEN Frees /\ UNCHANGED <<conn, serverVars, resultVars>>
       ELSE IF conn = "up" THEN serverTx' = "none" /\ uncommitted' = {} /\ Frees /\ UNCHANGED <<committed, conn, resultVars>>
       ELSE Poisons
    /\ UNCHANGED <<askerVars, doubtful>>

MySqlNext ==
    \/ \E r \in Requests : AskMySql(r) \/ Lock(r) \/ Direct(r) \/ DropAsker(r) \/ HearNothing(r)
                           \/ NextMutation(r) \/ Undo(r) \/ Fetch(r)
    \/ Shut \/ Breaks
    \/ OpenTransaction \/ RefuseAll \/ TakeCommand \/ SetDeadline \/ Run \/ Stream \/ ResetDeadline
    \/ Commit \/ RollBack \/ Leave

MySqlSpec == MySqlInit /\ [][MySqlNext]_mysqlVars
----------------------------------------------------------------------------
MySqlTypeOK ==
    /\ kind \in [Requests -> {"none", "script", "batch", "direct"}]
    /\ stage \in [Requests -> Asking \cup {"unborn", "ok", "failed", "dropped"}]
    /\ done \in [Requests -> 0 .. Mutations]
    /\ holder \in Requests \cup {0} /\ (holder = 0 <=> actor = NoActor)
    /\ actor \in [at : ActorLabels, timed : BOOLEAN]
    /\ channel \in Seq({"execute", "fetch", "close", "commit", "rollback"})
    /\ conn \in {"up", "broken", "gone"} /\ serverTx \in {"none", "the_users", "the_drivers"}
    /\ uncommitted \subseteq Rows /\ committed \subseteq Rows /\ doubtful \subseteq Requests
    /\ unread \in BOOLEAN /\ deadline \in BOOLEAN /\ spoiled \in BOOLEAN

RowsOf(r) == {r} \X (1 .. Mutations)

\* Whoever gets the connection next finds no transaction of the driver open, no rows of
\* another's result on the wire and no deadline, unless that could not be reset.
NextFindsItClean ==
    holder = 0 /\ conn = "up" =>
        serverTx # "the_drivers" /\ uncommitted = {} /\ ~unread /\ (deadline => spoiled)

\* Either all mutations of a batch are committed or none are; all, if it succeeded, and
\* none, if it failed and not in its COMMIT.  Whoever is dropped when: nothing of it
\* waits in the connection for the next one's COMMIT.
MySqlBatchIsWhole ==
    /\ NextFindsItClean
    /\ \A r \in Requests : kind[r] = "batch" =>
        /\ RowsOf(r) \cap committed \in {{}, RowsOf(r)}
        /\ stage[r] = "ok" => RowsOf(r) \subseteq committed
        /\ stage[r] = "failed" /\ r \notin doubtful => RowsOf(r) \cap committed = {}

MySqlSaved(r) == IF RowsOf(r) \cap committed = {} THEN "nothing"
                 ELSE IF RowsOf(r) \subseteq committed THEN "all" ELSE "part"
MySqlTold(r) == IF kind[r] # "batch" \/ stage[r] \in Asking \cup {"unborn"} THEN "none"
                ELSE IF stage[r] = "ok" THEN "applied"
                ELSE IF stage[r] = "failed" /\ r \notin doubtful THEN "refused" ELSE "unknown"

MySqlBatches == INSTANCE MutationBatch WITH
    Batches <- Requests,
    saved   <- [r \in Requests |-> MySqlSaved(r)],
    told    <- [r \in Requests |-> MySqlTold(r)]

\* Batches are saved in one step and for good, a refused one never and an applied one
\* before the answer: neither the requests that come next on the connection nor an actor
\* that outlives its asker changes what one asker was told.
MySqlImplementsBatch == MySqlBatches!BatchSpec

=============================================================================
