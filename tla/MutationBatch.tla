---------------------------- MODULE MutationBatch ----------------------------
(***************************************************************************)
(* What a connection with ATOMIC_BATCH among its capabilities promises     *)
(* whoever applies a batch of edits: datagrep.h tells the frontends that   *)
(* only without it "a failing batch can leave a prefix applied".           *)
(*                                                                         *)
(* A batch is saved in one step or never, and what is saved is not taken   *)
(* back.  Its caller hears one answer at most and need not be there any    *)
(* more when the batch is saved; but a batch that was refused is not       *)
(* saved later, and one that is said to be applied was saved before.       *)
(*                                                                         *)
(* SqliteWorker.tla, MySqlActor.tla and PgPool.tla implement this module.  *)
(***************************************************************************)
CONSTANT Batches    \* batches that may be asked for

VARIABLES
    saved,  \* how much of each batch is in the database for good
    told    \* what its caller was told

batchVars == <<saved, told>>

BatchTypeOK ==
    /\ saved \in [Batches -> {"nothing", "part", "all"}]
    /\ told \in [Batches -> {"none", "applied", "refused", "unknown"}]

BatchInit ==
    /\ saved = [b \in Batches |-> "nothing"]
    /\ told = [b \in Batches |-> "none"]

\* The answer may go out with it.
Save(b) ==
    /\ saved[b] = "nothing" /\ told[b] \in {"none", "unknown"}
    /\ saved' = [saved EXCEPT ![b] = "all"]
    /\ \/ UNCHANGED told
       \/ told[b] = "none" /\ \E w \in {"applied", "unknown"} : told' = [told EXCEPT ![b] = w]

\* "unknown" promises nothing: the caller is gone, or the answer to the COMMIT is lost.
Answer(b) ==
    /\ told[b] = "none"
    /\ \/ saved[b] = "all" /\ told' = [told EXCEPT ![b] = "applied"]
       \/ saved[b] = "nothing" /\ told' = [told EXCEPT ![b] = "refused"]
       \/ told' = [told EXCEPT ![b] = "unknown"]
    /\ UNCHANGED saved

BatchNext == \E b \in Batches : Save(b) \/ Answer(b)
BatchSpec == BatchInit /\ [][BatchNext]_batchVars
=============================================================================
