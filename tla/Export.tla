------------------------------- MODULE Export -------------------------------
(***************************************************************************)
(* Exports of results to files (ffi/export.rs, core/export.rs).  An export *)
(* writes beside its target and renames on success; the name of the        *)
(* partial file follows from the target's, so that two exports to one      *)
(* target write to one partial file.                                       *)
(*                                                                         *)
(* A file is named after the export that created it.  Of its content only  *)
(* this is kept: what each export has written since it was truncated.      *)
(* Between two awaits nothing interrupts an export but the file system is  *)
(* everybody's, so that each file operation is a step.                     *)
(***************************************************************************)
EXTENDS Integers

CONSTANTS
    Exports, Paths,
    Batches      \* bound: what a whole result has

NoFile == "none"
Before == "before"

ASSUME ExportBounds == Batches \in Nat \ {0} /\ Paths # {} /\ {NoFile, Before} \cap Exports = {}

Inodes == Exports \cup {Before}

VARIABLES
    export,    \* the exports: where they are, their path and how much they have written
    target,    \* the file at each path
    part,      \* the file beside it
    content,   \* what each export has written to a file since it was truncated
    fd,        \* the file an export has open
    stop,      \* ExportShared.stop holds a permit
    running,   \* the exports whose statement runs on a leased connection
    killing,   \* the spawned tasks that ask the server to stop
    crossed    \* history: two exports were under way to this path at once, or one was cut short

exportVars == <<export, target, part, content, fd, stop, running, killing, crossed>>

Blank == [e \in Exports |-> {}]

ExportInit ==
    /\ export = [e \in Exports |-> [at |-> "unborn", path |-> CHOOSE p \in Paths : TRUE, wrote |-> 0]]
    /\ target = [p \in Paths |-> Before]
    /\ part = [p \in Paths |-> NoFile]
    /\ content = [i \in Inodes |-> Blank]
    /\ fd = [e \in Exports |-> NoFile]
    /\ stop = [e \in Exports |-> FALSE]
    /\ running = {} /\ killing = {}
    /\ crossed = {}

PathOf(e) == export[e].path
InDrive == {"saved", "lease", "execute", "stream", "close", "renaming", "removing_failed", "removing_cancelled"}
UnderWay(e) == export[e].at \in InDrive

\* The select of drive looks at the stop first, every time it is polled.
Polls(e, at) == export[e].at = at /\ ~stop[e]
Moves(e, at) == export' = [export EXCEPT ![e].at = at]

----------------------------------------------------------------------------
ExportStart(e, p) ==
    /\ export[e].at = "unborn"
    /\ export' = [export EXCEPT ![e].at = "saved", ![e].path = p]
    /\ crossed' = IF \E d \in Exports : UnderWay(d) /\ PathOf(d) = p THEN crossed \cup {p} ELSE crossed
    /\ UNCHANGED <<target, part, content, fd, stop, running, killing>>

\* The future of the export ends with an error: its file is closed and its lease dropped.
ExportFails(e) ==
    /\ \E at \in {"saved", "lease", "execute", "stream", "close"} : Polls(e, at)
    /\ Moves(e, "removing_failed")
    /\ fd' = [fd EXCEPT ![e] = NoFile]
    /\ running' = running \ {e}
    /\ UNCHANGED <<target, part, content, stop, killing, crossed>>

\* File::create empties a file that is there.
CreatePartial(e) ==
    LET p == PathOf(e)   i == IF part[p] = NoFile THEN e ELSE part[p]
    IN  /\ Polls(e, "saved")
        /\ part' = [part EXCEPT ![p] = i]
        /\ content' = [content EXCEPT ![i] = Blank]
        /\ fd' = [fd EXCEPT ![e] = i]
        /\ Moves(e, "lease")
        /\ UNCHANGED <<target, stop, running, killing, crossed>>

\* leased, then the canceller is put where a cancel finds it.
LeaseForExport(e) ==
    /\ Polls(e, "lease")
    /\ Moves(e, "execute")
    /\ running' = running \cup {e}
    /\ UNCHANGED <<target, part, content, fd, stop, killing, crossed>>

ExecuteExport(e) ==
    /\ Polls(e, "execute")
    /\ Moves(e, "stream")
    /\ UNCHANGED <<target, part, content, fd, stop, running, killing, crossed>>

WriteBatch(e) ==
    /\ Polls(e, "stream") /\ export[e].wrote < Batches
    /\ export' = [export EXCEPT ![e].wrote = @ + 1]
    /\ content' = [content EXCEPT ![fd[e]][e] = @ \cup {export[e].wrote + 1}]
    /\ UNCHANGED <<target, part, fd, stop, running, killing, crossed>>

EndOfRows(e) ==
    /\ Polls(e, "stream") /\ export[e].wrote = Batches
    /\ Moves(e, "close")
    /\ UNCHANGED <<target, part, content, fd, stop, running, killing, crossed>>

\* The cursor is closed, the file flushed and closed, the lease dropped.
FinishExport(e) ==
    /\ Polls(e, "close")
    /\ Moves(e, "renaming")
    /\ fd' = [fd EXCEPT ![e] = NoFile]
    /\ running' = running \ {e}
    /\ UNCHANGED <<target, part, content, stop, killing, crossed>>

Rename(e) ==
    LET p == PathOf(e)
    IN  /\ export[e].at = "renaming"
        /\ \/ /\ part[p] # NoFile
              /\ target' = [target EXCEPT ![p] = part[p]]
              /\ part' = [part EXCEPT ![p] = NoFile]
              /\ Moves(e, "done")
           \/ Moves(e, "removing_failed") /\ UNCHANGED <<target, part>>
        /\ UNCHANGED <<content, fd, stop, running, killing, crossed>>

\* Fault: the stop is answered as the end of the rows is.
CancelledAsDone(e) ==
    /\ stop[e] /\ export[e].at \in {"saved", "lease", "execute", "stream", "close"}
    /\ Moves(e, "renaming")
    /\ fd' = [fd EXCEPT ![e] = NoFile]
    /\ running' = running \ {e}
    /\ killing' = killing \cup (running \cap {e})
    /\ UNCHANGED <<target, part, content, stop, crossed>>

\* The stop is seen: the future is dropped, and the server asked in a task of its own.
CancelledExport(e) ==
    /\ stop[e] /\ export[e].at \in {"saved", "lease", "execute", "stream", "close"}
    /\ Moves(e, "removing_cancelled")
    /\ fd' = [fd EXCEPT ![e] = NoFile]
    /\ running' = running \ {e}
    /\ killing' = killing \cup (running \cap {e})
    /\ UNCHANGED <<target, part, content, stop, crossed>>

RemovePartial(e) ==
    /\ \/ export[e].at = "removing_failed" /\ Moves(e, "failed")
       \/ export[e].at = "removing_cancelled" /\ Moves(e, "cancelled")
    /\ part' = [part EXCEPT ![PathOf(e)] = NoFile]
    /\ UNCHANGED <<target, content, fd, stop, running, killing, crossed>>

\* datagrep_export_cancel and datagrep_export_free.
CancelExport(e) ==
    /\ UnderWay(e) /\ ~stop[e]
    /\ stop' = [stop EXCEPT ![e] = TRUE]
    /\ UNCHANGED <<export, target, part, content, fd, running, killing, crossed>>

\* The canceller is answered, or its time is over.
ServerStops(e) ==
    /\ e \in killing
    /\ killing' = killing \ {e}
    /\ UNCHANGED <<export, target, part, content, fd, stop, running, crossed>>

\* The application ends; the files stay.
ExportsCrash ==
    /\ \E e \in Exports : UnderWay(e)
    /\ export' = [e \in Exports |-> IF UnderWay(e) THEN [export[e] EXCEPT !.at = "lost"] ELSE export[e]]
    /\ fd' = [e \in Exports |-> NoFile]
    /\ running' = {} /\ killing' = {}
    /\ crossed' = crossed \cup {PathOf(e) : e \in {d \in Exports : UnderWay(d)}}
    /\ UNCHANGED <<target, part, content, stop>>

DriveExport(e) ==
    \/ ExportFails(e) \/ CreatePartial(e) \/ LeaseForExport(e) \/ ExecuteExport(e)
    \/ WriteBatch(e) \/ EndOfRows(e) \/ FinishExport(e) \/ Rename(e)
    \/ CancelledExport(e) \/ RemovePartial(e)

ExportNext ==
    \/ \E e \in Exports :
        \/ \E p \in Paths : ExportStart(e, p)
        \/ DriveExport(e) \/ CancelExport(e) \/ ServerStops(e)
    \/ ExportsCrash

ExportSpec == ExportInit /\ [][ExportNext]_exportVars

----------------------------------------------------------------------------
ExportTypeOK ==
    /\ \A e \in Exports :
        /\ export[e].at \in InDrive \cup {"unborn", "done", "failed", "cancelled", "lost"}
        /\ export[e].path \in Paths /\ export[e].wrote \in 0 .. Batches
    /\ target \in [Paths -> Inodes] /\ part \in [Paths -> Exports \cup {NoFile}]
    /\ content \in [Inodes -> [Exports -> SUBSET (1 .. Batches)]]
    /\ fd \in [Exports -> Exports \cup {NoFile}] /\ stop \in [Exports -> BOOLEAN]
    /\ running \subseteq Exports /\ killing \subseteq Exports /\ crossed \subseteq Paths

\* The file holds all that e has read and nothing of anybody else.
WholeOf(i, e) == content[i] = [d \in Exports |-> IF d = e THEN 1 .. Batches ELSE {}]

\* What is at a path is what was there before, or one whole export that says it is done;
\* and when nothing is under way no partial file is left: unless two exports to that
\* path were under way at once (export.rs:227), or the application ended in one.
TargetIsWhole ==
    \A p \in Paths \ crossed :
        /\ target[p] = Before \/ \E e \in Exports : export[e].at = "done" /\ WholeOf(target[p], e)
        /\ (\A e \in Exports : PathOf(e) = p => ~UnderWay(e)) => part[p] = NoFile
=============================================================================
