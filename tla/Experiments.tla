----------------------------- MODULE Experiments ----------------------------
(***************************************************************************)
(* One experiment under its manager (services/experiments.py): create(),   *)
(* the coordinator that runs the cells in batches of at most Jobs, the     *)
(* supervisor and the invocation of each cell, cancellation by close(),    *)
(* the recovery of what a cell has left, the report, and get() after the   *)
(* manager is gone.                                                        *)
(*                                                                         *)
(* A step of the coordinator is what it does between two waits or two      *)
(* looks at a flag others write.  There are no clocks: a grace period may  *)
(* end at any moment.  Any process may be killed at any moment, or be      *)
(* impossible to kill; when a supervisor is, its cell runs on.             *)
(*                                                                         *)
(* The run in the directory of a cell is RunStore's; here its manifest has *)
(* an outcome, which is completed or not.  Left out: how a run that did not*)
(* complete is called, measurements and their aggregation, helpers of a    *)
(* cell, and the choice of supervision, which only changes the claim about *)
(* them.                                                                   *)
(***************************************************************************)
EXTENDS Naturals, FiniteSets

CONSTANTS
    Total,   \* configurations times seeds
    Jobs     \* the cells of one batch

ASSUME SizesAssumption == Total \in Nat \ {0} /\ Jobs \in Nat \ {0}

Cells == 1..Total   \* in the order of their coordinates

VARIABLES
    \* the manager
    closer,      \* close(): "idle", "waiting" or "returned"
    abort,       \* entry["abort"]
    saved,       \* the status in experiment.json, or "none"
    \* the coordinator
    pc,          \* "none", create()'s "applying", "refused" and "created", then "drive",
                 \* "launch", "coop", "term", "kill", "finally" and "done"
    status,      \* report["status"]
    next,        \* the coordinates that are not taken yet begin here
    active, ready,
    row,         \* row[c]: the last row recorded of c, "none" before there is one
    times,       \* times[c]: how many rows there are of c
    \* the processes of each cell
    sup,         \* its supervisor: "none", "alive" or "gone"
    reaped,      \* what the supervisor has confirmed
    force,       \* what it was asked for: 0, 1 (terminate) or 2 (kill)
    inv,         \* the invocation: "none", "live" or "dead"
    manifest,    \* its run: "none", "running", "completed" or "failed"
    published    \* cell-*.json has a result

manager == <<closer, abort, saved>>
report == <<status, row, times>>
batch == <<next, active, ready>>
processes == <<sup, reaped, force, inv>>
files == <<manifest, published>>
vars == <<manager, pc, report, batch, processes, files>>

\* _closed
Closed == closer # "idle"

Init ==
    /\ closer = "idle" /\ abort = FALSE /\ saved = "none"
    /\ pc = "none" /\ status = "created" /\ next = 1
    /\ active = {} /\ ready = {}
    /\ row = [c \in Cells |-> "none"] /\ times = [c \in Cells |-> 0]
    /\ sup = [c \in Cells |-> "none"] /\ reaped = [c \in Cells |-> FALSE]
    /\ force = [c \in Cells |-> 0] /\ inv = [c \in Cells |-> "none"]
    /\ manifest = [c \in Cells |-> "none"] /\ published = [c \in Cells |-> FALSE]
-----------------------------------------------------------------------------
(* Rows.                                                                   *)

\* _record of every cell in S; r[c] is the row of c.
Record(S, r) ==
    /\ row' = [c \in Cells |-> IF c \in S THEN r[c] ELSE row[c]]
    /\ times' = [c \in Cells |-> IF c \in S THEN times[c] + 1 ELSE times[c]]

\* _finish_run by the parent, of the runs in S: whatever has not ended, failed.
Settle(S) ==
    manifest' = [c \in Cells |-> IF c \in S /\ manifest[c] = "running" THEN "failed"
                                 ELSE manifest[c]]

\* A success takes a completed run and its result.
Recovered(c) == IF manifest[c] = "completed" /\ published[c] THEN "completed" ELSE "failed"

\* A bug: the run is settled whoever may be writing it.
RecoverAnyway ==
    /\ Record(ready, [c \in ready |-> Recovered(c)])
    /\ Settle(ready)
    /\ ready' = {}

\* _recover_ready: cells whose exit is not confirmed are not touched; recovery
\* raises for those in F, before or after the run is settled.
RecoverReady ==
    LET sure == {c \in ready : reaped[c]}
    IN /\ \E F \in SUBSET sure :
             /\ Record(ready, [c \in ready |-> IF c \notin sure THEN "unconfirmed"
                                               ELSE IF c \in F THEN "failed"
                                               ELSE Recovered(c)])
             /\ Settle(sure) \/ Settle(sure \ F)
       /\ ready' = {}
-----------------------------------------------------------------------------
(* The manager.                                                            *)

\* create looks at _closed and goes on to validate and expand, without a lock.
Create ==
    /\ pc = "none" /\ ~Closed
    /\ pc' = "applying"
    /\ UNCHANGED <<manager, report, batch, processes, files>>

\* A bug: the launch does not ask again.
LaunchClosed ==
    /\ pc = "applying"
    /\ pc' = "created" /\ saved' = "created"
    /\ UNCHANGED <<closer, abort, report, batch, processes, files>>

\* _launch, under the admission lock, asks again; then the report cannot be
\* written, or the coordinator is started, or that fails and nothing will run.
Launch ==
    /\ pc = "applying"
    /\ \/ pc' = "refused" /\ UNCHANGED <<saved, report>>
       \/ /\ ~Closed
          /\ \/ pc' = "created" /\ saved' = "created" /\ UNCHANGED report
             \/ /\ pc' = "done" /\ status' = "faulted"
                /\ Record(Cells, [c \in Cells |-> "failed"])
                /\ saved' \in {"created", "faulted"}
    /\ UNCHANGED <<closer, abort, batch, processes, files>>

Registered == pc \notin {"none", "applying", "refused", "done"}

\* close, under the admission lock: no more launches, and whoever is there is
\* told.
Close ==
    /\ closer = "idle"
    /\ closer' = "waiting"
    /\ abort' = (abort \/ Registered)
    /\ UNCHANGED <<saved, pc, report, batch, processes, files>>

\* Everyone who was there is done.
CloseReturn ==
    /\ closer = "waiting" /\ (abort => pc = "done")
    /\ closer' = "returned"
    /\ UNCHANGED <<abort, saved, pc, report, batch, processes, files>>

\* get of an experiment that no manager has: progress on disk is stale.
GetStored ==
    /\ pc = "done" /\ saved \in {"created", "running"}
    /\ saved' = "interrupted"
    /\ UNCHANGED <<closer, abort, pc, report, batch, processes, files>>
-----------------------------------------------------------------------------
(* The coordinator.                                                        *)

\* An exception: the finally of _coordinate follows.
Raise == pc' = "finally" /\ status' = "faulted"

\* _coordinate says it is running; the report may not be writable.
Begin ==
    /\ pc = "created"
    /\ \/ pc' = "drive" /\ status' = "running" /\ saved' = "running"
       \/ Raise /\ UNCHANGED saved
    /\ UNCHANGED <<closer, abort, row, times, batch, processes, files>>

\* The active cells whose supervisor is gone.
Ended == {c \in active : sup[c] = "gone"}

\* _drive is told to stop.  If everything has ended by itself, nothing is
\* interrupted; otherwise _stop_active begins.
DriveAbort ==
    /\ pc = "drive" /\ abort
    /\ active' = active \ Ended
    /\ IF active' = {} /\ (\A c \in Cells : times[c] > 0 \/ c \in ready \cup Ended)
       THEN /\ pc' = "finally" /\ ready' = ready \cup Ended
            /\ UNCHANGED status
       ELSE /\ pc' = "coop" /\ ready' = ready \cup Ended
            /\ status' = "interrupted"
    /\ UNCHANGED <<manager, row, times, next, processes, files>>

\* A batch ends piece by piece.
DriveCollect ==
    /\ pc = "drive" /\ ~abort /\ Ended # {}
    /\ active' = active \ Ended /\ ready' = ready \cup Ended
    /\ UNCHANGED <<manager, pc, report, next, processes, files>>

\* A bug: what has ended is recovered while others run.
RecoverEarly ==
    /\ pc = "drive" /\ ~abort /\ ready # {}
    /\ RecoverReady
    /\ \/ saved' = "running" /\ pc' = "launch" /\ UNCHANGED status
       \/ Raise /\ UNCHANGED saved
    /\ UNCHANGED <<closer, abort, next, active, processes, published>>

\* The whole batch has ended: recover it, save the report, and go on to the next.
DriveRecover ==
    /\ pc = "drive" /\ ~abort /\ active = {} /\ ready # {}
    /\ RecoverReady
    /\ \/ saved' = "running" /\ pc' = "launch" /\ UNCHANGED status
       \/ Raise /\ UNCHANGED saved
    /\ UNCHANGED <<closer, abort, next, active, processes, published>>

\* There is nothing to recover before the first batch.
DriveFirst ==
    /\ pc = "drive" /\ ~abort /\ active = {} /\ ready = {}
    /\ pc' = "launch"
    /\ UNCHANGED <<manager, report, batch, processes, files>>

\* The next cell is started, or its process cannot be.
LaunchCell ==
    /\ pc = "launch" /\ ~abort /\ next <= Total /\ Cardinality(active) < Jobs
    /\ next' = next + 1
    /\ \/ /\ sup' = [sup EXCEPT ![next] = "alive"]
          /\ active' = active \cup {next}
          /\ UNCHANGED <<pc, status>>
       \/ Raise /\ UNCHANGED <<sup, active>>
    /\ UNCHANGED <<manager, row, times, ready, reaped, force, inv, files>>

\* No more now: the batch is full, the experiment over, or it is told to stop.
LaunchEnd ==
    /\ pc = "launch"
    /\ \/ abort \/ Cardinality(active) = Jobs
       \/ next > Total
    /\ pc' = IF ~abort /\ active = {} THEN "finally" ELSE "drive"
    /\ UNCHANGED <<manager, report, batch, processes, files>>

\* _stop_active collects in each of its phases ...
StopCollect ==
    /\ pc \in {"coop", "term", "kill"} /\ Ended # {}
    /\ active' = active \ Ended /\ ready' = ready \cup Ended
    /\ UNCHANGED <<manager, pc, report, next, processes, files>>

\* A bug: the grace period does not end while a cell lives.
StopPatient ==
    /\ pc \in {"coop", "term"} /\ active = {}
    /\ pc' = IF pc = "coop" THEN "term" ELSE "kill"
    /\ force' = [c \in Cells |-> IF c \in active THEN IF pc = "coop" THEN 1 ELSE 2
                                 ELSE force[c]]
    /\ UNCHANGED <<manager, report, batch, sup, reaped, inv, files>>

\* ... and asks those that remain for more, when its time is over.
StopSignal ==
    /\ pc \in {"coop", "term"}
    /\ pc' = IF pc = "coop" THEN "term" ELSE "kill"
    /\ force' = [c \in Cells |-> IF c \in active THEN IF pc = "coop" THEN 1 ELSE 2
                                 ELSE force[c]]
    /\ UNCHANGED <<manager, report, batch, sup, reaped, inv, files>>

\* Nothing more can be done: recover what has ended.
StopRecover ==
    /\ pc = "kill" /\ ready # {}
    /\ RecoverReady
    /\ UNCHANGED <<manager, pc, status, next, active, processes, published>>

\* A bug: what was given up is still taken for active.
GiveUpActive ==
    /\ pc = "kill" /\ ready = {}
    /\ Record(active, [c \in active |-> "unconfirmed"])
    /\ pc' = "finally"
    /\ UNCHANGED <<manager, status, batch, processes, files>>

\* What has not is recorded as it is.
GiveUp ==
    /\ pc = "kill" /\ ready = {}
    /\ Record(active, [c \in active |-> "unconfirmed"])
    /\ active' = {} /\ pc' = "finally"
    /\ UNCHANGED <<manager, status, next, ready, processes, files>>

\* finally, after an exception with cells running.
FinallyStop ==
    /\ pc = "finally" /\ active # {}
    /\ pc' = "coop"
    /\ UNCHANGED <<manager, report, batch, processes, files>>

FinallyRecover ==
    /\ pc = "finally" /\ active = {} /\ ready # {}
    /\ RecoverReady
    /\ UNCHANGED <<manager, pc, status, next, active, processes, published>>

\* The cells without a row.
Missing == {c \in Cells : times[c] = 0}

\* A bug: an experiment that was not stopped is a success.
FinishHopeful ==
    /\ pc = "finally" /\ active = {} /\ ready = {}
    /\ Record(Missing, [c \in Missing |-> "failed"])
    /\ status' = IF status \in {"faulted", "interrupted"} THEN status ELSE "completed"
    /\ pc' = "done" /\ saved' \in {saved, status'}
    /\ UNCHANGED <<closer, abort, batch, processes, files>>

\* Fill in what was never submitted, judge, save if that is possible, and let
\* the waiting go.
Finish ==
    /\ pc = "finally" /\ active = {} /\ ready = {}
    /\ Record(Missing, [c \in Missing |-> "failed"])
    /\ status' = IF status \in {"faulted", "interrupted"} THEN status
                 ELSE IF \A c \in Cells : row'[c] = "completed" THEN "completed" ELSE "faulted"
    /\ pc' = "done" /\ saved' \in {saved, status'}
    /\ UNCHANGED <<closer, abort, batch, processes, files>>
-----------------------------------------------------------------------------
(* The processes of cell c.                                                *)

\* The supervisor forks the invocation, or says that it cannot.
Fork(c) ==
    /\ sup[c] = "alive" /\ inv[c] = "none"
    /\ \/ inv' = [inv EXCEPT ![c] = "live"] /\ UNCHANGED <<sup, reaped>>
       \/ /\ reaped' = [reaped EXCEPT ![c] = TRUE] /\ sup' = [sup EXCEPT ![c] = "gone"]
          /\ UNCHANGED inv
    /\ UNCHANGED <<manager, pc, report, batch, force, files>>

\* A bug: the supervisor goes with whatever it has seen.
ReapLive(c) ==
    /\ sup[c] = "alive" /\ inv[c] # "none" /\ (inv[c] = "dead" \/ force[c] = 2)
    /\ reaped' = [reaped EXCEPT ![c] = TRUE] /\ sup' = [sup EXCEPT ![c] = "gone"]
    /\ UNCHANGED <<manager, pc, report, batch, force, inv, files>>

\* The supervisor has no child any more.
Reap(c) ==
    /\ sup[c] = "alive" /\ inv[c] = "dead"
    /\ reaped' = [reaped EXCEPT ![c] = TRUE] /\ sup' = [sup EXCEPT ![c] = "gone"]
    /\ UNCHANGED <<manager, pc, report, batch, force, inv, files>>

\* The supervisor is killed.
SupervisorLost(c) ==
    /\ sup[c] = "alive"
    /\ sup' = [sup EXCEPT ![c] = "gone"]
    /\ UNCHANGED <<manager, pc, report, batch, reaped, force, inv, files>>

\* The invocation ends by itself, or is killed.
CellDies(c) ==
    /\ inv[c] = "live"
    /\ inv' = [inv EXCEPT ![c] = "dead"]
    /\ UNCHANGED <<manager, pc, report, batch, sup, reaped, force, files>>

Put(c, m) ==
    /\ inv[c] = "live"
    /\ manifest' = [manifest EXCEPT ![c] = m]
    /\ UNCHANGED <<manager, pc, report, batch, processes, published>>

\* _child_run: the run is there; cleanup is over and its outcome published.
ChildCreates(c) == manifest[c] = "none" /\ Put(c, "running")

ChildEnds(c) == manifest[c] = "running" /\ \E m \in {"completed", "failed"} : Put(c, m)

\* _cell_worker: a result once the run has ended, or the child raises and dies.
ChildPublishes(c) ==
    /\ inv[c] = "live" /\ manifest[c] \in {"completed", "failed"} /\ ~published[c]
    /\ published' = [published EXCEPT ![c] = TRUE]
    /\ UNCHANGED <<manager, pc, report, batch, processes, manifest>>
-----------------------------------------------------------------------------
Manager == Create \/ Launch \/ Close \/ CloseReturn \/ GetStored

Coordinator ==
    \/ Begin \/ DriveAbort \/ DriveCollect \/ DriveRecover \/ DriveFirst
    \/ LaunchCell \/ LaunchEnd \/ StopCollect \/ StopSignal \/ StopRecover \/ GiveUp
    \/ FinallyStop \/ FinallyRecover \/ Finish

Cell(c) ==
    \/ Fork(c) \/ Reap(c) \/ SupervisorLost(c) \/ CellDies(c)
    \/ ChildCreates(c) \/ ChildEnds(c) \/ ChildPublishes(c)

Next == Manager \/ Coordinator \/ \E c \in Cells : Cell(c)

Spec == Init /\ [][Next]_vars

\* The coordinator is a thread that waits for nothing without a deadline, and
\* the launch of an experiment comes back.  No process has to do anything.
Fairness == WF_vars(Coordinator) /\ WF_vars(CloseReturn)

FairSpec == Spec /\ Fairness
-----------------------------------------------------------------------------
(* Properties.                                                             *)

\* Every variable keeps its type; a batch has at most Jobs cells.
TypeOK ==
    /\ closer \in {"idle", "waiting", "returned"} /\ abort \in BOOLEAN
    /\ saved \in {"none", "created", "running", "completed", "faulted", "interrupted"}
    /\ pc \in {"none", "applying", "refused", "created", "drive", "launch", "coop", "term",
               "kill", "finally", "done"}
    /\ status \in {"created", "running", "completed", "faulted", "interrupted"}
    /\ next \in 1..Total + 1 /\ active \subseteq Cells /\ ready \subseteq Cells
    /\ Cardinality(active) <= Jobs
    /\ row \in [Cells -> {"none", "completed", "failed", "unconfirmed"}]
    /\ times \in [Cells -> Nat]
    /\ sup \in [Cells -> {"none", "alive", "gone"}] /\ reaped \in [Cells -> BOOLEAN]
    /\ force \in [Cells -> 0..2] /\ inv \in [Cells -> {"none", "live", "dead"}]
    /\ manifest \in [Cells -> {"none", "running", "completed", "failed"}]
    /\ published \in [Cells -> BOOLEAN]

\* A cell has at most one row, whatever was raised where, and exactly one when
\* the experiment is done.
OneRowEach ==
    /\ \A c \in Cells : times[c] <= 1
    /\ pc = "done" => \A c \in Cells : times[c] = 1

\* A row that counts as completed is that of a run that completed and has given
\* its measurements, and a report that is saved as completed has no other.
SuccessIsReal ==
    /\ \A c \in Cells : row[c] = "completed" => manifest[c] = "completed" /\ published[c]
    /\ saved = "completed" => \A c \in Cells : row[c] = "completed"

\* When the experiment is done, a process of it that still runs is reported as
\* not confirmed.
SurvivorsReported ==
    pc = "done" => \A c \in Cells : inv[c] = "live" => row[c] = "unconfirmed"

\* Once close() has come back nothing is started or driven any more.
QuietWhenClosed ==
    closer = "returned" => pc \in {"none", "applying", "refused", "done"}

\* The parent never edits the artifacts of a cell that may still write them,
\* and reads them, at whatever length, only when the live cells of the batch
\* need no more control.
WritersUntouched ==
    [][times' # times => \A c \in Cells : inv[c] = "live" => manifest'[c] = manifest[c]]_vars

SiblingsFirst ==
    [][times' # times => \A c \in active : force[c] = 2]_vars

\* close() comes back, whatever the processes do.
CloseReturns == closer = "waiting" ~> closer # "waiting"
=============================================================================
