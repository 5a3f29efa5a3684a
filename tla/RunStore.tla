------------------------------ MODULE RunStore ------------------------------
(***************************************************************************)
(* The directory of one run, from its first journal record to its settled  *)
(* outcome (aerokernel/journal.py, journal_stream.py; services/storage.py, *)
(* worker.py, experiments.py, lifecycle.py, app.py; platform/simulation.py).*)
(*                                                                         *)
(* A writer process owns the journal.  Its execution thread and the thread *)
(* that serves live input append under the lock of the kernel; a record is *)
(* acknowledged only after write, flush and fsync, and a failed append     *)
(* taints the writer.  What is acknowledged is published to readers in     *)
(* files that are replaced atomically: committed-prefix.json, index.json   *)
(* and manifest.json.  The writer may be killed between any two steps;     *)
(* then the host settles the outcome from what the files say: the worker   *)
(* registry for a service run, the experiment manager for a cell.  The     *)
(* host itself may crash and the service be started again.  Viewers read   *)
(* the files all the time.                                                 *)
(*                                                                         *)
(* A coordinate is a number of records: record k is line k of the journal, *)
(* and 0 stands for a file or field that is not there.  Left out: the      *)
(* content and the codec of records, error texts, waiting metadata,        *)
(* projections and their cache.                                            *)
(***************************************************************************)
EXTENDS Naturals

CONSTANTS
    Owners,      \* who runs the writer: "service", "experiment"
    MaxRecords   \* bound on the records of the run

ASSUME RunStoreAssumption ==
    Owners \subseteq {"service", "experiment"} /\ MaxRecords \in Nat

Terminal == {"completed", "stopped", "faulted", "interrupted", "input_timeout"}

\* Failures that are written down before cleanup, which may hang.
Observable == {"faulted", "input_timeout"}

Threads == {"run", "input"}

VARIABLES
    \* the files
    wal,        \* complete lines of journal.jsonl
    tail,       \* what follows them: "none", "part" of a line, "mixed" parts
                \* of two; "bad" once two records share a line
    ack,        \* committed-prefix.json
    index,      \* rows of index.json
    status,     \* status in manifest.json
    final,      \* final_cursor in manifest.json
    observed,   \* execution_outcome in manifest.json, or "none"
    \* the writer process
    alive,
    holder,     \* the thread that appends under the kernel's lock, or "none"
    acked,      \* acknowledged records
    tainted,    \* Journal.failed
    closed,     \* RunSession.closed
    kernelClosed,
    cache,      \* RunStorage._published_prefix
    rows,       \* RunStorage.entries of the writer
    coord,      \* coord[t]: coordinate thread t has read and not published
    stage,      \* where the execution thread is
    input,      \* where the input thread is
    want,       \* the outcome the execution thread is about to report
    \* the host and a viewer
    owner, hostUp, settled, restarted,
    viewing,    \* "none", "opened", "fresh" or "refused"
    shown       \* records the viewer has offsets of

journal == <<wal, tail>>
manifest == <<status, final, observed>>
files == <<journal, ack, index, manifest>>
session == <<tainted, closed, kernelClosed>>
publication == <<cache, rows, coord>>
writer == <<alive, holder, acked, session, publication, stage, input, want>>
host == <<owner, hostUp, settled, restarted>>
viewer == <<viewing, shown>>
vars == <<files, writer, host, viewer>>

Stages == {"boot", "starting", "aborting", "opened", "loop", "ending", "recording",
           "retaining", "closing", "stopping", "publishing", "reporting", "exiting"}

Inputs == {"idle", "request", "index", "publish", "fault", "report", "replacing", "keeping"}

Live == {"created", "running"}

\* How a service run, and a cell, may leave its loop.
Ends(o) == {"completed", "faulted", "input_timeout"}
             \cup IF o = "service" THEN {"stopped"} ELSE {"interrupted"}

AtLeastOne(n) == IF n = 0 THEN 1 ELSE n

Later(m, n) == IF m < n THEN n ELSE m

Init ==
    /\ wal = 0 /\ tail = "none" /\ ack = 0 /\ index = 0
    /\ status = "created" /\ final = 0 /\ observed = "none"
    /\ alive = TRUE /\ holder = "none" /\ acked = 0
    /\ tainted = FALSE /\ closed = FALSE /\ kernelClosed = FALSE
    /\ cache = 0 /\ rows = 0 /\ coord = [t \in Threads |-> 0]
    /\ stage = "boot" /\ input = "idle" /\ want = "none"
    /\ owner \in Owners /\ hostUp = TRUE /\ settled = FALSE /\ restarted = FALSE
    /\ viewing = "none" /\ shown = 0
-----------------------------------------------------------------------------
(* The journal: Journal.append by either thread.                           *)

\* simulation.close() is under way.
Cleanup == stage \in {"stopping", "aborting"}

\* The kernel still takes records of thread t.
MayAppend(t) ==
    /\ ~kernelClosed
    /\ IF t = "run"
       THEN stage \in {"starting", "loop"} \/ Cleanup \/ (stage = "boot" /\ acked = 0)
       ELSE input = "request" /\ ~closed

\* A bug: a tainted writer is used again.
BeginTainted(t) ==
    /\ alive /\ holder = "none" /\ MayAppend(t) /\ wal < MaxRecords
    /\ holder' = t
    /\ tail' = IF tail = "none" THEN "part" ELSE "mixed"
    /\ kernelClosed' = (t = "run" /\ Cleanup)
    /\ UNCHANGED <<wal, ack, index, manifest, alive, acked, tainted, closed,
                   publication, stage, input, want, host, viewer>>

\* The line starts to reach the file.  The record of a run that is being
\* closed is its stop, and the kernel is closed before it is written.
Begin(t) ==
    /\ alive /\ holder = "none" /\ MayAppend(t) /\ wal < MaxRecords
    /\ ~tainted
    /\ holder' = t
    /\ tail' = IF tail = "none" THEN "part" ELSE "mixed"
    /\ kernelClosed' = (t = "run" /\ Cleanup)
    /\ UNCHANGED <<wal, ack, index, manifest, alive, acked, tainted, closed,
                   publication, stage, input, want, host, viewer>>

Unfinished == tail \in {"part", "mixed"}

\* The whole line is in the file, and not yet flushed or fsynced.
LineVisible(t) ==
    /\ alive /\ holder = t /\ Unfinished
    /\ wal' = wal + 1
    /\ tail' = IF tail = "part" THEN "none" ELSE "bad"
    /\ UNCHANGED <<ack, index, manifest, writer, host, viewer>>

\* flush and fsync are back: the record counts.
Acknowledge(t) ==
    /\ alive /\ holder = t /\ ~Unfinished
    /\ acked' = acked + 1
    /\ holder' = "none"
    /\ input' = IF t = "input" THEN "index" ELSE input
    /\ UNCHANGED <<files, alive, session, publication, stage, want, host, viewer>>

\* A short write, or a failed flush or fsync, wherever the line has got to.
AppendFails(t) ==
    /\ alive /\ holder = t
    /\ tainted' = TRUE
    /\ holder' = "none"
    /\ input' = IF t = "input" THEN "fault" ELSE input
    /\ want' = IF t = "run" THEN "faulted" ELSE want
    /\ UNCHANGED <<files, alive, acked, closed, kernelClosed, publication, stage,
                   host, viewer>>
-----------------------------------------------------------------------------
(* Publication.                                                            *)

\* RunStorage.index(through_bytes=n): extend the offsets, never shorten them.
IndexThrough(n) ==
    /\ rows' = Later(rows, n)
    /\ index' = IF rows < n THEN n ELSE index

\* A cell also publishes its header before it starts, and before it closes.
MayPublish(t) ==
    IF t = "run"
    THEN \/ stage \in {"opened", "loop", "publishing"}
         \/ stage \in {"boot", "closing"} /\ owner = "experiment" /\ acked > 0
    ELSE input = "publish"

\* publish_committed, first half: read acknowledged_prefix under the lock.
ReadCoordinate(t) ==
    /\ alive /\ holder = "none" /\ MayPublish(t) /\ coord[t] = 0
    /\ coord' = [coord EXCEPT ![t] = acked]
    /\ UNCHANGED <<files, alive, holder, acked, session, cache, rows, stage, input,
                   want, host, viewer>>

\* Where the publishing thread goes on.
Published(t) ==
    /\ coord' = [coord EXCEPT ![t] = 0]
    /\ stage' = IF t = "input" THEN stage
                ELSE IF stage = "opened" THEN "loop"
                ELSE IF stage = "publishing" THEN "reporting" ELSE stage
    /\ input' = IF t = "input" THEN "idle" ELSE input

\* publish_committed, second half, under publication_lock: a coordinate that
\* another thread has overtaken meanwhile is dropped.
Publish(t) ==
    /\ alive /\ coord[t] > 0
    /\ ack' = Later(cache, coord[t]) /\ cache' = ack'
    /\ Published(t)
    /\ UNCHANGED <<journal, index, manifest, alive, holder, acked, session, rows, want,
                   host, viewer>>
-----------------------------------------------------------------------------
(* The writer: its execution thread.                                       *)

\* Thread "run" has nothing under way.
Free(s) == alive /\ stage = s /\ holder # "run" /\ coord["run"] = 0

\* The header is acknowledged: RunSession is constructed, and starts.
StartSession ==
    /\ Free("boot") /\ acked > 0 /\ (owner = "experiment" => ack > 0)
    /\ status' = "running" /\ stage' = "starting"
    /\ UNCHANGED <<journal, ack, index, final, observed, alive, holder, acked, session,
                   publication, input, want, host, viewer>>

\* simulation.start() is through: the state of time 0 is acknowledged.
Started ==
    /\ Free("starting") /\ ~tainted /\ acked > 1
    /\ IF owner = "service" THEN IndexThrough(acked) ELSE UNCHANGED <<rows, index>>
    /\ stage' = "opened"
    /\ UNCHANGED <<journal, ack, manifest, alive, holder, acked, session, cache, coord,
                   input, want, host, viewer>>

\* The session cannot be made, for want of a header, or simulation.start()
\* raises: RunSession._fault closes a service run at once, a cell leaves that
\* to its own bookkeeping.
StartFails ==
    /\ \/ Free("boot") /\ tainted /\ owner = "service"
       \/ Free("starting")
    /\ want' = "faulted"
    /\ closed' = (owner = "service")
    /\ stage' = IF stage = "starting" /\ owner = "service" THEN "aborting" ELSE "ending"
    /\ UNCHANGED <<files, alive, holder, acked, tainted, kernelClosed, publication,
                   input, host, viewer>>

\* report_wait and the status of the pacer.
ReportWait ==
    /\ Free("loop") /\ want = "none"
    /\ IndexThrough(acked) /\ status' = "running"
    /\ UNCHANGED <<journal, ack, final, observed, alive, holder, acked, session, cache,
                   coord, stage, input, want, host, viewer>>

\* The run loop is left; after a failed append it can only be by that failure.
EndRun(o) ==
    /\ Free("loop") /\ o \in Ends(owner)
    /\ want = "faulted" => o = "faulted"
    /\ want' = o /\ stage' = "ending"
    /\ UNCHANGED <<files, alive, holder, acked, session, publication, input, host, viewer>>

\* A failure that was seen is on record before cleanup, which may hang.  The manifest is
\* read, with the fault of the input thread in it ("retaining") or not yet ("recording"),
EndingRead ==
    /\ Free("ending")
    /\ stage' = IF want \notin Observable THEN "closing"
                ELSE IF status = "faulted" THEN "retaining" ELSE "recording"
    /\ UNCHANGED <<files, alive, holder, acked, session, publication, input, want, host,
                   viewer>>

\* and replaced as a whole, without the lock under which the other thread replaces it: a
\* fault reported since it was read is gone.
RecordOutcome ==
    /\ Free("recording") \/ Free("retaining")
    /\ observed' = want
    /\ IF stage = "recording" /\ status = "faulted"
       THEN status' = "running" /\ final' \in {0, final}
       ELSE UNCHANGED <<status, final>>
    /\ stage' = "closing"
    /\ UNCHANGED <<journal, ack, index, alive, holder, acked, session, publication, input,
                   want, host, viewer>>

\* RunSession._close claims the session, unless _fault has done so; a worker
\* that never had a session has only its status to report.
ClaimClose ==
    /\ Free("closing")
    /\ closed' = TRUE
    /\ stage' = IF acked = 0 THEN "reporting"
                ELSE IF closed THEN "publishing" ELSE "stopping"
    /\ UNCHANGED <<files, alive, holder, acked, tainted, kernelClosed, publication, input,
                   want, host, viewer>>

\* The journal's file object is closed; what it still buffers may get out.
FlushRest ==
    \/ UNCHANGED journal
    \/ tail = "part" /\ wal' = wal + 1 /\ tail' = "none"

\* simulation.close() and the last _index are through.  If they fail, as they
\* do if the stop record fails, or if it was _fault that closed, the session
\* reports the fault.
SessionClosed ==
    /\ alive /\ Cleanup /\ holder = "none"
    /\ kernelClosed' = TRUE
    /\ IndexThrough(acked)
    /\ FlushRest
    /\ \/ /\ stage = "stopping" /\ ~(kernelClosed /\ tainted)
          /\ UNCHANGED <<want, status, final>>
       \/ /\ want' = "faulted" /\ status' = "faulted"
          /\ final' = AtLeastOne(acked)
    /\ stage' = IF stage = "stopping" THEN "publishing" ELSE "ending"
    /\ UNCHANGED <<ack, observed, alive, holder, acked, tainted, closed, cache, coord,
                   input, host, viewer>>

\* The outcome: RunStorage.status, which takes the length of the journal if
\* there is no ACK, or _finish_run(recovering=False) of a cell, which keeps a
\* terminal status and rebuilds the index from the ACK.
Report ==
    /\ Free("reporting")
    /\ IF owner = "service"
       THEN /\ status' = want
            /\ IndexThrough(IF ack = 0 THEN wal ELSE ack)
            /\ final' = AtLeastOne(IF ack = 0 THEN index' ELSE ack)
       ELSE /\ status' = IF status \in Terminal THEN status ELSE want
            /\ index' = ack /\ final' = ack /\ UNCHANGED rows
    /\ stage' = "exiting"
    /\ UNCHANGED <<journal, ack, observed, alive, holder, acked, session, cache, coord,
                   input, want, host, viewer>>

Exit ==
    /\ Free("exiting")
    /\ alive' = FALSE
    /\ UNCHANGED <<files, holder, acked, session, publication, stage, input, want, host,
                   viewer>>

\* Killed: by the host's escalation, the operating system or an operator.
Crash ==
    /\ alive
    /\ alive' = FALSE
    /\ UNCHANGED <<files, holder, acked, session, publication, stage, input, want, host,
                   viewer>>
-----------------------------------------------------------------------------
(* The writer: the thread that serves live input of a service run.         *)

\* A submission passes the test for finishing, which only the end of the loop sets.
InputRequest ==
    /\ alive /\ owner = "service" /\ stage = "loop" /\ input = "idle"
    /\ input' = "request"
    /\ UNCHANGED <<files, alive, holder, acked, session, publication, stage, want, host,
                   viewer>>

\* Refused, by the schema of the input, a closed session or a closed kernel; a kernel that
\* refuses after a failed append faults the session.
InputRefused ==
    /\ alive /\ input = "request" /\ holder # "input"
    /\ input' \in {"idle"} \cup IF tainted THEN {"fault"} ELSE {}
    /\ UNCHANGED <<files, alive, holder, acked, session, publication, stage, want, host,
                   viewer>>

\* RunSession._index_or_fault of an admitted input.
InputIndex ==
    /\ alive /\ input = "index"
    /\ IndexThrough(acked)
    /\ input' = "publish"
    /\ UNCHANGED <<journal, ack, manifest, alive, holder, acked, session, cache, coord,
                   stage, want, host, viewer>>

\* RunSession._fault: the failed append closes the session, unless the
\* execution thread has claimed that.
InputFault ==
    /\ alive /\ input = "fault" /\ holder = "none"
    /\ input' = "report"
    /\ closed' = TRUE
    /\ IF closed THEN UNCHANGED <<kernelClosed, rows, index, journal>>
       ELSE kernelClosed' = TRUE /\ IndexThrough(acked) /\ FlushRest
    /\ UNCHANGED <<ack, manifest, alive, holder, acked, tainted, cache, coord, stage, want,
                   host, viewer>>

\* RunSession._status("faulted"): the manifest is read, with what the execution thread has
\* seen in it ("keeping") or not yet ("replacing"),
InputRead ==
    /\ alive /\ input = "report"
    /\ input' = IF observed = "none" THEN "replacing" ELSE "keeping"
    /\ UNCHANGED <<files, alive, holder, acked, session, publication, stage, want, host,
                   viewer>>

\* and replaced as a whole: what was put on record since it was read is gone.
InputReport ==
    /\ alive /\ input \in {"replacing", "keeping"}
    /\ status' = "faulted" /\ final' = AtLeastOne(acked) /\ IndexThrough(acked)
    /\ observed' = IF input = "replacing" THEN "none" ELSE observed
    /\ input' = "idle"
    /\ UNCHANGED <<journal, ack, alive, holder, acked, session, cache, coord, stage, want,
                   host, viewer>>
-----------------------------------------------------------------------------
(* The host.                                                               *)

\* A bug: the host forgets what the writer had seen.
OutcomeForgotten(o) == IF status \in Terminal THEN status ELSE o

\* The status of a dead writer: a terminal one stands, else what it had seen,
\* else what the host makes of it.
Outcome(o) == IF status \in Terminal THEN status
              ELSE IF observed # "none" THEN observed ELSE o

\* A bug: what the status says last is final, whatever the ACK.
ObserveTerminal ==
    /\ owner = "service" /\ hostUp /\ ~restarted /\ ~alive /\ ~settled
    /\ status' = Outcome("interrupted")
    /\ final' = IF status \in Terminal THEN final ELSE AtLeastOne(ack)
    /\ index' = (IF ack = 0 THEN 0 ELSE index)
    /\ settled' = TRUE
    /\ UNCHANGED <<journal, ack, observed, writer, owner, hostUp, restarted, viewer>>

\* A bug: a reported outcome is settled while the process still runs.
ObserveEarly ==
    /\ owner = "service" /\ hostUp /\ ~restarted /\ ~settled
    /\ ~alive \/ status \in Terminal
    /\ status' = Outcome("interrupted")
    /\ final' = AtLeastOne(ack) /\ index' = (IF ack = 0 THEN 0 ELSE index)
    /\ settled' = TRUE
    /\ UNCHANGED <<journal, ack, observed, writer, owner, hostUp, restarted, viewer>>

\* WorkerRegistry._observe_exit.
Observe ==
    /\ owner = "service" /\ hostUp /\ ~restarted /\ ~alive /\ ~settled
    /\ status' = Outcome("interrupted")
    /\ final' = AtLeastOne(ack) /\ index' = (IF ack = 0 THEN 0 ELSE index)
    /\ settled' = TRUE
    /\ UNCHANGED <<journal, ack, observed, writer, owner, hostUp, restarted, viewer>>

\* _finish_run(recovering=True) of a cell that was cancelled or has died.
Recover ==
    /\ owner = "experiment" /\ hostUp /\ ~restarted /\ ~alive /\ ~settled
    /\ \E o \in {"interrupted", "faulted"} : status' = Outcome(o)
    /\ index' = ack /\ final' = ack
    /\ settled' = TRUE
    /\ UNCHANGED <<journal, ack, observed, writer, owner, hostUp, restarted, viewer>>

HostCrash ==
    /\ hostUp /\ ~restarted
    /\ hostUp' = FALSE
    /\ UNCHANGED <<files, writer, owner, settled, restarted, viewer>>

\* create_app on what it finds: any run that is not terminal is interrupted.
\* The directories of cells are elsewhere, and left alone.
Restart ==
    /\ ~hostUp
    /\ hostUp' = TRUE /\ restarted' = TRUE
    /\ IF owner = "service" /\ status \notin Terminal
       THEN /\ status' = "interrupted"
            /\ index' = wal
            /\ final' = AtLeastOne(IF ack = 0 THEN wal ELSE ack)
       ELSE UNCHANGED <<status, index, final>>
    /\ UNCHANGED <<journal, ack, observed, writer, owner, settled, viewer>>
-----------------------------------------------------------------------------
(* A viewer of the run.                                                    *)

\* RunStorage(directory): the offsets of index.json.
ViewOpen ==
    /\ viewing = "none"
    /\ viewing' = "opened" /\ shown' = index
    /\ UNCHANGED <<files, writer, host>>

\* A bug: offsets are extended to the ACK, and never cut back to it.
RefreshExtend ==
    /\ viewing \in {"opened", "fresh"} /\ ack > 0
    /\ shown' = Later(shown, ack)
    /\ viewing' = IF shown' = ack /\ ack <= wal THEN "fresh" ELSE "refused"
    /\ UNCHANGED <<files, writer, host>>

\* RunStorage.refresh_committed: cut the offsets back to the ACK, or extend
\* them through it; refuse a journal that does not reach it.
ViewRefresh ==
    /\ viewing \in {"opened", "fresh"} /\ ack > 0
    /\ IF ack <= Later(shown, wal)
       THEN shown' = ack /\ viewing' = "fresh"
       ELSE UNCHANGED shown /\ viewing' = "refused"
    /\ UNCHANGED <<files, writer, host>>
-----------------------------------------------------------------------------
Append == \E t \in Threads : Begin(t) \/ LineVisible(t) \/ Acknowledge(t) \/ AppendFails(t)

Publishing == \E t \in Threads : ReadCoordinate(t) \/ Publish(t)

Execution == \/ StartSession \/ Started \/ StartFails \/ ReportWait
             \/ \E o \in Terminal : EndRun(o)
             \/ EndingRead \/ RecordOutcome \/ ClaimClose \/ SessionClosed \/ Report \/ Exit

LiveInput == \/ InputRequest \/ InputRefused \/ InputIndex \/ InputFault
             \/ InputRead \/ InputReport

Next ==
    \/ Append \/ Publishing \/ Execution \/ Crash \/ LiveInput
    \/ Observe \/ Recover \/ HostCrash \/ Restart
    \/ ViewOpen \/ ViewRefresh

Spec == Init /\ [][Next]_vars

\* The registry waits for the process of a service run and then settles it, unless the host
\* crashes first.  Nobody need ever settle a cell: one whose end is not confirmed is left
\* as it is (experiments.py:1382).
FairSpec == Spec /\ WF_vars(Observe)
-----------------------------------------------------------------------------
(* Properties.                                                             *)

Counts == 0 .. MaxRecords

\* Every variable keeps its type.
TypeOK ==
    /\ wal \in Counts /\ tail \in {"none", "part", "mixed", "bad"}
    /\ ack \in Counts /\ index \in Counts
    /\ status \in Live \cup Terminal /\ final \in Nat
    /\ observed \in {"none"} \cup Observable
    /\ alive \in BOOLEAN /\ holder \in Threads \cup {"none"} /\ acked \in Counts
    /\ tainted \in BOOLEAN /\ closed \in BOOLEAN /\ kernelClosed \in BOOLEAN
    /\ cache \in Counts /\ rows \in Counts /\ coord \in [Threads -> Counts]
    /\ stage \in Stages /\ input \in Inputs /\ want \in Terminal \cup {"none"}
    /\ owner \in Owners /\ hostUp \in BOOLEAN /\ settled \in BOOLEAN
    /\ restarted \in BOOLEAN
    /\ viewing \in {"none", "opened", "fresh", "refused"} /\ shown \in Counts

\* Wherever appends fail and whenever the writer is killed, the journal holds
\* every acknowledged record whole, at most one more, and at most one torn
\* line behind them: replay of the file never stops inside what was promised.
RecoveryKeepsAcked ==
    /\ wal \in acked .. acked + 1
    /\ tail # "bad"
    /\ tail # "none" => wal = acked

\* The published coordinate never runs ahead of the acknowledged records,
\* although two threads publish and appends go on meanwhile.
AckIsAcknowledged == ack <= acked

\* The published coordinate never goes back, however the two publishers and
\* their files interleave.
AckNeverBack == [][ack' >= ack]_vars

\* A viewer that opened the run at any time, on an index from before or after
\* the coordinate, on a live, closed, killed or restarted run, can always be
\* brought to the published coordinate, and is never refused.
ViewerServed == viewing # "refused"

\* The outcome the host settles is about acknowledged records only: the final
\* cursor is the published coordinate, and no visible tail is in the index.
SettledIsAcked ==
    settled => final \in {ack, AtLeastOne(ack)} /\ index <= acked

\* Where a failure that the execution thread has seen has been put on record.
Recorded == {"closing", "stopping", "publishing", "reporting", "exiting"}

\* A failure the writer has put on record is not settled as a mere interruption, nor as a
\* success, if the writer hangs or is killed after that, even when its two threads replace
\* the manifest at the same time and one undoes what the other has written.
FailureSettled == settled =>
    /\ observed # "none" => status \in {observed, "faulted"}
    /\ want = "input_timeout" /\ stage \in Recorded => status \in {want, "faulted"}

-----------------------------------------------------------------------------
(* The inductive invariant behind them.                                    *)

\* The journal holds what is acknowledged and what one append leaves behind.
JournalInv ==
    /\ RecoveryKeepsAcked
    /\ tail \in {"none", "part"}
    /\ tail = "part" => wal < MaxRecords
    /\ wal > acked \/ tail = "part" => holder # "none" \/ tainted
    /\ holder # "none" => ~tainted /\ (tail = "none" => wal > acked)

\* What was published, or is about to be, is acknowledged; only the index of a
\* writer that never acknowledged its header may show that header.
PublishInv ==
    /\ cache = ack /\ AckIsAcknowledged /\ \A t \in Threads : coord[t] <= acked
    /\ rows <= wal /\ (rows <= acked \/ acked = 0)
    /\ index <= wal /\ (restarted \/ index <= acked \/ acked = 0)
    /\ viewing # "none" => shown <= wal
    /\ holder = "input" => input = "request"
    /\ coord["input"] > 0 => input = "publish"
    /\ stage \in {"opened", "loop"} \/ input # "idle" => acked > 0
    /\ stage = "reporting" => ack > 0 \/ acked = 0

\* The status follows what the execution thread wants to report.
OutcomeInv ==
    /\ holder = "run" => stage \in {"boot", "starting", "loop", "stopping", "aborting"}
    /\ observed # "none" => stage \in Recorded /\ want \in {observed, "faulted"}
    /\ ~restarted /\ want = "input_timeout" /\ stage \in Recorded =>
           observed = want \/ status \in {want, "faulted"}
    /\ stage \in {"recording", "retaining"} => want \in Observable
    /\ ~restarted /\ ~settled /\ status \in Terminal \ {"faulted"} =>
           stage = "exiting" /\ status = want
    /\ settled => ~alive /\ status \in Terminal
    /\ stage \notin {"boot", "starting", "loop", "opened"} => want # "none"

\* The inductive invariant: what the file holds, what of it is published, and
\* what is reported agree with the place of the two threads of the writer.
IInv == JournalInv /\ PublishInv /\ OutcomeInv /\ SettledIsAcked /\ FailureSettled

Decision == IF settled THEN status ELSE "undecided"

\* The directory implements what is promised to its readers: what is published
\* was acknowledged and never shrinks, and what the host settles, once, after
\* the writer is gone, stands, even if the service is restarted.
RunPromise == INSTANCE PublishedRun WITH
    produced <- acked,
    published <- ack,
    outcome <- Decision,
    Undecided <- "undecided",
    Outcomes <- Terminal

PromiseKept == RunPromise!Spec

\* docs/reference/http-api.md:143: whoever decides the outcome of a writer
\* that is gone retains the failure it had seen.
ObservedFailureStands ==
    [][(~alive /\ observed # "none" /\ status \notin Terminal /\ status' \in Terminal)
          => status' \in {observed, "faulted"}]_vars
=============================================================================
