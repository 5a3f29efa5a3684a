------------------------------ MODULE Workers -------------------------------
(***************************************************************************)
(* One worker process under its registry (services/lifecycle.py): launch,  *)
(* startup deadline, calls for live input from several threads, shutdown   *)
(* with escalation, the observation of its exit, and the release of its    *)
(* process, slot and connection.                                           *)
(*                                                                         *)
(* The registry's coroutines run on one event loop: what they do between   *)
(* two awaits is one action.  A call runs on a thread of its own and hands *)
(* the exchange over the pipe to a second thread, which goes on when the   *)
(* caller has given up.  There are no clocks: a deadline may pass at any   *)
(* moment.  The process may exit at any moment, heeds stop and terminate   *)
(* or not, and must exit only once it is killed; a descendant may keep the *)
(* pipe open after that.                                                   *)
(*                                                                         *)
(* Left out: the files of the run, which RunStore has, the warm projection *)
(* and the second answer bounded_input gives when the loop itself is late. *)
(***************************************************************************)
EXTENDS Naturals, Sequences

CONSTANT Calls   \* the calls for live input, each on a thread of its own

\* A call is none of the words that stand beside it.
ASSUME CallsAssumption ==
    Calls \cap {"none", "free", "error", "not_submitted", "uncertain"} = {}

VARIABLES
    \* the process
    proc,        \* "none" before its owner marker is written, then "starting",
                 \* "running" once it has acknowledged t=0, "failed" if it died before
                 \* that, "dead"
    killed,
    \* the event loop
    exited, released,
    monitor,     \* the task of _monitor: "none", "watch", "finish" or "done"
    abort,       \* the task of _escalate: "none", "grace" or "done"
    closer,      \* close(): "idle", "escalate", "kill", "wait" or "done"
    \* the channel
    lock,        \* who holds input_lock, or "free"
    busy,        \* channel_busy
    shutting,    \* channel_closing: the socket is shut down
    conn,        \* the host's end of the pipe: "open" or "closed"
    requests, replies,   \* what is in the pipe
    handling,    \* the input the worker is at, or "none"
    executed,    \* the inputs it has taken up
    \* the calls
    caller,      \* where the calling thread is
    exchange,    \* where its exchange thread is
    got,         \* the reply to a call, "error" once it may be out, or "none"
    told         \* what the caller is told: the receipt of an input, "uncertain",
                 \* "not_submitted", or "none" yet

process == <<proc, killed>>
loop == <<exited, released, monitor, abort, closer>>
channel == <<lock, busy, shutting, conn>>
pipe == <<requests, replies, handling, executed>>
calls == <<caller, exchange, got, told>>
vars == <<process, loop, channel, pipe, calls>>

Alive == proc \in {"starting", "running"}
Dead == proc \in {"failed", "dead"}

Closing == closer # "idle"

\* close() keeps observation of exits back while it escalates.
Controlling == closer \in {"escalate", "kill"}

Init ==
    /\ proc = "none" /\ killed = FALSE
    /\ exited = FALSE /\ released = FALSE
    /\ monitor = "none" /\ abort = "none" /\ closer = "idle"
    /\ lock = "free" /\ busy = FALSE /\ shutting = FALSE /\ conn = "open"
    /\ requests = <<>> /\ replies = <<>> /\ handling = "none" /\ executed = {}
    /\ caller = [c \in Calls |-> "idle"] /\ exchange = [c \in Calls |-> "none"]
    /\ got = [c \in Calls |-> "none"] /\ told = [c \in Calls |-> "none"]
-----------------------------------------------------------------------------
(* The process.                                                            *)

\* t=0 is acknowledged.
Ready ==
    /\ proc = "starting"
    /\ proc' = "running"
    /\ UNCHANGED <<killed, loop, channel, pipe, calls>>

\* The worker completes, faults, heeds a stop, or is killed by anyone.
Exit ==
    /\ Alive
    /\ proc' = IF proc = "starting" THEN "failed" ELSE "dead"
    /\ UNCHANGED <<killed, loop, channel, pipe, calls>>

WorkerTakes ==
    /\ proc = "running" /\ handling = "none" /\ requests # <<>>
    /\ handling' = Head(requests) /\ requests' = Tail(requests)
    /\ executed' = executed \cup {handling'}
    /\ UNCHANGED <<replies, process, loop, channel, calls>>

WorkerReplies ==
    /\ Alive /\ handling # "none"
    /\ replies' = Append(replies, handling) /\ handling' = "none"
    /\ UNCHANGED <<requests, executed, process, loop, channel, calls>>
-----------------------------------------------------------------------------
(* The registry.                                                           *)

\* _release, once: wake whoever is in a system call on the socket; close the
\* connection unless an exchange is using it, which then has to.
Release ==
    IF released THEN UNCHANGED <<released, shutting, conn>>
    ELSE /\ released' = TRUE /\ shutting' = TRUE
         /\ conn' = IF busy THEN conn ELSE "closed"

\* start: Process.start() may fail with a process, that is then aborted, or
\* without.
Launch ==
    /\ proc = "none" /\ ~Closing
    /\ \/ /\ proc' = "starting" /\ monitor' = "watch"
          /\ abort' \in {"none", "grace"}
          /\ UNCHANGED <<exited, released, shutting, conn>>
       \/ /\ proc' = "failed" /\ exited' = TRUE /\ Release
          /\ UNCHANGED <<abort, monitor>>
    /\ UNCHANGED <<killed, closer, lock, busy, pipe, calls>>

\* wait_started at its deadline: terminate, and escalate if that is not enough.
StartupTimeout ==
    /\ proc = "starting" /\ abort = "none"
    /\ abort' = "grace"
    /\ UNCHANGED <<exited, released, monitor, closer, process, channel, pipe, calls>>

\* wait_started finds the process gone.
StartupExit ==
    /\ proc = "failed" /\ ~exited
    /\ exited' = TRUE
    /\ UNCHANGED <<released, monitor, abort, closer, process, channel, pipe, calls>>

\* A bug: what was terminated is left to itself.
EscalateNever ==
    /\ abort = "grace"
    /\ abort' = "done"
    /\ UNCHANGED <<process, exited, released, monitor, closer, channel, pipe, calls>>

\* _escalate after the grace period.
Escalate ==
    /\ abort = "grace"
    /\ killed' = (killed \/ Alive)
    /\ abort' = "done"
    /\ UNCHANGED <<proc, exited, released, monitor, closer, channel, pipe, calls>>

\* _monitor sees the exit, and goes on to _finish.
ObserveExit ==
    /\ monitor = "watch" /\ Dead /\ ~Controlling
    /\ exited' = TRUE /\ monitor' = "finish"
    /\ UNCHANGED <<released, abort, closer, process, channel, pipe, calls>>

\* _finish: the exchange is drained, or has been waited for long enough.
Finish ==
    /\ monitor = "finish"
    /\ Release /\ monitor' = "done"
    /\ UNCHANGED <<exited, abort, closer, process, lock, busy, pipe, calls>>

\* close: no more launches; stop is asked, and after a while terminate.
CloseBegin ==
    /\ closer = "idle" /\ closer' = "escalate"
    /\ UNCHANGED <<exited, released, monitor, abort, process, channel, pipe, calls>>

\* close: both have had their time.
CloseKill ==
    /\ closer = "escalate" /\ closer' = "kill"
    /\ killed' = (killed \/ Alive)
    /\ UNCHANGED <<proc, exited, released, monitor, abort, channel, pipe, calls>>

\* Escalation is over: observe, and give the tasks time to end.
CloseObserve ==
    /\ closer = "kill" /\ closer' = "wait"
    /\ exited' = (exited \/ Dead)
    /\ UNCHANGED <<released, monitor, abort, process, channel, pipe, calls>>

\* Whatever the tasks have done, a process that is dead is released.
CloseRelease ==
    /\ closer = "wait" /\ closer' = "done"
    /\ IF Dead
       THEN Release /\ monitor' = "done"
       ELSE UNCHANGED <<released, shutting, conn, monitor>>
    /\ UNCHANGED <<exited, abort, process, lock, busy, pipe, calls>>
-----------------------------------------------------------------------------
(* A call: the thread of the caller.                                       *)

\* The caller of c is told o, and its thread ends.
Answer(c, o) ==
    /\ told' = [told EXCEPT ![c] = o]
    /\ caller' = [caller EXCEPT ![c] = "done"]

\* get() knows no such worker, or it has been seen to exit.
Gone == exited \/ released \/ Closing

\* A call enters, maybe late, and goes on to input_lock.acquire(timeout=...).
Call(c) ==
    /\ caller[c] = "idle" /\ proc # "none"
    /\ \/ Answer(c, "not_submitted")
       \/ ~Gone /\ caller' = [caller EXCEPT ![c] = "locking"] /\ UNCHANGED told
    /\ UNCHANGED <<exchange, got, process, loop, channel, pipe>>

\* The lock is not to be had before the deadline.
Busy(c) ==
    /\ caller[c] = "locking"
    /\ Answer(c, "not_submitted")
    /\ UNCHANGED <<exchange, got, process, loop, channel, pipe>>

\* Under the lock it looks again: the worker may have gone meanwhile.
Acquire(c) ==
    /\ caller[c] = "locking" /\ lock = "free"
    /\ IF Gone
       THEN Answer(c, "not_submitted") /\ UNCHANGED lock
       ELSE lock' = c /\ caller' = [caller EXCEPT ![c] = "locked"] /\ UNCHANGED told
    /\ UNCHANGED <<busy, shutting, conn, exchange, got, process, loop, pipe>>

\* A bug: the channel is claimed without asking whether it is closing.
ClaimClosing(c) ==
    /\ caller[c] = "locked"
    /\ busy' = TRUE
    /\ exchange' = [exchange EXCEPT ![c] = "start"]
    /\ caller' = [caller EXCEPT ![c] = "waiting"]
    /\ UNCHANGED <<lock, shutting, conn, got, told, process, loop, pipe>>

\* Under channel_lock: claim the channel and start the exchange, unless the
\* worker has been released since.
Claim(c) ==
    /\ caller[c] = "locked"
    /\ IF shutting
       THEN lock' = "free" /\ Answer(c, "not_submitted") /\ UNCHANGED <<busy, exchange>>
       ELSE /\ busy' = TRUE
            /\ exchange' = [exchange EXCEPT ![c] = "start"]
            /\ caller' = [caller EXCEPT ![c] = "waiting"]
            /\ UNCHANGED <<lock, told>>
    /\ UNCHANGED <<shutting, conn, got, process, loop, pipe>>

\* state["attempted"]
Attempted(c) == exchange[c] \in {"send", "poll"} \/ got[c] # "none"

\* A bug: the exchange is waited for without a deadline.
ReturnEnded(c) ==
    /\ caller[c] = "waiting" /\ exchange[c] = "ended"
    /\ Answer(c, IF got[c] \in Calls THEN got[c]
                 ELSE IF Attempted(c) THEN "uncertain" ELSE "not_submitted")
    /\ UNCHANGED <<exchange, got, process, loop, channel, pipe>>

\* done.wait() ends, or times out: then, under state_lock, the exchange is
\* expired by the caller's going.
Return(c) ==
    /\ caller[c] = "waiting"
    /\ Answer(c, IF exchange[c] = "ended" /\ got[c] \in Calls THEN got[c]
                 ELSE IF Attempted(c) THEN "uncertain" ELSE "not_submitted")
    /\ UNCHANGED <<exchange, got, process, loop, channel, pipe>>

Expired(c) == caller[c] = "done"
-----------------------------------------------------------------------------
(* A call: the thread of its exchange.                                     *)

\* The exchange has got r and is about to give the channel back.
Got(c, r) ==
    /\ got' = [got EXCEPT ![c] = r]
    /\ exchange' = [exchange EXCEPT ![c] = "finally"]

\* A bug: the exchange does not ask whether its caller is still there.
BeginExpired(c) ==
    /\ exchange[c] = "start"
    /\ \/ Got(c, "none")
       \/ /\ ~shutting
          /\ exchange' = [exchange EXCEPT ![c] = "send"] /\ UNCHANGED got
    /\ UNCHANGED <<caller, told, process, loop, channel, pipe>>

\* Under state_lock: too late, expired or shut down; or from here on the
\* request may be out.
Begin(c) ==
    /\ exchange[c] = "start"
    /\ \/ Got(c, "none")
       \/ /\ ~Expired(c) /\ ~shutting
          /\ exchange' = [exchange EXCEPT ![c] = "send"] /\ UNCHANGED got
    /\ UNCHANGED <<caller, told, process, loop, channel, pipe>>

Send(c) ==
    /\ exchange[c] = "send" /\ ~shutting
    /\ requests' = Append(requests, c)
    /\ exchange' = [exchange EXCEPT ![c] = "poll"]
    /\ UNCHANGED <<replies, handling, executed, caller, got, told, process, loop, channel>>

Receive(c) ==
    /\ exchange[c] = "poll" /\ replies # <<>>
    /\ Got(c, Head(replies)) /\ replies' = Tail(replies)
    /\ UNCHANGED <<requests, handling, executed, caller, told, process, loop, channel>>

\* The end of the stream: the socket is shut down.
Wake(c) ==
    /\ exchange[c] \in {"send", "poll"} /\ shutting
    /\ Got(c, "error")
    /\ UNCHANGED <<caller, told, process, loop, channel, pipe>>

\* The worker is gone: nobody has the other end of an empty pipe, or it is seen to have
\* exited after a poll that found nothing, even if a reply has come in since.
PeerGone(c) ==
    /\ \/ Dead /\ replies = <<>> /\ exchange[c] \in {"send", "poll"}
       \/ exited /\ exchange[c] = "poll"
    /\ Got(c, "error")
    /\ UNCHANGED <<caller, told, process, loop, channel, pipe>>

\* A bug: the last user of a channel that is closing leaves it open.
GiveBackOpen(c) ==
    /\ exchange[c] = "finally"
    /\ busy' = FALSE
    /\ exchange' = [exchange EXCEPT ![c] = "ended"]
    /\ lock' = "free"
    /\ UNCHANGED <<shutting, conn, caller, got, told, process, loop, pipe>>

\* Under channel_lock: give the channel back, and close it if it is closing;
\* then wake the caller and release input_lock.
GiveBack(c) ==
    /\ exchange[c] = "finally"
    /\ busy' = FALSE
    /\ conn' = IF shutting THEN "closed" ELSE conn
    /\ exchange' = [exchange EXCEPT ![c] = "ended"]
    /\ lock' = "free"
    /\ UNCHANGED <<shutting, caller, got, told, process, loop, pipe>>
-----------------------------------------------------------------------------
Process == Ready \/ Exit \/ WorkerTakes \/ WorkerReplies

Registry == Launch \/ StartupTimeout \/ StartupExit \/ Escalate \/ ObserveExit \/ Finish
              \/ CloseBegin \/ CloseKill \/ CloseObserve \/ CloseRelease

Caller(c) == Busy(c) \/ Acquire(c) \/ Claim(c) \/ Return(c)

Exchange(c) == Begin(c) \/ Receive(c) \/ Wake(c) \/ GiveBack(c)

Next ==
    \/ Process \/ Registry
    \/ \E c \in Calls : Call(c) \/ Caller(c)
    \/ \E c \in Calls : Exchange(c) \/ Send(c) \/ PeerGone(c)

Spec == Init /\ [][Next]_vars

\* Threads and coroutines are scheduled and deadlines pass; a process exits
\* once it is killed.  Nobody has to launch, call or close, and a worker has to
\* take nothing and answer nothing.
Fairness ==
    /\ WF_vars(killed /\ Exit)
    /\ WF_vars(Escalate) /\ WF_vars(ObserveExit) /\ WF_vars(Finish)
    /\ WF_vars(CloseKill) /\ WF_vars(CloseObserve) /\ WF_vars(CloseRelease)
    /\ \A c \in Calls : WF_vars(Caller(c)) /\ WF_vars(Exchange(c))

FairSpec == Spec /\ Fairness
-----------------------------------------------------------------------------
(* Properties.                                                             *)

\* Every variable keeps its type.
TypeOK ==
    /\ proc \in {"none", "starting", "running", "failed", "dead"} /\ killed \in BOOLEAN
    /\ exited \in BOOLEAN /\ released \in BOOLEAN
    /\ monitor \in {"none", "watch", "finish", "done"}
    /\ abort \in {"none", "grace", "done"}
    /\ closer \in {"idle", "escalate", "kill", "wait", "done"}
    /\ lock \in Calls \cup {"free"} /\ busy \in BOOLEAN /\ shutting \in BOOLEAN
    /\ conn \in {"open", "closed"}
    /\ requests \in Seq(Calls) /\ replies \in Seq(Calls)
    /\ handling \in Calls \cup {"none"} /\ executed \subseteq Calls
    /\ caller \in [Calls -> {"idle", "locking", "locked", "waiting", "done"}]
    /\ exchange \in [Calls -> {"none", "start", "send", "poll", "finally", "ended"}]
    /\ got \in [Calls -> Calls \cup {"none", "error"}]
    /\ told \in [Calls -> Calls \cup {"none", "not_submitted", "uncertain"}]

\* The descriptor is never closed, and so never reused, under a thread that is
\* in a system call on it, or has the channel claimed and is on its way there.
NotClosedInUse ==
    conn = "closed" => \A c \in Calls : exchange[c] \notin {"start", "send", "poll", "finally"}

\* A worker that is dead is released, and its connection closed, whoever was
\* in the middle of a call, and close() or not.
DeadIsReleased == Dead ~> (released /\ conn = "closed")

\* Whatever the worker does, every call is answered.
CallsReturn == \A c \in Calls : (caller[c] = "locking") ~> (told[c] # "none")

\* Shutdown, or an abort at the startup deadline, ends the process, even one
\* that heeds neither stop nor terminate.
StopIsEnforced == (Closing \/ abort # "none") ~> ~Alive

\* Callers are told the truth: see InputCalls.
Promise == INSTANCE InputCalls

CallsKept == Promise!Spec
=============================================================================
