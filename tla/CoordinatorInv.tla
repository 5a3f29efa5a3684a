--------------------------- MODULE CoordinatorInv ---------------------------
(***************************************************************************)
(* Why the coordinator is correct: what holds between the store and the    *)
(* place the execution thread has reached, at every point at which a host  *)
(* thread may come between.  TLC checks the conjunction on the instances   *)
(* of MCCoordinator, CoordinatorProofs proves it of every instance.        *)
(***************************************************************************)
EXTENDS Coordinator

\* Locations at which a boundary has been selected, and those of them at
\* which it is being served.
Selecting == {"gate", "wait", "advance"}
Serving == {"boundary", "settle", "react"}

\* The run is neither faulted, nor closed, nor still resetting.
Open == fault = None /\ ~closed /\ sealed >= 0

\* A partition is between the seal and the last record.
FrontiersBracketed ==
    \A p \in Partitions :
        AtOrBefore(frontier[p], cut) /\ sealed <= frontier[p].ns

\* The locals of the execution thread agree with its place and the store.
ThreadOK ==
    /\ pc # "idle" => fault = None
    /\ stale => pc \in Selecting \cup {"react"}
    /\ partial => pc \in {"advance"} \cup Serving /\ Streams # {}
    /\ pc = "new" => cut = At(0, 0) /\ sealed = -1
    /\ sealed < 0 => /\ pending = {} /\ ~partial /\ to = 0
                     /\ pc \in {"new", "settle", "react", "idle"}
    /\ pc \in Selecting \cup Serving => to > sealed /\ to >= cut.ns
    /\ pc \in Serving => to = cut.ns

\* Who has reached the boundary.  Offline, partitions move as one.
EveryoneServed ==
    /\ pc = "advance" => IF partial THEN Safe(to) \cap Behind(to) # {}
                                    ELSE Safe(to) = Partitions
    /\ pc \in Serving /\ ~partial =>
          Safe(to) = Partitions /\ \A p \in Partitions : frontier[p].ns = to
    /\ Streams = {} /\ fault = None => \A p \in Partitions : frontier[p].ns = cut.ns

\* The limit of the call is the recorded one until it is sealed.
LimitOK ==
    /\ sealed < 0 => runTarget = None
    /\ Open =>
            /\ pc \in Selecting \cup Serving => runTarget = limit /\ to <= limit
            /\ pc = "plan" => runTarget = IF sealed < limit THEN limit ELSE None

\* No work is due before the last record or a selected boundary.
WorkOpen ==
    \A w \in work : cut.ns <= w.at.ns /\ (pc \in Selecting => to <= w.at.ns)

CommandWork == {w \in work : w.kind = "command"}

\* No command reservation is overtaken by a record, a selection or a seal.
ReservationsAhead ==
    \A d \in CommandReservations :
        /\ cut.ns <= d.boundary /\ sealed < d.boundary
        /\ pc \in Selecting /\ ~stale => to <= d.boundary
        /\ pc \in {"settle", "react"} /\ ~partial => to < d.boundary

\* A command has one reservation, then one work item.
CommandsOnce ==
    /\ \A d \in CommandReservations : act[d.cmd] = "pending"
    /\ \A d, e \in CommandReservations : d.cmd = e.cmd => d = e
    /\ \A w \in CommandWork : w.cmd \in Commands /\ act[w.cmd] = "queued"
    /\ \A v, w \in CommandWork : v.cmd = w.cmd => v = w

\* The layers in which the proofs establish it.
Served ==
    /\ ClosedPrefix
    /\ CohortsTogether
    /\ FrontiersBracketed
    /\ ThreadOK
    /\ EveryoneServed

Limited == LimitCoversOpenInstant /\ LimitOK

IInv == TypeOK /\ Served /\ Limited /\ WorkOpen /\ CommandsOnce /\ ReservationsAhead
=============================================================================
