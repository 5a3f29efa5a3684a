-------------------------- MODULE CoordinatorProofs --------------------------
(***************************************************************************)
(* Proofs about the coordinator, for every set of partitions, streams,     *)
(* commands, cohorts, routes, grids, lags and bounds.  Type correctness,   *)
(* with the order of instants; then the invariant, in the layers of        *)
(* CoordinatorInv: what has been served, run limits, queued work,          *)
(* reservations, each inductive given those before it; then what the       *)
(* coordinator promises to sources and hosts: admitted commands are        *)
(* published at their boundary and never sealed over, its grants are       *)
(* legal, its seals are common, time moves forward, and the whole run      *)
(* implements Timeline.                                                    *)
(***************************************************************************)
EXTENDS CoordinatorInv, TLAPS
-----------------------------------------------------------------------------
(* Types, and the order of instants.                                       *)

\* Rounding up to a native grid never moves work into the past.
LEMMA LatchForward ==
    ASSUME NEW step \in Nat \ {0}, NEW n \in Nat
    PROVE  Latch(step, n) \in Nat /\ Latch(step, n) >= n
<1> DEFINE k == n + step - 1
<1>1. k \in Nat /\ k \div step \in Nat
  OBVIOUS
<1>2. k = step * (k \div step) + (k % step) /\ k % step \in 0 .. (step - 1)
  OBVIOUS
<1>3. step * (k \div step) = (k \div step) * step
  BY <1>1
<1>4. (k \div step) * step \in Nat
  BY <1>1
<1>. QED
  BY <1>1, <1>2, <1>3, <1>4 DEF Latch

\* Instants are totally ordered.
LEMMA InstantOrder ==
    ASSUME NEW a \in Instant, NEW b \in Instant, NEW c \in Instant
    PROVE  /\ AtOrBefore(a, a)
           /\ AtOrBefore(a, b) /\ AtOrBefore(b, c) => AtOrBefore(a, c)
           /\ Before(a, b) => AtOrBefore(a, b)
           /\ AtOrBefore(a, b) /\ Before(b, c) => Before(a, c)
           /\ AtOrBefore(a, b) => a.ns <= b.ns
           /\ AtOrBefore(a, b) \/ Before(b, a)
BY DEF Instant, AtOrBefore, Before

\* Work that becomes available at an instant is eligible strictly after it:
\* same-time work is always a later microstep, never the current one.
LEMMA EligibleLater ==
    ASSUME NEW step \in Nat \ {0}, NEW lag \in Nat,
           NEW requested \in Instant, NEW available \in Instant
    PROVE  /\ Eligible(step, requested, available, lag) \in Instant
           /\ Before(available, Eligible(step, requested, available, lag))
<1> DEFINE n == Max2(requested.ns, available.ns) + lag
           m == IF n = available.ns
                THEN Max2(requested.microstep, available.microstep + 1)
                ELSE 0
           latched == Latch(step, n)
<1>1. requested.ns \in Nat /\ requested.microstep \in Nat
      /\ available.ns \in Nat /\ available.microstep \in Nat
  BY DEF Instant
<1>2. n \in Nat /\ n >= available.ns
  BY <1>1 DEF Max2
<1>3. m \in Nat /\ (n = available.ns => m > available.microstep)
  BY <1>1, <1>2 DEF Max2
<1>4. latched \in Nat /\ latched >= n
  BY <1>2, LatchForward
<1>5. Eligible(step, requested, available, lag)
        = [ns |-> latched, microstep |-> IF latched = n THEN m ELSE 0]
  BY DEF Eligible, At
<1> HIDE DEF n, m, latched
<1>6. Eligible(step, requested, available, lag) \in Instant
  BY <1>3, <1>4, <1>5 DEF Instant
<1>. QED
  BY <1>1, <1>2, <1>3, <1>4, <1>5, <1>6 DEF Before

LEMMA AtInstant ==
    ASSUME NEW n \in Nat, NEW m \in Nat
    PROVE  At(n, m) \in Instant /\ At(n, m).ns = n /\ At(n, m).microstep = m
BY DEF At, Instant

\* A host operation leaves the execution thread where it is.
LEMMA MoveCutType ==
    ASSUME TypeOK, MoveCut
    PROVE  /\ pc' = pc /\ to' = to /\ limit' = limit /\ partial' = partial
           /\ outcome' = outcome /\ stale' \in BOOLEAN
BY DEF MoveCut, TypeOK

\* The work that a boundary step and a wave queue is well formed.
LEMMA QueuedType ==
    ASSUME TypeOK, NEW i \in Instant
    PROVE  /\ \A p \in Partitions : Note(p, i) \in WorkItem
           /\ \A d \in pending : Delivery(d, i) \in WorkItem
           /\ \A t \in timers : Alarm(t, i) \in WorkItem
<1>1. ASSUME NEW p \in Partitions PROVE Note(p, i) \in WorkItem
  <2>1. Eligible(Grid[p], i, i, Lag[p]) \in Instant
    BY EligibleLater, CoordinatorAssumption
  <2>. QED
    BY <2>1 DEF Note, WorkItem
<1>2. ASSUME NEW d \in pending PROVE Delivery(d, i) \in WorkItem
  <2>1. d \in Reservation /\ d.at \in Instant /\ d.cmd \in Commands
        /\ d.kind \in {"command", "cancel"}
    BY DEF TypeOK, Reservation
  <2>2. Target[d.cmd] \in Partitions
    BY <2>1, CoordinatorAssumption
  <2>3. Eligible(Grid[Target[d.cmd]], IF d.kind = "cancel" THEN i ELSE d.at, i,
                 Lag[Target[d.cmd]]) \in Instant
    BY <2>1, <2>2, EligibleLater, CoordinatorAssumption
  <2>. QED
    BY <2>1, <2>2, <2>3 DEF Delivery, WorkItem
<1>3. ASSUME NEW t \in timers PROVE Alarm(t, i) \in WorkItem
  <2>1. t.owner \in Partitions /\ t.at \in Instant
    BY DEF TypeOK, Timer
  <2>2. Eligible(Grid[t.owner], t.at, i, 0) \in Instant
    BY <2>1, EligibleLater, CoordinatorAssumption
  <2>. QED
    BY <2>1, <2>2 DEF Alarm, WorkItem
<1>. QED
  BY <1>1, <1>2, <1>3

LEMMA BoundaryControlType ==
    ASSUME TypeOK, NEW i \in Instant, BoundaryControl(i)
    PROVE  /\ cut' \in Instant /\ work' \subseteq WorkItem
           /\ timers' \subseteq Timer /\ pending' \subseteq Reservation
           /\ act' \in [Commands -> ActionStatus]
           /\ UNCHANGED <<sealed, runTarget, frontier, horizon, watermark, fault>>
<1>1. work' \subseteq WorkItem
  BY QueuedType DEF BoundaryControl, Publishable, TypeOK
<1>2. act' \in [Commands -> ActionStatus]
  BY DEF BoundaryControl, TypeOK, ActionStatus
<1>. QED
  BY <1>1, <1>2 DEF BoundaryControl, TypeOK

LEMMA InvokeType ==
    ASSUME TypeOK, NEW sel \in SUBSET Partitions, NEW i \in Instant,
           NEW taken, NEW speakers, Invoke(sel, i, taken, speakers)
    PROVE  /\ cut' \in Instant /\ frontier' \in [Partitions -> Instant]
           /\ horizon' \in [Partitions -> Nat \cup {None}]
           /\ work' \subseteq WorkItem /\ timers' \subseteq Timer
           /\ act' \in [Commands -> ActionStatus]
           /\ UNCHANGED <<sealed, runTarget, watermark, pending, fault>>
<1>1. cut' \in Instant /\ frontier' \in [Partitions -> Instant]
  BY DEF Invoke, TypeOK
<1>2. horizon' \in [Partitions -> Nat \cup {None}]
  <2>1. HorizonsAt(i.ns) \subseteq Nat \cup {None}
    BY CoordinatorAssumption DEF HorizonsAt, Instant
  <2>2. PICK h \in [sel -> HorizonsAt(i.ns)] :
          horizon' = [p \in Partitions |-> IF p \in sel THEN h[p] ELSE horizon[p]]
    BY DEF Invoke
  <2>3. \A p \in sel : h[p] \in Nat \cup {None}
    BY <2>1, <2>2
  <2>. QED
    BY <2>2, <2>3 DEF TypeOK
<1>3. work' \subseteq WorkItem
  <2>1. PICK sent \in SUBSET {r \in Routes : r[1] \in speakers} :
          work' = (work \ taken) \cup {Note(r[2], i) : r \in sent}
    BY DEF Invoke
  <2>2. \A r \in sent : r[2] \in Partitions
    BY <2>1, CoordinatorAssumption
  <2>. QED
    BY <2>1, <2>2, QueuedType DEF TypeOK
<1>4. timers' \subseteq Timer
  <2> DEFINE owners == sel \cap TimerOwners
  <2>1. DuesAfter(i) \subseteq Instant
    BY DEF DuesAfter, At, Instant
  <2>2. PICK kept \in SUBSET {t \in timers : t.owner \in owners} :
        \E setters \in SUBSET (owners \ {t.owner : t \in kept}) :
        \E due \in [setters -> DuesAfter(i)] :
           timers' = {t \in timers : t.owner \notin owners} \cup kept
                     \cup {[owner |-> p, at |-> due[p]] : p \in setters}
    BY DEF Invoke
  <2>3. PICK setters \in SUBSET (owners \ {t.owner : t \in kept}) :
        \E due \in [setters -> DuesAfter(i)] :
           timers' = {t \in timers : t.owner \notin owners} \cup kept
                     \cup {[owner |-> p, at |-> due[p]] : p \in setters}
    BY <2>2
  <2>4. PICK due \in [setters -> DuesAfter(i)] :
           timers' = {t \in timers : t.owner \notin owners} \cup kept
                     \cup {[owner |-> p, at |-> due[p]] : p \in setters}
    BY <2>3
  <2>5. \A p \in setters : due[p] \in Instant /\ p \in Partitions
    BY <2>1, <2>3, <2>4
  <2>6. \A p \in setters : [owner |-> p, at |-> due[p]] \in Timer
    BY <2>5 DEF Timer
  <2>. QED
    BY <2>2, <2>4, <2>6 DEF TypeOK
<1>5. act' \in [Commands -> ActionStatus]
  BY DEF Invoke, TypeOK, ActionStatus
<1>. QED
  BY <1>1, <1>2, <1>3, <1>4, <1>5 DEF Invoke

\* The instants of advance and reactive waves: each a later record.
LEMMA GrantInstantType ==
    ASSUME TypeOK
    PROVE  GrantInstant \in Instant /\ GrantInstant.ns = to
BY AtInstant DEF GrantInstant, TypeOK, Instant, At

LEMMA SettleInstantsType ==
    ASSUME TypeOK, NEW i \in SettleInstants
    PROVE  i \in Instant /\ i.ns = to /\ i.microstep > cut.microstep
<1>1. PICK m \in NextSteps : i = At(to, Max2(cut.microstep + 1, m))
  BY DEF SettleInstants
<1>2. m \in Nat
  <2>1. \A x \in DueWork \cup DueTimers : x.at \in Instant
    BY DEF DueWork, DueTimers, TypeOK, WorkItem, Timer
  <2>. QED
    BY <1>1, <2>1 DEF NextSteps, Heads, Instant
<1>3. cut.microstep \in Nat /\ to \in Nat
  BY DEF TypeOK, Instant
<1>. QED
  BY <1>1, <1>2, <1>3 DEF At, Instant, Max2

LEMMA ReadyPartitionsType ==
    ASSUME TypeOK, NEW i
    PROVE  ReadyPartitions(i) \subseteq Partitions
<1>1. \A w \in work : w.recipient \in Partitions
  BY DEF TypeOK, WorkItem
<1>2. \A K \in Cohorts : K \subseteq Partitions
  BY CoordinatorAssumption
<1>. QED
  BY <1>1, <1>2, CoordinatorAssumption DEF ReadyPartitions

LEMMA FaultType ==
    ASSUME TypeOK, NEW code \in FaultCodes, Fault(code)
    PROVE  TypeOK'
BY DEF TypeOK, Fault, Leave, closure, Locations

LEMMA TypeInit == Init => TypeOK
<1>1. At(0, 0) \in Instant
  BY AtInstant
<1>2. InitialMark \in [Streams -> Nat]
  BY CoordinatorAssumption
<1>3. [c \in Commands |-> "new"] \in [Commands -> ActionStatus]
  BY DEF ActionStatus
<1>4. "new" \in Locations
  BY DEF Locations
<1>5. ASSUME Init
      PROVE  /\ cut \in Instant /\ frontier \in [Partitions -> Instant]
             /\ horizon \in [Partitions -> Nat \cup {None}]
             /\ watermark \in [Streams -> Nat] /\ act \in [Commands -> ActionStatus]
  BY <1>1, <1>2, <1>3, <1>5 DEF Init
<1>6. ASSUME Init
      PROVE  /\ sealed \in Nat \cup {-1} /\ runTarget \in Nat \cup {None}
             /\ work \subseteq WorkItem /\ timers \subseteq Timer
             /\ pending \subseteq Reservation
             /\ pc \in Locations /\ to \in Nat /\ limit \in Nat
  BY <1>4, <1>6 DEF Init
<1>7. ASSUME Init
      PROVE  /\ closed \in BOOLEAN /\ stopped \in BOOLEAN /\ journalOpen \in BOOLEAN
             /\ partial \in BOOLEAN /\ stale \in BOOLEAN
  BY <1>7 DEF Init
<1>. QED
  BY <1>5, <1>6, <1>7 DEF Init, TypeOK

\* Execution steps that leave the store alone.
LEMMA TypeThread ==
    ASSUME TypeOK,
           \/ Return \/ Plan \/ GateProceed \/ Replan \/ WaitTimeout \/ Yield
           \/ AdvanceNobody \/ SettleWork \/ ReactReplan \/ PartialDone
           \/ (\E n \in 1 .. MaxNs : Resume(n))
    PROVE  TypeOK'
<1>1. CASE Return
  BY <1>1 DEF TypeOK, Return, Leave, store, closure, Locations
<1>2. CASE Plan
  <2>1. Boundaries \subseteq Nat
    BY DEF Boundaries, TypeOK, WorkItem, Timer, Reservation, Instant
  <2>2. to' \in Nat
    BY <1>2, <2>1 DEF Plan, Max2, TypeOK, Instant
  <2>. QED
    BY <1>2, <2>2 DEF TypeOK, Plan, store, closure, Locations
<1>3. CASE GateProceed
  BY <1>3 DEF TypeOK, GateProceed, Serve, ServesPartially, Goto, store, closure,
              Locations
<1>4. CASE Replan
  BY <1>4 DEF TypeOK, Replan, GotoPlan, store, closure, Locations
<1>5. CASE WaitTimeout
  BY <1>5 DEF TypeOK, WaitTimeout, Leave, store, closure, Locations
<1>6. CASE Yield
  BY <1>6 DEF TypeOK, Yield, Leave, store, closure, Locations
<1>7. CASE AdvanceNobody
  BY <1>7 DEF TypeOK, AdvanceNobody, Goto, store, closure, Locations
<1>8. CASE SettleWork
  BY <1>8 DEF TypeOK, SettleWork, Goto, store, closure, Locations
<1>9. CASE ReactReplan
  <2>1. pc' \in Locations /\ stale' \in BOOLEAN
    BY <1>9 DEF ReactReplan, Goto, Locations
  <2>. QED
    BY <1>9, <2>1 DEF TypeOK, ReactReplan, Goto, store, closure
<1>10. CASE PartialDone
  <2>1. pc' \in Locations /\ partial' \in BOOLEAN
    BY <1>10 DEF PartialDone, Goto, Locations
  <2>. QED
    BY <1>10, <2>1 DEF TypeOK, PartialDone, Goto, store, closure
<1>11. ASSUME NEW n \in 1 .. MaxNs, Resume(n) PROVE TypeOK'
  BY <1>11, CoordinatorAssumption DEF TypeOK, Resume, RunUntil, closure, Locations
<1>. QED
  BY <1>1, <1>2, <1>3, <1>4, <1>5, <1>6, <1>7, <1>8, <1>9, <1>10, <1>11

\* Execution steps that publish a record.
LEMMA TypeRecord ==
    ASSUME TypeOK,
           Start \/ Advance \/ React \/ Boundary \/ SettleTimers \/ Seal
    PROVE  TypeOK'
<1>1. CASE Start
  <2>1. At(0, 0) \in Instant
    BY AtInstant
  <2>2. Invoke(Partitions, At(0, 0), {}, Partitions)
    BY <1>1 DEF Start
  <2>3. /\ cut' \in Instant /\ frontier' \in [Partitions -> Instant]
        /\ horizon' \in [Partitions -> Nat \cup {None}]
        /\ work' \subseteq WorkItem /\ timers' \subseteq Timer
        /\ act' \in [Commands -> ActionStatus]
        /\ UNCHANGED <<sealed, runTarget, watermark, pending, fault>>
    BY <2>1, <2>2, InvokeType
  <2>. QED
    BY <1>1, <2>3 DEF TypeOK, Start, Goto, closure, Locations
<1>2. CASE Advance
  <2>1. Selected \in SUBSET Partitions
    BY DEF Selected, Behind, Safe
  <2>2. Invoke(Selected, GrantInstant, {}, Speakers(Selected))
    BY <1>2 DEF Advance
  <2>3. /\ cut' \in Instant /\ frontier' \in [Partitions -> Instant]
        /\ horizon' \in [Partitions -> Nat \cup {None}]
        /\ work' \subseteq WorkItem /\ timers' \subseteq Timer
        /\ act' \in [Commands -> ActionStatus]
        /\ UNCHANGED <<sealed, runTarget, watermark, pending, fault>>
    BY <2>1, <2>2, GrantInstantType, InvokeType
  <2>. QED
    BY <1>2, <2>3 DEF TypeOK, Advance, Goto, closure, Locations
<1>3. CASE React
  <2>1. PICK i \in SettleInstants :
          Invoke(ReadyPartitions(i), i, Taken(ReadyPartitions(i), i), ReadyPartitions(i))
    BY <1>3 DEF React
  <2>2. i \in Instant /\ ReadyPartitions(i) \in SUBSET Partitions
    BY SettleInstantsType, ReadyPartitionsType
  <2>3. /\ cut' \in Instant /\ frontier' \in [Partitions -> Instant]
        /\ horizon' \in [Partitions -> Nat \cup {None}]
        /\ work' \subseteq WorkItem /\ timers' \subseteq Timer
        /\ act' \in [Commands -> ActionStatus]
        /\ UNCHANGED <<sealed, runTarget, watermark, pending, fault>>
    BY <2>1, <2>2, InvokeType
  <2>. QED
    BY <1>3, <2>3 DEF TypeOK, React, Goto, closure, Locations
<1>4. CASE Boundary
  <2>1. CASE UNCHANGED store
    BY <1>4, <2>1 DEF TypeOK, Boundary, Goto, store, closure, Locations
  <2>2. CASE BoundaryControl(cut)
    BY <1>4, <2>2, BoundaryControlType DEF TypeOK, Boundary, Goto, closure, Locations
  <2>. QED
    BY <1>4, <2>1, <2>2 DEF Boundary
<1>5. CASE SettleTimers
  <2>1. PICK i \in SettleInstants : BoundaryControl(i)
    BY <1>5 DEF SettleTimers
  <2>. QED
    BY <1>5, <2>1, SettleInstantsType, BoundaryControlType
       DEF TypeOK, SettleTimers, closure, thread
<1>6. CASE Seal
  <2>1. /\ pc' \in Locations /\ to' \in Nat /\ limit' \in Nat
        /\ partial' \in BOOLEAN /\ stale' \in BOOLEAN
        /\ outcome' \in {"running", "returned", "yielded", "timeout", "raised"}
    <3>1. CASE Leave("returned")
      BY <3>1 DEF Leave, Locations
    <3>2. CASE GotoPlan
      BY <3>2 DEF TypeOK, GotoPlan, Locations
    <3>. QED
      BY <1>6, <3>1, <3>2 DEF Seal
  <2>2. sealed' \in Nat /\ runTarget' \in Nat \cup {None}
    BY <1>6 DEF TypeOK, Seal
  <2>. QED
    BY <1>6, <2>1, <2>2 DEF TypeOK, Seal, closure
<1>. QED
  BY <1>1, <1>2, <1>3, <1>4, <1>5, <1>6

\* Execution steps that stop the run with a fault.
LEMMA TypeFault ==
    ASSUME TypeOK,
           \/ PlanDeadlock \/ MeetClosed \/ AdvanceRefused \/ SettleLimit
           \/ SettleReentry \/ ReactRefused \/ SealStalled \/ EngineFault
           \/ JournalGone
    PROVE  TypeOK'
BY FaultType DEF PlanDeadlock, MeetClosed, AdvanceRefused, SettleLimit,
   SettleReentry, ReactRefused, SealStalled, EngineFault, JournalGone, FaultCodes

\* What a wave leaves behind when one of its engines fails.
LEMMA WaveFaultType ==
    ASSUME TypeOK, WaveFault
    PROVE  /\ TypeOK'
           /\ cut'.ns = to /\ work' \subseteq work /\ fault' = "ENGINE"
           /\ pc \in {"advance", "react"} /\ ~stale /\ Leave("raised")
           /\ UNCHANGED <<sealed, runTarget, frontier, horizon, watermark, timers,
                          pending, act, closure>>
           /\ pc = "advance" => cut' = GrantInstant
           /\ pc = "react" => cut' \in SettleInstants
<1>1. PICK i, taken :
        /\ Abandon(i, taken) /\ pc \in {"advance", "react"} /\ ~stale
        /\ pc = "advance" => i = GrantInstant
        /\ pc = "react" => i \in SettleInstants
  BY DEF WaveFault
<1>2. i \in Instant /\ i.ns = to
  BY <1>1, GrantInstantType, SettleInstantsType
<1>3. cut' = i /\ work' = work \ taken /\ fault' = "ENGINE" /\ Leave("raised")
      /\ UNCHANGED <<sealed, runTarget, frontier, horizon, watermark, timers,
                     pending, act, closure>>
  BY <1>1 DEF Abandon
<1>4. TypeOK'
  BY <1>2, <1>3 DEF TypeOK, Leave, closure, Locations, FaultCodes
<1>. QED
  BY <1>1, <1>2, <1>3, <1>4

LEMMA LiveBoundaryType ==
    ASSUME TypeOK, NEW s \in Streams, NEW mapped \in Nat
    PROVE  LiveBoundary(s, mapped) \in Nat /\ LiveBoundary(s, mapped) > cut.ns
BY DEF LiveBoundary, Max2, TypeOK, Instant

LEMMA TypeHost ==
    ASSUME TypeOK, Host
    PROVE  TypeOK'
<1>1. ASSUME NEW c \in Commands, NEW b \in 1 .. MaxNs, NEW a \in 1 .. MaxNs,
             Submit(c, b, a)
      PROVE  TypeOK'
  <2>1. [kind |-> "command", cmd |-> c, boundary |-> b, at |-> At(a, 0)] \in Reservation
    BY AtInstant, CoordinatorAssumption DEF Reservation
  <2>. QED
    BY <1>1, <2>1, MoveCutType
       DEF TypeOK, Submit, Reserve, closure, ActionStatus
<1>2. ASSUME NEW c \in Commands, NEW s \in Streams, NEW n \in 0 .. MaxNs,
             AdmitLive(c, s, n)
      PROVE  TypeOK'
  <2> DEFINE b == LiveBoundary(s, n)
  <2>1. b \in Nat
    BY LiveBoundaryType, CoordinatorAssumption
  <2>2. [kind |-> "command", cmd |-> c, boundary |-> b, at |-> At(b, 0)] \in Reservation
    BY <2>1, AtInstant DEF Reservation
  <2>. QED
    BY <1>2, <2>2, MoveCutType
       DEF TypeOK, AdmitLive, Reserve, closure, ActionStatus
<1>3. ASSUME NEW c \in Commands, NEW s \in Streams, NEW n \in 0 .. MaxNs,
             RejectLive(c, s, n)
      PROVE  TypeOK'
  BY <1>3, MoveCutType DEF TypeOK, RejectLive, RecordOnly, store, closure
<1>4. ASSUME NEW s \in Streams, NEW n \in 1 .. MaxNs, AdvanceWatermark(s, n)
      PROVE  TypeOK'
  BY <1>4, MoveCutType, CoordinatorAssumption DEF TypeOK, AdvanceWatermark, closure
<1>5. ASSUME NEW c \in Commands, Cancel(c)
      PROVE  TypeOK'
  <2>1. sealed + 1 \in Nat
    BY <1>5 DEF Cancel, HostGuard, TypeOK
  <2>2. [kind |-> "cancel", cmd |-> c, boundary |-> sealed + 1,
         at |-> At(sealed + 1, 0)] \in Reservation
    BY <2>1, AtInstant DEF Reservation
  <2>. QED
    BY <1>5, <2>2, MoveCutType DEF TypeOK, Cancel, Reserve, closure
<1>6. ASSUME NEW c \in Commands, CancelReject(c)
      PROVE  TypeOK'
  BY <1>6, MoveCutType DEF TypeOK, CancelReject, RecordOnly, store, closure
<1>7. CASE Close
  BY <1>7, MoveCutType DEF TypeOK, Close, thread
<1>8. CASE CloseJournal
  BY <1>8 DEF TypeOK, CloseJournal, store, thread
<1>. QED
  BY <1>1, <1>2, <1>3, <1>4, <1>5, <1>6, <1>7, <1>8 DEF Host

\* Every variable keeps its type, whatever the hosts and the engines do.
THEOREM TypeCorrect == Spec => []TypeOK
<1>1. TypeOK /\ [Next]_vars => TypeOK'
  <2>1. TypeOK /\ Next => TypeOK'
    BY TypeThread, TypeRecord, TypeFault, WaveFaultType, TypeHost DEF Next, Execution
  <2>2. TypeOK /\ UNCHANGED vars => TypeOK'
    BY DEF TypeOK, vars, store, closure, thread
  <2>. QED
    BY <2>1, <2>2
<1>. QED
  BY TypeInit, <1>1, PTL DEF Spec
-----------------------------------------------------------------------------
(* What has been served.                                                   *)

\* Closed prefixes only grow, so a closed influence stays closed.
LEMMA SafeKept ==
    ASSUME TypeOK, TypeOK', NEW n \in Nat,
           \A s \in Streams : watermark[s] <= watermark'[s]
    PROVE  Safe(n) \subseteq Safe(n)'
<1>1. \A s \in Streams : watermark[s] \in Nat /\ watermark'[s] \in Nat
  BY DEF TypeOK
<1>2. \A p \in Partitions : Deps[p] \subseteq Streams
  BY CoordinatorAssumption
<1>. QED
  BY <1>1, <1>2 DEF Safe

\* A wave of safe partitions that splits no cohort keeps what is served.
LEMMA WaveServed ==
    ASSUME TypeOK, TypeOK', Served,
           NEW sel \in SUBSET Partitions, NEW i \in Instant,
           NEW taken, NEW speakers, Invoke(sel, i, taken, speakers),
           AtOrBefore(cut, i), sel \subseteq Safe(i.ns),
           \A K \in Cohorts : \A p, q \in K : p \in sel => q \in sel
    PROVE  ClosedPrefix' /\ CohortsTogether' /\ FrontiersBracketed'
<1>1. /\ frontier' = [p \in Partitions |-> IF p \in sel THEN i ELSE frontier[p]]
      /\ cut' = i /\ sealed' = sealed /\ watermark' = watermark
  BY DEF Invoke
<1>2. \A p \in Partitions : Deps[p] \subseteq Streams
  BY CoordinatorAssumption
<1>3. ClosedPrefix'
  BY <1>1, <1>2 DEF ClosedPrefix, Served, Safe
<1>4. CohortsTogether'
  <2>1. \A K \in Cohorts : K \subseteq Partitions
    BY CoordinatorAssumption
  <2>. QED
    BY <1>1, <2>1 DEF CohortsTogether, Served
<1>5. FrontiersBracketed'
  <2>1. \A p \in Partitions : frontier[p] \in Instant
    BY DEF TypeOK
  <2>2. \A p \in Partitions : AtOrBefore(frontier[p], i) /\ sealed <= frontier[p].ns
    BY <2>1, InstantOrder DEF TypeOK, Served, FrontiersBracketed
  <2>3. AtOrBefore(i, i)
    BY InstantOrder
  <2>4. sealed \in Int /\ i.ns \in Nat
    BY DEF TypeOK, Instant
  <2>5. sealed <= i.ns
    <3>1. PICK p \in Partitions : TRUE
      BY CoordinatorAssumption
    <3>2. sealed <= frontier[p].ns /\ frontier[p].ns <= i.ns /\ frontier[p].ns \in Nat
      BY <2>1, <2>2, InstantOrder DEF Instant
    <3>. QED
      BY <2>4, <3>2
  <2>. QED
    BY <1>1, <2>2, <2>3, <2>5 DEF FrontiersBracketed
<1>. QED
  BY <1>3, <1>4, <1>5

\* Catching up splits no cohort: its members are as far, and as safe.
LEMMA SelectedCohorts ==
    ASSUME TypeOK, Served, pc = "advance"
    PROVE  /\ Selected \subseteq Safe(to) \cap Behind(to)
           /\ \A K \in Cohorts : \A p, q \in K : p \in Selected => q \in Selected
<1>1. Selected \subseteq Safe(to) \cap Behind(to)
  BY DEF Selected, Served, EveryoneServed, Behind
<1>2. Selected = Safe(to) \cap Behind(to)
  BY <1>1 DEF Selected
<1>3. \A K \in Cohorts : \A p, q \in K :
        /\ p \in Partitions /\ q \in Partitions
        /\ frontier[p] = frontier[q] /\ Deps[p] = Deps[q]
  BY CoordinatorAssumption, InfluenceAssumption DEF Served, CohortsTogether
<1>. QED
  BY <1>1, <1>2, <1>3 DEF Safe, Behind

\* A reactive wave is served to partitions that are at the boundary, and
\* whole cohorts of them.
LEMMA ReadyCohorts ==
    ASSUME TypeOK, Served, pc = "react", NEW i \in SettleInstants
    PROVE  /\ \A p \in ReadyPartitions(i) : p \in Safe(to) /\ frontier[p].ns = to
           /\ \A K \in Cohorts : \A p, q \in K :
                 p \in ReadyPartitions(i) => q \in ReadyPartitions(i)
<1> DEFINE queued == {w.recipient : w \in {v \in work : AtOrBefore(v.at, i)}}
           ready == IF Streams = {} THEN queued
                    ELSE {p \in queued \cap Safe(i.ns) : frontier[p].ns = i.ns}
           control == (ready \cap Lifecycle) \cup
               UNION {K \in Cohorts : ready \cap K # {} /\ K \cap Lifecycle # {}}
           chosen == IF control # {} THEN control ELSE ready
<1>1. ReadyPartitions(i) = chosen \cup UNION {K \in Cohorts : chosen \cap K # {}}
  BY DEF ReadyPartitions
<1>2. i.ns = to
  BY SettleInstantsType
<1>3. \A K \in Cohorts : \A p, q \in K :
        /\ p \in Partitions /\ q \in Partitions
        /\ frontier[p] = frontier[q] /\ Deps[p] = Deps[q]
  BY CoordinatorAssumption, InfluenceAssumption DEF Served, CohortsTogether
<1>4. \A p \in ready : p \in Safe(to) /\ frontier[p].ns = to
  <2>1. CASE Streams = {}
    <3>1. ~partial
      BY <2>1 DEF Served, ThreadOK
    <3>2. Safe(to) = Partitions /\ \A p \in Partitions : frontier[p].ns = to
      BY <3>1 DEF Served, EveryoneServed, Serving
    <3>3. queued \subseteq Partitions
      BY DEF TypeOK, WorkItem
    <3>. QED
      BY <2>1, <3>2, <3>3
  <2>2. CASE Streams # {}
    BY <1>2, <2>2
  <2>. QED
    BY <2>1, <2>2
<1>5. ASSUME NEW S, \A p \in S : p \in Safe(to) /\ frontier[p].ns = to,
             NEW K \in Cohorts, S \cap K # {}
      PROVE  \A q \in K : q \in Safe(to) /\ frontier[q].ns = to
  <2>1. PICK p \in K : p \in Safe(to) /\ frontier[p].ns = to
    BY <1>5
  <2>. QED
    BY <1>3, <2>1 DEF Safe
<1>6. \A p \in control : p \in Safe(to) /\ frontier[p].ns = to
  <2>1. ASSUME NEW p \in control PROVE p \in Safe(to) /\ frontier[p].ns = to
    <3>1. CASE p \in ready \cap Lifecycle
      BY <1>4, <3>1
    <3>2. CASE p \in UNION {K \in Cohorts : ready \cap K # {} /\ K \cap Lifecycle # {}}
      <4>1. PICK K \in Cohorts : ready \cap K # {} /\ p \in K
        BY <3>2
      <4> HIDE DEF ready
      <4>. QED
        BY <1>4, <1>5, <4>1
    <3>. QED
      BY <2>1, <3>1, <3>2
  <2>. QED
    BY <2>1
<1>7. \A p \in chosen : p \in Safe(to) /\ frontier[p].ns = to
  BY <1>4, <1>6
<1> HIDE DEF chosen
<1>8. ASSUME NEW p \in ReadyPartitions(i)
      PROVE  p \in Safe(to) /\ frontier[p].ns = to
  <2>1. CASE p \in chosen
    BY <1>7, <2>1
  <2>2. CASE p \in UNION {K \in Cohorts : chosen \cap K # {}}
    <3>1. PICK K \in Cohorts : chosen \cap K # {} /\ p \in K
      BY <2>2
    <3>. QED
      BY <1>5, <1>7, <3>1
  <2>. QED
    BY <1>1, <1>8, <2>1, <2>2
<1>9. ASSUME NEW K \in Cohorts, NEW p \in K, NEW q \in K, p \in ReadyPartitions(i)
      PROVE  q \in ReadyPartitions(i)
  <2>1. CASE p \in chosen
    BY <1>1, <2>1
  <2>2. CASE p \in UNION {L \in Cohorts : chosen \cap L # {}}
    <3>1. PICK L \in Cohorts : chosen \cap L # {} /\ p \in L
      BY <2>2
    <3>2. K = L
      BY <3>1, CoordinatorAssumption
    <3>. QED
      BY <1>1, <3>1, <3>2
  <2>. QED
    BY <1>1, <1>9, <2>1, <2>2
<1>. QED
  BY <1>8, <1>9

LEMMA StillServed ==
    ASSUME Served, frontier' = frontier, cut' = cut, sealed' = sealed,
           watermark' = watermark
    PROVE  ClosedPrefix' /\ CohortsTogether' /\ FrontiersBracketed'
BY DEF Served, ClosedPrefix, CohortsTogether, FrontiersBracketed

LEMMA ServedInit == Init => Served
<1> SUFFICES ASSUME Init PROVE Served
  OBVIOUS
<1>1. \A p \in Partitions : frontier[p] = At(0, 0) /\ cut = At(0, 0)
  BY DEF Init
<1>2. At(0, 0) \in Instant /\ At(0, 0).ns = 0
  BY AtInstant
<1>3. \A s \in Streams : watermark[s] \in Nat
  BY CoordinatorAssumption DEF Init
<1>4. \A p \in Partitions : Deps[p] \subseteq Streams
  BY CoordinatorAssumption
<1>5. ClosedPrefix
  BY <1>1, <1>2, <1>3, <1>4 DEF Init, ClosedPrefix
<1>6. CohortsTogether
  <2>1. \A K \in Cohorts : K \subseteq Partitions
    BY CoordinatorAssumption
  <2>. QED
    BY <1>1, <2>1 DEF CohortsTogether
<1>7. FrontiersBracketed
  BY <1>1, <1>2, InstantOrder DEF Init, FrontiersBracketed
<1>8. ThreadOK
  BY DEF Init, ThreadOK, Selecting, Serving
<1>9. EveryoneServed
  BY <1>1 DEF Init, EveryoneServed, Serving
<1>. QED
  BY <1>5, <1>6, <1>7, <1>8, <1>9 DEF Served

\* Execution steps that leave the store alone.
LEMMA ServedThread ==
    ASSUME TypeOK, TypeOK', Served,
           \/ Return \/ Plan \/ GateProceed \/ Replan \/ WaitTimeout \/ Yield
           \/ AdvanceNobody \/ SettleWork \/ ReactReplan \/ PartialDone
           \/ (\E n \in 1 .. MaxNs : Resume(n))
    PROVE  Served'
<1>1. frontier' = frontier /\ cut' = cut /\ sealed' = sealed /\ watermark' = watermark
      /\ pending' = pending /\ fault' = fault
  BY DEF Return, Plan, GateProceed, Replan, WaitTimeout, Yield, AdvanceNobody,
         SettleWork, ReactReplan, PartialDone, Resume, RunUntil, store
<1>2. ClosedPrefix' /\ CohortsTogether' /\ FrontiersBracketed'
  BY <1>1, StillServed
<1>3. \A n : Safe(n)' = Safe(n)
  BY <1>1 DEF Safe
<1>4. CASE Return \/ WaitTimeout \/ Yield
  <2>1. pc' = "idle" /\ stale' = FALSE /\ partial' = FALSE /\ to' = 0
    BY <1>4 DEF Return, WaitTimeout, Yield, Leave
  <2>2. ThreadOK'
    BY <1>1, <2>1 DEF Served, ThreadOK, Selecting, Serving
  <2>3. EveryoneServed'
    BY <1>1, <2>1 DEF Served, EveryoneServed, Serving
  <2>. QED
    BY <1>2, <2>2, <2>3 DEF Served
<1>5. CASE Plan
  <2>1. PICK b \in Boundaries : b > sealed /\ to' = Max2(b, cut.ns)
    BY <1>5 DEF Plan
  <2>2. b \in Nat /\ cut.ns \in Nat /\ sealed \in Int
    BY DEF Boundaries, TypeOK, WorkItem, Timer, Reservation, Instant
  <2>3. to' > sealed /\ to' >= cut.ns
    BY <2>1, <2>2 DEF Max2
  <2>4. pc = "plan" /\ pc' = "gate" /\ partial' = partial /\ stale' = stale
    BY <1>5 DEF Plan
  <2>5. ThreadOK'
    BY <1>1, <2>3, <2>4 DEF Served, ThreadOK, Selecting, Serving
  <2>6. EveryoneServed'
    BY <1>1, <2>4 DEF Served, EveryoneServed, Serving
  <2>. QED
    BY <1>2, <2>5, <2>6 DEF Served
<1>6. CASE GateProceed
  <2>1. /\ pc = "gate" /\ ~stale /\ to' = to /\ stale' = stale
        /\ partial' = ServesPartially
        /\ pc' = IF Safe(to) = Partitions \/ ServesPartially THEN "advance" ELSE "wait"
    BY <1>6 DEF GateProceed, Serve, Goto
  <2>2. ServesPartially => Streams # {}
    BY CoordinatorAssumption DEF ServesPartially, Safe
  <2>3. ThreadOK'
    BY <1>1, <2>1, <2>2 DEF Served, ThreadOK, Selecting, Serving
  <2>4. EveryoneServed'
    BY <1>1, <1>3, <2>1 DEF Served, EveryoneServed, Serving, ServesPartially, Behind
  <2>. QED
    BY <1>2, <2>3, <2>4 DEF Served
<1>7. CASE Replan
  <2>1. pc # "new" /\ pc # "idle" /\ pc \in Selecting /\ pc' = "plan" /\ to' = 0
        /\ partial' = FALSE /\ stale' = FALSE
    BY <1>7 DEF Replan, GotoPlan, Selecting
  <2>2. ThreadOK'
    BY <1>1, <2>1 DEF Served, ThreadOK, Selecting, Serving
  <2>3. EveryoneServed'
    BY <1>1, <2>1 DEF Served, EveryoneServed, Serving
  <2>. QED
    BY <1>2, <2>2, <2>3 DEF Served
<1>8. CASE AdvanceNobody
  <2>1. /\ pc = "advance" /\ ~stale /\ Selected = {} /\ pc' = "boundary"
        /\ to' = to /\ partial' = partial /\ stale' = stale
    BY <1>8 DEF AdvanceNobody, Goto
  <2>2. to > sealed /\ to >= cut.ns /\ to \in Nat /\ sealed >= 0
    BY <2>1 DEF Served, ThreadOK, Selecting, TypeOK
  <2>3. ~partial => \A p \in Partitions : frontier[p].ns = to
    <3>1. ASSUME ~partial, NEW p \in Partitions PROVE frontier[p].ns = to
      <4>1. frontier[p].ns >= to
        BY <2>1, <3>1 DEF Selected, Behind, TypeOK, Instant
      <4>2. frontier[p].ns <= cut.ns
        BY InstantOrder DEF Served, FrontiersBracketed, TypeOK
      <4>3. frontier[p].ns \in Nat /\ cut.ns \in Nat
        BY DEF TypeOK, Instant
      <4>. QED
        BY <2>2, <4>1, <4>2, <4>3
    <3>. QED
      BY <3>1
  <2>4. to = cut.ns
    <3>1. PICK p \in Partitions : frontier[p].ns >= to
      <4>1. CASE ~partial
        BY <2>2, <2>3, <4>1, CoordinatorAssumption
      <4>2. CASE partial
        BY <2>1, <4>2 DEF Selected, Served, EveryoneServed
      <4>. QED
        BY <4>1, <4>2
    <3>2. frontier[p].ns <= cut.ns
      BY InstantOrder DEF Served, FrontiersBracketed, TypeOK
    <3>3. frontier[p].ns \in Nat /\ cut.ns \in Nat
      BY DEF TypeOK, Instant
    <3>. QED
      BY <2>2, <3>1, <3>2, <3>3
  <2>5. ThreadOK'
    BY <1>1, <2>1, <2>2, <2>4 DEF Served, ThreadOK, Selecting, Serving
  <2>6. EveryoneServed'
    BY <1>1, <1>3, <2>1, <2>3 DEF Served, EveryoneServed, Serving
  <2>. QED
    BY <1>2, <2>5, <2>6 DEF Served
<1>9. CASE SettleWork
  <2>1. pc = "settle" /\ pc' = "react" /\ to' = to /\ partial' = partial
        /\ stale' = stale
    BY <1>9 DEF SettleWork, Goto
  <2>2. ThreadOK'
    BY <1>1, <2>1 DEF Served, ThreadOK, Selecting, Serving
  <2>3. EveryoneServed'
    BY <1>1, <1>3, <2>1 DEF Served, EveryoneServed, Serving
  <2>. QED
    BY <1>2, <2>2, <2>3 DEF Served
<1>10. CASE ReactReplan
  <2>1. pc = "react" /\ pc' = "settle" /\ to' = to /\ partial' = partial
        /\ stale' = FALSE
    BY <1>10 DEF ReactReplan, Goto
  <2>2. ThreadOK'
    BY <1>1, <2>1 DEF Served, ThreadOK, Selecting, Serving
  <2>3. EveryoneServed'
    BY <1>1, <1>3, <2>1 DEF Served, EveryoneServed, Serving
  <2>. QED
    BY <1>2, <2>2, <2>3 DEF Served
<1>11. CASE PartialDone
  <2>1. /\ pc = "settle" /\ partial /\ partial' = FALSE /\ to' = to /\ stale' = stale
        /\ pc' = IF Safe(to) = Partitions THEN "advance" ELSE "wait"
    BY <1>11 DEF PartialDone, Goto
  <2>2. sealed >= 0 /\ to > sealed /\ to = cut.ns /\ cut.ns \in Nat
    BY <2>1 DEF Served, ThreadOK, Serving, TypeOK, Instant
  <2>3. ThreadOK'
    BY <1>1, <2>1, <2>2 DEF Served, ThreadOK, Selecting, Serving
  <2>4. EveryoneServed'
    BY <1>1, <1>3, <2>1 DEF Served, EveryoneServed, Serving
  <2>. QED
    BY <1>2, <2>3, <2>4 DEF Served
<1>12. ASSUME NEW n \in 1 .. MaxNs, Resume(n) PROVE Served'
  <2>1. /\ fault = None /\ sealed >= 0 /\ pc = "idle" /\ pc' = "plan"
        /\ to' = to /\ partial' = partial /\ stale' = stale
    BY <1>12 DEF Resume, RunUntil, Guard
  <2>2. ThreadOK'
    BY <1>1, <2>1 DEF Served, ThreadOK, Selecting, Serving, TypeOK
  <2>3. EveryoneServed'
    BY <1>1, <2>1 DEF Served, EveryoneServed, Serving
  <2>. QED
    BY <1>2, <2>2, <2>3 DEF Served
<1>. QED
  BY <1>4, <1>5, <1>6, <1>7, <1>8, <1>9, <1>10, <1>11, <1>12

\* Where an advance wave leaves the partitions of its boundary.
LEMMA GrantForward ==
    ASSUME TypeOK, Served, pc = "advance"
    PROVE  AtOrBefore(cut, GrantInstant)
<1>1. to >= cut.ns
  BY DEF Served, ThreadOK, Selecting
<1>2. to \in Nat /\ cut.ns \in Nat /\ cut.microstep \in Nat
  BY DEF TypeOK, Instant
<1>3. /\ GrantInstant.ns = to
      /\ GrantInstant.microstep = IF cut.ns < to THEN 0 ELSE cut.microstep + 1
  BY DEF GrantInstant, At
<1>. QED
  BY <1>1, <1>2, <1>3 DEF AtOrBefore, Before

LEMMA SettleForward ==
    ASSUME TypeOK, Served, pc \in Serving, NEW i \in SettleInstants
    PROVE  i \in Instant /\ i.ns = to /\ cut.ns = to /\ Before(cut, i)
<1>1. to = cut.ns
  BY DEF Served, ThreadOK
<1>. QED
  BY <1>1, SettleInstantsType DEF Before, TypeOK, Instant

\* Execution steps that publish a record.
LEMMA ServedRecord ==
    ASSUME TypeOK, TypeOK', Served,
           Start \/ Advance \/ React \/ Boundary \/ SettleTimers \/ Seal
    PROVE  Served'
<1>1. CASE Start
  <2> DEFINE zero == At(0, 0)
  <2>1. /\ pc = "new" /\ pc' = "settle" /\ to' = to /\ partial' = partial
        /\ stale' = stale /\ Invoke(Partitions, zero, {}, Partitions)
    BY <1>1 DEF Start, Goto
  <2>2. zero \in Instant /\ zero.ns = 0 /\ cut = zero /\ sealed = -1
    BY <2>1, AtInstant DEF Served, ThreadOK
  <2>3. Safe(0) = Partitions
    BY CoordinatorAssumption DEF Safe, TypeOK
  <2>4. AtOrBefore(cut, zero)
    BY <2>2, InstantOrder
  <2>5. /\ frontier' = [p \in Partitions |-> zero] /\ cut' = zero /\ sealed' = -1
        /\ watermark' = watermark /\ fault' = fault /\ pending' = pending
    BY <2>1, <2>2 DEF Invoke
  <2>6. ClosedPrefix' /\ CohortsTogether' /\ FrontiersBracketed'
    <3>1. \A K \in Cohorts : K \subseteq Partitions
      BY CoordinatorAssumption
    <3> HIDE DEF zero
    <3>. QED
      BY <2>1, <2>2, <2>3, <2>4, <3>1, WaveServed
  <2>7. to = 0 /\ ~partial /\ pending = {} /\ ~stale /\ fault = None
    BY <2>1, <2>2 DEF Served, ThreadOK, Selecting
  <2>8. ThreadOK'
    BY <2>1, <2>2, <2>5, <2>7 DEF ThreadOK, Selecting, Serving
  <2>9. EveryoneServed'
    <3>1. Safe(0)' = Safe(0)
      BY <2>5 DEF Safe
    <3>. QED
      BY <2>1, <2>2, <2>3, <2>5, <2>7, <3>1 DEF EveryoneServed, Serving
  <2>. QED
    BY <2>6, <2>8, <2>9 DEF Served
<1>2. CASE Advance
  <2> DEFINE sel == Selected
             i == GrantInstant
  <2>1. /\ pc = "advance" /\ ~stale /\ pc' = "boundary" /\ to' = to
        /\ partial' = partial /\ stale' = stale
        /\ Invoke(sel, i, {}, Speakers(sel))
    BY <1>2 DEF Advance, Goto
  <2>2. i \in Instant /\ i.ns = to
    BY GrantInstantType
  <2>3. sel \subseteq Safe(to) \cap Behind(to) /\ sel \in SUBSET Partitions
        /\ \A K \in Cohorts : \A p, q \in K : p \in sel => q \in sel
    BY <2>1, SelectedCohorts DEF Behind
  <2>4. AtOrBefore(cut, i)
    BY <2>1, GrantForward
  <2>5. /\ frontier' = [p \in Partitions |-> IF p \in sel THEN i ELSE frontier[p]]
        /\ cut' = i /\ sealed' = sealed
        /\ watermark' = watermark /\ fault' = fault /\ pending' = pending
    BY <2>1 DEF Invoke
  <2>6. to > sealed /\ to >= cut.ns /\ sealed >= 0 /\ fault = None
        /\ (partial => Streams # {})
    BY <2>1 DEF Served, ThreadOK, Selecting, TypeOK
  <2>7. ~partial => \A p \in Partitions : p \notin sel => frontier[p].ns = to
    <3>1. ASSUME ~partial, NEW p \in Partitions, p \notin sel PROVE frontier[p].ns = to
      <4>1. frontier[p].ns >= to
        BY <3>1 DEF Selected, Behind, TypeOK, Instant
      <4>2. frontier[p].ns <= cut.ns
        BY InstantOrder DEF Served, FrontiersBracketed, TypeOK
      <4>3. frontier[p].ns \in Nat /\ cut.ns \in Nat /\ to \in Nat
        BY DEF TypeOK, Instant
      <4>. QED
        BY <2>6, <4>1, <4>2, <4>3
    <3>. QED
      BY <3>1
  <2>8. ~partial => Safe(to) = Partitions
    BY <2>1 DEF Served, EveryoneServed
  <2>9. Safe(to)' = Safe(to)
    BY <2>1, <2>5 DEF Safe
  <2> HIDE DEF sel, i
  <2>10. ClosedPrefix' /\ CohortsTogether' /\ FrontiersBracketed'
    BY <2>1, <2>2, <2>3, <2>4, WaveServed
  <2>11. ThreadOK'
    BY <2>1, <2>2, <2>5, <2>6 DEF ThreadOK, Selecting, Serving, TypeOK
  <2>12. EveryoneServed'
    BY <2>1, <2>2, <2>5, <2>6, <2>7, <2>8, <2>9 DEF EveryoneServed, Serving
  <2>. QED
    BY <2>10, <2>11, <2>12 DEF Served
<1>3. CASE React
  <2>1. PICK i \in SettleInstants :
          Invoke(ReadyPartitions(i), i, Taken(ReadyPartitions(i), i), ReadyPartitions(i))
    BY <1>3 DEF React
  <2>2. /\ pc = "react" /\ ~stale /\ pc' = "settle" /\ to' = to
        /\ partial' = partial /\ stale' = stale
    BY <1>3 DEF React, Goto
  <2> DEFINE sel == ReadyPartitions(i)
  <2>3. i \in Instant /\ i.ns = to /\ cut.ns = to /\ Before(cut, i)
    BY <2>2, SettleForward DEF Serving
  <2>4. /\ \A p \in sel : p \in Safe(to) /\ frontier[p].ns = to
        /\ \A K \in Cohorts : \A p, q \in K : p \in sel => q \in sel
        /\ sel \in SUBSET Partitions
    BY <2>2, ReadyCohorts, ReadyPartitionsType
  <2>5. /\ frontier' = [p \in Partitions |-> IF p \in sel THEN i ELSE frontier[p]]
        /\ cut' = i /\ sealed' = sealed
        /\ watermark' = watermark /\ fault' = fault /\ pending' = pending
    BY <2>1 DEF Invoke
  <2>6. AtOrBefore(cut, i)
    BY <2>3 DEF AtOrBefore
  <2>7. Safe(to)' = Safe(to)
    BY <2>2, <2>5 DEF Safe
  <2> HIDE DEF sel
  <2>8. ClosedPrefix' /\ CohortsTogether' /\ FrontiersBracketed'
    <3>1. sel \subseteq Safe(i.ns)
      BY <2>3, <2>4
    <3>2. Invoke(sel, i, Taken(sel, i), sel)
      BY <2>1 DEF sel
    <3>. QED
      BY <2>3, <2>4, <2>6, <3>1, <3>2, WaveServed
  <2>9. \A p \in Partitions : frontier'[p].ns = frontier[p].ns
    BY <2>3, <2>4, <2>5
  <2>10. ThreadOK'
    BY <2>2, <2>3, <2>5 DEF Served, ThreadOK, Selecting, Serving
  <2>11. EveryoneServed'
    BY <2>2, <2>3, <2>5, <2>7, <2>9 DEF Served, EveryoneServed, Serving
  <2>. QED
    BY <2>8, <2>10, <2>11 DEF Served
<1>4. CASE Boundary \/ SettleTimers
  <2>1. pc \in Serving /\ pc' = "settle" /\ to' = to /\ partial' = partial
        /\ stale' = stale /\ pc # "react"
    BY <1>4 DEF Boundary, SettleTimers, Goto, Serving, thread
  <2>2. \/ UNCHANGED store
        \/ BoundaryControl(cut)
        \/ \E i \in SettleInstants : BoundaryControl(i)
    BY <1>4 DEF Boundary, SettleTimers
  <2>3. /\ frontier' = frontier /\ sealed' = sealed /\ watermark' = watermark
        /\ fault' = fault /\ pending' \subseteq pending
    BY <2>2 DEF BoundaryControl, store
  <2>4. cut' \in Instant /\ cut'.ns = cut.ns /\ AtOrBefore(cut, cut')
    <3>1. CASE UNCHANGED store
      BY <3>1, InstantOrder DEF store, TypeOK
    <3>2. CASE BoundaryControl(cut)
      BY <3>2, InstantOrder DEF BoundaryControl, TypeOK
    <3>3. ASSUME NEW i \in SettleInstants, BoundaryControl(i)
          PROVE  cut' \in Instant /\ cut'.ns = cut.ns /\ AtOrBefore(cut, cut')
      BY <2>1, <3>3, SettleForward DEF BoundaryControl, AtOrBefore
    <3>. QED
      BY <2>2, <3>1, <3>2, <3>3
  <2>5. ClosedPrefix' /\ CohortsTogether'
    BY <2>3 DEF Served, ClosedPrefix, CohortsTogether
  <2>6. FrontiersBracketed'
    <3>1. \A p \in Partitions : AtOrBefore(frontier[p], cut')
      BY <2>4, InstantOrder DEF Served, FrontiersBracketed, TypeOK
    <3>. QED
      BY <2>3, <3>1 DEF Served, FrontiersBracketed
  <2>7. ThreadOK'
    BY <2>1, <2>3, <2>4 DEF Served, ThreadOK, Selecting, Serving
  <2>8. EveryoneServed'
    <3>1. Safe(to)' = Safe(to)
      BY <2>1, <2>3 DEF Safe
    <3>. QED
      BY <2>1, <2>3, <2>4, <3>1 DEF Served, EveryoneServed, Serving
  <2>. QED
    BY <2>5, <2>6, <2>7, <2>8 DEF Served
<1>5. CASE Seal
  <2>1. /\ pc = "settle" /\ ~partial /\ sealed' = to
        /\ frontier' = frontier /\ cut' = cut /\ watermark' = watermark
        /\ fault' = fault /\ pending' = pending
        /\ pc' \in {"plan", "idle"} /\ to' = 0 /\ partial' = FALSE /\ stale' = FALSE
    BY <1>5 DEF Seal, GotoPlan, Leave
  <2>2. Safe(to) = Partitions /\ \A p \in Partitions : frontier[p].ns = to
    BY <2>1 DEF Served, EveryoneServed, Serving
  <2>3. ClosedPrefix'
    BY <2>1, <2>2 DEF Served, ClosedPrefix, Safe
  <2>4. CohortsTogether' /\ FrontiersBracketed'
    BY <2>1, <2>2 DEF Served, CohortsTogether, FrontiersBracketed, TypeOK
  <2>5. ThreadOK'
    BY <2>1 DEF Served, ThreadOK, Selecting, Serving, TypeOK
  <2>6. EveryoneServed'
    BY <2>1 DEF Served, EveryoneServed, Serving
  <2>. QED
    BY <2>3, <2>4, <2>5, <2>6 DEF Served
<1>. QED
  BY <1>1, <1>2, <1>3, <1>4, <1>5

\* Execution steps that stop the run with a fault.
LEMMA ServedFault ==
    ASSUME TypeOK, TypeOK', Served,
           \/ PlanDeadlock \/ MeetClosed \/ AdvanceRefused \/ SettleLimit
           \/ SettleReentry \/ ReactRefused \/ SealStalled \/ EngineFault
           \/ JournalGone
    PROVE  Served'
<1>1. pc # "idle" /\ \E code : Fault(code)
  BY DEF PlanDeadlock, MeetClosed, AdvanceRefused, SettleLimit, SettleReentry,
         ReactRefused, SealStalled, EngineFault, JournalGone, Running
<1>2. /\ fault = None /\ frontier' = frontier /\ cut' = cut /\ sealed' = sealed
      /\ watermark' = watermark /\ pending' = pending
      /\ pc' = "idle" /\ to' = 0 /\ partial' = FALSE /\ stale' = FALSE
  BY <1>1 DEF Served, ThreadOK, Fault, Leave
<1>3. ClosedPrefix' /\ CohortsTogether' /\ FrontiersBracketed'
  BY <1>2, StillServed
<1>4. ThreadOK' /\ EveryoneServed'
  BY <1>2 DEF Served, ThreadOK, EveryoneServed, Selecting, Serving
<1>. QED
  BY <1>3, <1>4 DEF Served

\* A wave whose engines fail moves the record on, and nobody with it.
LEMMA WaveFaultForward ==
    ASSUME TypeOK, Served, WaveFault
    PROVE  /\ AtOrBefore(cut, cut') /\ cut' \in Instant
           /\ pc = "react" => cut'.ns = cut.ns
<1>1. CASE pc = "advance"
  BY <1>1, WaveFaultType, GrantForward, GrantInstantType
<1>2. CASE pc = "react"
  <2>1. cut' \in SettleInstants
    BY <1>2, WaveFaultType
  <2>. QED
    BY <1>2, <2>1, SettleForward DEF Serving, AtOrBefore
<1>. QED
  BY <1>1, <1>2, WaveFaultType

LEMMA ServedWaveFault ==
    ASSUME TypeOK, TypeOK', Served, WaveFault
    PROVE  Served'
<1>1. /\ frontier' = frontier /\ sealed' = sealed /\ watermark' = watermark
      /\ pending' = pending /\ fault' # None
      /\ pc' = "idle" /\ to' = 0 /\ partial' = FALSE /\ stale' = FALSE
  BY WaveFaultType, CoordinatorAssumption DEF Leave, FaultCodes
<1>2. ClosedPrefix' /\ CohortsTogether'
  BY <1>1 DEF Served, ClosedPrefix, CohortsTogether
<1>3. FrontiersBracketed'
  <2>1. \A p \in Partitions : AtOrBefore(frontier[p], cut')
    BY WaveFaultForward, InstantOrder DEF Served, FrontiersBracketed, TypeOK
  <2>. QED
    BY <1>1, <2>1 DEF Served, FrontiersBracketed
<1>4. ThreadOK' /\ EveryoneServed'
  BY <1>1 DEF Served, ThreadOK, EveryoneServed, Selecting, Serving
<1>. QED
  BY <1>2, <1>3, <1>4 DEF Served

LEMMA ServedHost ==
    ASSUME TypeOK, TypeOK', Served, Host
    PROVE  Served'
<1> DEFINE Kept ==
      /\ frontier' = frontier /\ cut' = cut /\ sealed' = sealed /\ fault' = fault
      /\ pc' = pc /\ to' = to /\ partial' = partial
      /\ (sealed < 0 => pending' = pending)
      /\ \A s \in Streams : watermark[s] <= watermark'[s]
<1>1. Kept
  <2>1. ASSUME NEW c \in Commands, NEW b, NEW a, Submit(c, b, a)
        PROVE  Kept
    BY <2>1 DEF Submit, Reserve, MoveCut, HostGuard, TypeOK
  <2>2. ASSUME NEW c \in Commands, NEW s \in Streams, NEW n, AdmitLive(c, s, n)
        PROVE  Kept
    BY <2>2 DEF AdmitLive, Reserve, MoveCut, HostGuard, TypeOK
  <2>3. ASSUME NEW c \in Commands, Cancel(c) PROVE Kept
    BY <2>3 DEF Cancel, Reserve, MoveCut, HostGuard, TypeOK
  <2>4. ASSUME RecordOnly PROVE Kept
    BY <2>4 DEF RecordOnly, MoveCut, store, TypeOK
  <2>5. ASSUME NEW s \in Streams, NEW n \in 1 .. MaxNs, AdvanceWatermark(s, n)
        PROVE  Kept
    BY <2>5 DEF AdvanceWatermark, MoveCut, TypeOK
  <2>6. CASE Close
    BY <2>6 DEF Close, MoveCut, thread, TypeOK
  <2>7. CASE CloseJournal
    BY <2>7 DEF CloseJournal, store, thread, TypeOK
  <2> HIDE DEF Kept
  <2>. QED
    BY <2>1, <2>2, <2>3, <2>4, <2>5, <2>6, <2>7
       DEF Host, RejectLive, CancelReject
<1>2. stale' => stale \/ pc \in Selecting \cup {"react"}
  BY DEF Host, Submit, AdmitLive, RejectLive, AdvanceWatermark, Cancel, CancelReject,
         Close, CloseJournal, Reserve, RecordOnly, MoveCut, thread, Selecting
<1>3. ClosedPrefix'
  <2>1. \A p \in Partitions : Deps[p] \subseteq Streams
    BY CoordinatorAssumption
  <2>2. \A p \in Partitions : frontier[p].ns \in Nat /\ sealed \in Int
    BY DEF TypeOK, Instant
  <2>3. \A s \in Streams : watermark[s] \in Nat /\ watermark'[s] \in Nat
    BY DEF TypeOK
  <2>. QED
    BY <1>1, <2>1, <2>2, <2>3 DEF Served, ClosedPrefix
<1>4. CohortsTogether' /\ FrontiersBracketed'
  BY <1>1 DEF Served, CohortsTogether, FrontiersBracketed
<1>5. ThreadOK'
  BY <1>1, <1>2 DEF Served, ThreadOK, Selecting, Serving
<1>6. EveryoneServed'
  <2>1. Safe(to) \subseteq Safe(to)'
    BY <1>1, SafeKept DEF TypeOK, Safe
  <2>2. Behind(to)' = Behind(to) /\ Safe(to)' \subseteq Partitions
    BY <1>1 DEF Behind, Safe
  <2>. QED
    BY <1>1, <2>1, <2>2 DEF Served, EveryoneServed
<1>. QED
  BY <1>3, <1>4, <1>5, <1>6 DEF Served

LEMMA ServedInvariant == Spec => []Served
<1>1. TypeOK /\ TypeOK' /\ Served /\ [Next]_vars => Served'
  <2> SUFFICES ASSUME TypeOK, TypeOK', Served, [Next]_vars PROVE Served'
    OBVIOUS
  <2>1. CASE Next
    BY <2>1, ServedThread, ServedRecord, ServedFault, ServedWaveFault, ServedHost
       DEF Next, Execution
  <2>2. CASE UNCHANGED vars
    BY <2>2 DEF Served, ClosedPrefix, CohortsTogether, FrontiersBracketed, ThreadOK,
                EveryoneServed, Safe, Behind, vars, store, thread
  <2>. QED
    BY <2>1, <2>2
<1>. QED
  BY ServedInit, TypeCorrect, <1>1, PTL DEF Spec

\* No partition reaches, and no instant is sealed at, a time that a stream
\* which influences it has not closed, whatever the hosts do in between.
THEOREM PrefixesClosed == Spec => []ClosedPrefix
BY ServedInvariant, PTL DEF Served

\* The members of a cohort are always at one instant.
THEOREM CohortsMoveTogether == Spec => []CohortsTogether
BY ServedInvariant, PTL DEF Served
-----------------------------------------------------------------------------
(* Run limits.                                                             *)

LEMMA LimitedInit == Init => Limited
BY AtInstant
   DEF Init, Limited, LimitCoversOpenInstant, LimitOK, Open, Selecting, Serving

\* Execution steps that leave the store alone.
LEMMA LimitedThread ==
    ASSUME TypeOK, TypeOK', Served, Limited,
           \/ Return \/ Plan \/ GateProceed \/ Replan \/ WaitTimeout \/ Yield
           \/ AdvanceNobody \/ SettleWork \/ ReactReplan \/ PartialDone
           \/ (\E n \in 1 .. MaxNs : Resume(n))
    PROVE  Limited'
<1>1. cut' = cut /\ sealed' = sealed /\ fault' = fault /\ closed' = closed
  BY DEF Return, Plan, GateProceed, Replan, WaitTimeout, Yield, AdvanceNobody,
         SettleWork, ReactReplan, PartialDone, Resume, RunUntil, store, closure
<1>2. CASE Return \/ WaitTimeout \/ Yield
  <2>1. pc' = "idle" /\ runTarget' = runTarget
    BY <1>2 DEF Return, WaitTimeout, Yield, Leave, store
  <2>. QED
    BY <1>1, <2>1
       DEF Limited, LimitCoversOpenInstant, LimitOK, Open, Selecting, Serving
<1>3. CASE Plan
  <2>1. PICK b \in Boundaries :
          b > sealed /\ to' = Max2(b, cut.ns) /\ \A x \in Boundaries : b <= x
    BY <1>3 DEF Plan
  <2>2. b <= limit /\ b \in Nat /\ cut.ns \in Nat /\ sealed \in Int /\ limit \in Nat
    BY <2>1 DEF Boundaries, TypeOK, WorkItem, Timer, Reservation, Instant
  <2>3. pc = "plan" /\ pc' = "gate" /\ runTarget' = runTarget /\ limit' = limit
        /\ sealed < limit
    BY <1>3 DEF Plan, store
  <2>4. Open => runTarget = limit /\ cut.ns <= limit
    <3>1. ASSUME Open PROVE runTarget = limit /\ runTarget # None
      BY <2>2, <2>3, <3>1, CoordinatorAssumption DEF Limited, LimitOK
    <3>2. ASSUME Open PROVE cut.ns <= limit
      BY <2>2, <2>3, <3>1, <3>2 DEF Limited, LimitCoversOpenInstant, Open
    <3>. QED
      BY <3>1, <3>2
  <2>5. Open => to' <= limit
    BY <2>1, <2>2, <2>4 DEF Max2
  <2>. QED
    BY <1>1, <2>3, <2>4, <2>5
       DEF Limited, LimitCoversOpenInstant, LimitOK, Open, Selecting, Serving
<1>4. CASE \/ GateProceed \/ AdvanceNobody \/ SettleWork \/ ReactReplan \/ PartialDone
  <2>1. /\ pc \in Selecting \cup Serving /\ pc' \in Selecting \cup Serving
        /\ runTarget' = runTarget /\ limit' = limit /\ to' = to
    BY <1>4 DEF GateProceed, Serve, AdvanceNobody, SettleWork, ReactReplan, PartialDone,
                Goto, store, Selecting, Serving
  <2>2. pc # "plan" /\ pc' # "plan"
    BY <2>1 DEF Selecting, Serving
  <2>. QED
    BY <1>1, <2>1, <2>2 DEF Limited, LimitCoversOpenInstant, LimitOK, Open
<1>5. CASE Replan
  <2>1. /\ pc \in Selecting /\ pc' = "plan"
        /\ runTarget' = runTarget /\ limit' = limit
    BY <1>5 DEF Replan, GotoPlan, store, Selecting
  <2>2. to > sealed
    BY <2>1 DEF Served, ThreadOK
  <2>3. to \in Nat /\ sealed \in Int /\ limit \in Nat
    BY DEF TypeOK
  <2>. QED
    BY <1>1, <2>1, <2>2, <2>3
       DEF Limited, LimitCoversOpenInstant, LimitOK, Open, Selecting, Serving
<1>6. ASSUME NEW n \in 1 .. MaxNs, Resume(n) PROVE Limited'
  <2>1. /\ pc' = "plan" /\ runTarget' = n /\ limit' = n /\ n > sealed
        /\ sealed >= 0 /\ (runTarget # None => n >= runTarget)
        /\ fault = None /\ ~closed
    BY <1>6 DEF Resume, RunUntil, Guard
  <2>2. n \in Nat /\ cut.ns \in Nat /\ sealed \in Int /\ n # None
    BY CoordinatorAssumption DEF TypeOK, Instant
  <2>3. cut.ns <= n
    BY <2>1, <2>2 DEF Limited, LimitCoversOpenInstant, TypeOK
  <2>. QED
    BY <1>1, <2>1, <2>2, <2>3
       DEF Limited, LimitCoversOpenInstant, LimitOK, Open, Selecting, Serving
<1>. QED
  BY <1>2, <1>3, <1>4, <1>5, <1>6

\* Execution steps that publish a record.
LEMMA LimitedRecord ==
    ASSUME TypeOK, TypeOK', Served, Limited,
           Start \/ Advance \/ React \/ Boundary \/ SettleTimers \/ Seal
    PROVE  Limited'
<1>1. CASE Start
  <2>1. sealed = -1 /\ sealed' = sealed /\ runTarget' = runTarget
    BY <1>1 DEF Start, Invoke, Served, ThreadOK
  <2>. QED
    BY <2>1 DEF Limited, LimitCoversOpenInstant, LimitOK, Open
<1>2. CASE Advance \/ React \/ Boundary \/ SettleTimers
  <2>1. /\ pc \in {"advance"} \cup Serving /\ pc' \in Serving
        /\ runTarget' = runTarget /\ limit' = limit /\ to' = to
        /\ fault' = fault /\ closed' = closed /\ sealed' = sealed
    BY <1>2 DEF Advance, React, Boundary, SettleTimers, Goto, Invoke, BoundaryControl,
                store, closure, thread, Selecting, Serving
  <2>2. cut'.ns = to
    <3>1. CASE Advance
      BY <3>1, GrantInstantType DEF Advance, Invoke
    <3>2. CASE React
      BY <3>2, SettleForward DEF React, Invoke, Serving
    <3>3. CASE Boundary
      BY <3>3 DEF Boundary, BoundaryControl, store, Served, ThreadOK, Serving
    <3>4. CASE SettleTimers
      BY <3>4, SettleForward DEF SettleTimers, BoundaryControl, Serving
    <3>. QED
      BY <1>2, <3>1, <3>2, <3>3, <3>4
  <2>3. Open => runTarget = limit /\ to <= limit /\ limit # None
    BY <2>1, CoordinatorAssumption DEF Limited, LimitOK, Selecting, TypeOK
  <2>4. pc' # "plan"
    BY <2>1 DEF Serving
  <2>. QED
    BY <2>1, <2>2, <2>3, <2>4
       DEF Limited, LimitCoversOpenInstant, LimitOK, Open
<1>3. CASE Seal
  <2>1. /\ pc = "settle" /\ sealed' = to /\ cut' = cut /\ fault' = fault
        /\ closed' = closed
        /\ runTarget' = IF runTarget = to THEN None ELSE runTarget
        /\ IF sealed < 0 THEN Leave("returned") ELSE GotoPlan
    BY <1>3 DEF Seal, closure
  <2>2. to = cut.ns /\ to \in Nat /\ limit \in Nat /\ sealed \in Int
    BY <2>1 DEF Served, ThreadOK, Serving, TypeOK
  <2>3. CASE sealed < 0
    <3>1. runTarget = None /\ pc' = "idle"
      BY <2>1, <2>3 DEF Limited, LimitOK, Leave
    <3>. QED
      BY <2>1, <2>2, <3>1
         DEF Limited, LimitCoversOpenInstant, LimitOK, Open, Selecting, Serving
  <2>4. CASE sealed >= 0
    <3>1. pc' = "plan" /\ limit' = limit
      BY <2>1, <2>2, <2>4 DEF GotoPlan
    <3>2. Open' => runTarget = limit /\ to <= limit
      BY <2>1, <2>4 DEF Limited, LimitOK, Open, Serving
    <3>. QED
      BY <2>1, <2>2, <3>1, <3>2, CoordinatorAssumption
         DEF Limited, LimitCoversOpenInstant, LimitOK, Open, Selecting, Serving
  <2>. QED
    BY <2>2, <2>3, <2>4
<1>. QED
  BY <1>1, <1>2, <1>3

\* A fault closes the run to further limits.
LEMMA LimitedFault ==
    ASSUME TypeOK, TypeOK', Served, Limited, pc # "idle", NEW code, Fault(code)
    PROVE  Limited'
<1>1. fault = None
  BY DEF Served, ThreadOK
<1>2. /\ cut' = cut /\ sealed' = sealed /\ runTarget' = runTarget /\ closed' = closed
      /\ pc' = "idle"
  BY DEF Fault, Leave, closure
<1>. QED
  BY <1>1, <1>2 DEF Limited, LimitCoversOpenInstant, LimitOK, Open, Selecting, Serving

LEMMA LimitedWaveFault ==
    ASSUME TypeOK, Served, Limited, WaveFault
    PROVE  Limited'
<1>1. sealed' = sealed /\ runTarget' = runTarget /\ fault' # None
  BY WaveFaultType, CoordinatorAssumption DEF FaultCodes
<1>. QED
  BY <1>1 DEF Limited, LimitCoversOpenInstant, LimitOK, Open

LEMMA LimitedHost ==
    ASSUME TypeOK, TypeOK', Limited, Host
    PROVE  Limited'
<1> DEFINE Kept ==
      /\ cut' = cut /\ sealed' = sealed /\ fault' = fault
      /\ pc' = pc /\ to' = to /\ limit' = limit
      /\ (closed => closed') /\ (runTarget' # runTarget => closed' /\ runTarget' = None)
<1>1. Kept
  <2>1. ASSUME NEW c \in Commands, NEW b, NEW a, Submit(c, b, a) PROVE Kept
    BY <2>1 DEF Submit, Reserve, MoveCut, closure
  <2>2. ASSUME NEW c \in Commands, NEW s, NEW n, AdmitLive(c, s, n) PROVE Kept
    BY <2>2 DEF AdmitLive, Reserve, MoveCut, closure
  <2>3. ASSUME NEW c, Cancel(c) PROVE Kept
    BY <2>3 DEF Cancel, Reserve, MoveCut, closure
  <2>4. ASSUME RecordOnly PROVE Kept
    BY <2>4 DEF RecordOnly, MoveCut, store, closure
  <2>5. ASSUME NEW s, NEW n, AdvanceWatermark(s, n) PROVE Kept
    BY <2>5 DEF AdvanceWatermark, MoveCut, closure
  <2>6. CASE Close
    BY <2>6 DEF Close, MoveCut, thread
  <2>7. CASE CloseJournal
    BY <2>7 DEF CloseJournal, store, thread
  <2> HIDE DEF Kept
  <2>. QED
    BY <2>1, <2>2, <2>3, <2>4, <2>5, <2>6, <2>7 DEF Host, RejectLive, CancelReject
<1>. QED
  BY <1>1 DEF Limited, LimitCoversOpenInstant, LimitOK, Open, TypeOK

LEMMA LimitedInvariant == Spec => []Limited
<1>1. TypeOK /\ TypeOK' /\ Served /\ Limited /\ [Next]_vars => Limited'
  <2> SUFFICES ASSUME TypeOK, TypeOK', Served, Limited, [Next]_vars PROVE Limited'
    OBVIOUS
  <2>1. CASE PlanDeadlock \/ MeetClosed \/ AdvanceRefused \/ SettleLimit
             \/ SettleReentry \/ ReactRefused \/ SealStalled \/ EngineFault
             \/ JournalGone
    BY <2>1, LimitedFault
       DEF PlanDeadlock, MeetClosed, AdvanceRefused, SettleLimit, SettleReentry,
           ReactRefused, SealStalled, EngineFault, JournalGone, Running
  <2>2. CASE Next
    BY <2>1, <2>2, LimitedThread, LimitedRecord, LimitedWaveFault, LimitedHost
       DEF Next, Execution
  <2>3. CASE UNCHANGED vars
    BY <2>3 DEF Limited, LimitCoversOpenInstant, LimitOK, Open, vars, store, closure,
                thread
  <2>. QED
    BY <2>2, <2>3
<1>. QED
  BY LimitedInit, TypeCorrect, ServedInvariant, <1>1, PTL DEF Spec

\* No instant is open beyond the seal without a run limit that covers it.
THEOREM LimitsCover == Spec => []LimitCoversOpenInstant
BY LimitedInvariant, PTL DEF Limited
-----------------------------------------------------------------------------
(* Queued work.                                                            *)

\* What a record queues is never due before the record.
LEMMA QueuedLater ==
    ASSUME TypeOK, NEW i \in Instant
    PROVE  /\ \A p \in Partitions : i.ns <= Note(p, i).at.ns
           /\ \A d \in pending : i.ns <= Delivery(d, i).at.ns
           /\ \A t \in timers : i.ns <= Alarm(t, i).at.ns
<1>1. \A j \in Instant : Before(i, j) => i.ns <= j.ns
  BY DEF Before, Instant
<1>2. ASSUME NEW p \in Partitions PROVE i.ns <= Note(p, i).at.ns
  <2>1. /\ Eligible(Grid[p], i, i, Lag[p]) \in Instant
        /\ Before(i, Eligible(Grid[p], i, i, Lag[p]))
    BY EligibleLater, CoordinatorAssumption
  <2>. QED
    BY <1>1, <2>1 DEF Note
<1>3. ASSUME NEW d \in pending PROVE i.ns <= Delivery(d, i).at.ns
  <2> DEFINE p == Target[d.cmd]
             asked == IF d.kind = "cancel" THEN i ELSE d.at
  <2>1. p \in Partitions /\ asked \in Instant
    BY CoordinatorAssumption DEF TypeOK, Reservation
  <2>2. /\ Eligible(Grid[p], asked, i, Lag[p]) \in Instant
        /\ Before(i, Eligible(Grid[p], asked, i, Lag[p]))
    BY <2>1, EligibleLater, CoordinatorAssumption
  <2>. QED
    BY <1>1, <2>2 DEF Delivery
<1>4. ASSUME NEW t \in timers PROVE i.ns <= Alarm(t, i).at.ns
  <2>1. t.owner \in Partitions /\ t.at \in Instant
    BY DEF TypeOK, Timer
  <2>2. /\ Eligible(Grid[t.owner], t.at, i, 0) \in Instant
        /\ Before(i, Eligible(Grid[t.owner], t.at, i, 0))
    BY <2>1, EligibleLater, CoordinatorAssumption
  <2>. QED
    BY <1>1, <2>2 DEF Alarm
<1>. QED
  BY <1>2, <1>3, <1>4

\* Execution steps that publish a record: their instant, and their new work.
LEMMA RecordInstant ==
    ASSUME TypeOK, Served,
           Start \/ Advance \/ React \/ Boundary \/ SettleTimers
    PROVE  /\ cut'.ns = to /\ pc' \in Serving /\ to' = to
           /\ \A w \in work' : w \in work \/ to <= w.at.ns
<1>1. ASSUME NEW sel \in SUBSET Partitions, NEW i \in Instant, NEW taken, NEW speakers,
             Invoke(sel, i, taken, speakers)
      PROVE  cut' = i /\ \A w \in work' : w \in work \/ i.ns <= w.at.ns
  <2>1. cut' = i
    BY <1>1 DEF Invoke
  <2>2. PICK sent \in SUBSET {r \in Routes : r[1] \in speakers} :
          work' = (work \ taken) \cup {Note(r[2], i) : r \in sent}
    BY <1>1 DEF Invoke
  <2>3. \A r \in sent : r[2] \in Partitions
    BY CoordinatorAssumption
  <2>. QED
    BY <2>1, <2>2, <2>3, QueuedLater
<1>2. ASSUME NEW i \in Instant, BoundaryControl(i)
      PROVE  cut' = i /\ \A w \in work' : w \in work \/ i.ns <= w.at.ns
  BY <1>2, QueuedLater DEF BoundaryControl, Publishable
<1>3. CASE Start
  <2>1. to = 0 /\ At(0, 0) \in Instant /\ At(0, 0).ns = 0
    BY <1>3, AtInstant DEF Start, Served, ThreadOK
  <2>. QED
    BY <1>1, <1>3, <2>1 DEF Start, Goto, Serving
<1>4. CASE Advance
  <2>1. Selected \in SUBSET Partitions
    BY DEF Selected, Behind, Safe
  <2>. QED
    BY <1>1, <1>4, <2>1, GrantInstantType DEF Advance, Goto, Serving
<1>5. CASE React
  <2>1. PICK i \in SettleInstants :
          Invoke(ReadyPartitions(i), i, Taken(ReadyPartitions(i), i), ReadyPartitions(i))
    BY <1>5 DEF React
  <2>2. i \in Instant /\ i.ns = to /\ ReadyPartitions(i) \in SUBSET Partitions
    BY SettleInstantsType, ReadyPartitionsType
  <2>. QED
    BY <1>1, <1>5, <2>1, <2>2 DEF React, Goto, Serving
<1>6. CASE Boundary
  <2>1. cut \in Instant /\ cut.ns = to
    BY <1>6 DEF Boundary, Served, ThreadOK, Serving, TypeOK
  <2>2. \/ cut' = cut /\ work' = work
        \/ BoundaryControl(cut)
    BY <1>6 DEF Boundary, store
  <2>. QED
    BY <1>2, <1>6, <2>1, <2>2 DEF Boundary, Goto, Serving
<1>7. CASE SettleTimers
  <2>1. PICK i \in SettleInstants : BoundaryControl(i)
    BY <1>7 DEF SettleTimers
  <2>2. i \in Instant /\ i.ns = to
    BY SettleInstantsType
  <2>. QED
    BY <1>2, <1>7, <2>1, <2>2 DEF SettleTimers, thread, Serving
<1>. QED
  BY <1>3, <1>4, <1>5, <1>6, <1>7

\* Where the other execution steps take the thread.
LEMMA OtherSteps ==
    ASSUME TypeOK, Served, Execution \/ EngineFault \/ Yield \/ WaitTimeout
                           \/ \E n \in 1 .. MaxNs : Resume(n)
    PROVE  \/ Start \/ Advance \/ React \/ Boundary \/ SettleTimers
           \/ Seal
           \/ Plan
           \/ PartialDone
           \/ /\ pc \in Selecting /\ pc' \in Selecting \cup {"boundary"}
              /\ to' = to /\ stale' = stale /\ UNCHANGED store
           \/ /\ pc \in {"settle", "react"} /\ pc' \in {"settle", "react"}
              /\ to' = to /\ partial' = partial /\ UNCHANGED store
           \/ /\ pc' \in {"plan", "idle"}
              /\ cut' = cut /\ sealed' = sealed /\ work' = work /\ pending' = pending
              /\ act' = act /\ timers' = timers /\ frontier' = frontier
              /\ watermark' = watermark
<1>1. CASE GateProceed \/ AdvanceNobody
  BY <1>1 DEF GateProceed, Serve, AdvanceNobody, Goto, Selecting
<1>2. CASE SettleWork \/ ReactReplan
  BY <1>2 DEF SettleWork, ReactReplan, Goto
<1>3. CASE Return \/ Replan \/ Yield \/ WaitTimeout \/ \E n \in 1 .. MaxNs : Resume(n)
  BY <1>3 DEF Return, Replan, Yield, WaitTimeout, Resume, RunUntil, Leave, GotoPlan, store
<1>4. ASSUME NEW code, Fault(code)
      PROVE  /\ pc' \in {"plan", "idle"}
             /\ cut' = cut /\ sealed' = sealed /\ work' = work /\ pending' = pending
             /\ act' = act /\ timers' = timers /\ frontier' = frontier
             /\ watermark' = watermark
  BY <1>4 DEF Fault, Leave
<1>5. CASE PlanDeadlock \/ MeetClosed \/ AdvanceRefused \/ SettleLimit
           \/ SettleReentry \/ ReactRefused \/ SealStalled \/ EngineFault
           \/ JournalGone
  BY <1>4, <1>5
     DEF PlanDeadlock, MeetClosed, AdvanceRefused, SettleLimit, SettleReentry,
         ReactRefused, SealStalled, EngineFault, JournalGone
<1>. QED
  BY <1>1, <1>2, <1>3, <1>5 DEF Execution

LEMMA WorkOpenStep ==
    ASSUME TypeOK, TypeOK', Served, WorkOpen, [Next]_vars
    PROVE  WorkOpen'
<1>1. \A w \in work : w.at.ns \in Nat /\ cut.ns \in Nat /\ to \in Nat
  BY DEF TypeOK, WorkItem, Instant
<1>2. CASE Start \/ Advance \/ React \/ Boundary \/ SettleTimers
  <2>1. /\ cut'.ns = to /\ pc' \in Serving
        /\ \A w \in work' : w \in work \/ to <= w.at.ns
    BY <1>2, RecordInstant
  <2>2. \A w \in work : to <= w.at.ns
    <3>1. CASE Start
      BY <1>1, <3>1 DEF Start, Served, ThreadOK
    <3>2. CASE Advance
      BY <3>2 DEF Advance, WorkOpen, Selecting
    <3>3. CASE React \/ Boundary \/ SettleTimers
      BY <3>3 DEF React, Boundary, SettleTimers, WorkOpen, Served, ThreadOK, Serving
    <3>. QED
      BY <1>2, <3>1, <3>2, <3>3
  <2>. QED
    BY <2>1, <2>2 DEF WorkOpen, Selecting, Serving
<1>3. CASE Seal
  BY <1>3 DEF Seal, GotoPlan, Leave, WorkOpen, Selecting
<1>4. CASE Plan
  <2>1. PICK b \in Boundaries :
          to' = Max2(b, cut.ns) /\ \A x \in Boundaries : b <= x
    BY <1>4 DEF Plan
  <2>2. cut' = cut /\ work' = work
    BY <1>4 DEF Plan, store
  <2>3. \A w \in work : b <= w.at.ns
    BY <2>1 DEF Boundaries
  <2>. QED
    BY <2>1, <2>2, <2>3 DEF WorkOpen, Max2
<1>5. CASE PartialDone
  <2>1. cut' = cut /\ work' = work /\ to' = to /\ to = cut.ns
    BY <1>5 DEF PartialDone, Goto, store, Served, ThreadOK, Serving
  <2>. QED
    BY <2>1 DEF WorkOpen
<1>6. CASE Host
  <2>1. cut' = cut /\ work' = work /\ to' = to /\ pc' = pc
    BY <1>6 DEF Host, Submit, AdmitLive, RejectLive, AdvanceWatermark, Cancel,
                CancelReject, Close, CloseJournal, Reserve, RecordOnly, MoveCut, store,
                thread
  <2>. QED
    BY <2>1 DEF WorkOpen
<1>7. CASE UNCHANGED vars
  BY <1>7 DEF WorkOpen, vars, store, thread
<1>8. CASE WaveFault
  <2>1. cut'.ns = to /\ work' \subseteq work /\ pc' = "idle"
    BY <1>8, WaveFaultType DEF Leave
  <2>2. \A w \in work : to <= w.at.ns
    BY <1>8, WaveFaultType DEF WorkOpen, Served, ThreadOK, Selecting, Serving
  <2>. QED
    BY <2>1, <2>2 DEF WorkOpen, Selecting
<1>. QED
  BY <1>2, <1>3, <1>4, <1>5, <1>6, <1>7, <1>8, OtherSteps
     DEF Next, WorkOpen, Selecting, store

LEMMA WorkOpenInvariant == Spec => []WorkOpen
<1>1. Init => WorkOpen
  BY DEF Init, WorkOpen
<1>. QED
  BY <1>1, WorkOpenStep, TypeCorrect, ServedInvariant, PTL DEF Spec

\* No wave carries a partition past the physical time of work that it has
\* not been dispatched.
THEOREM WorkNeverPassed == Spec => []WorkAhead
<1>1. TypeOK /\ Served /\ WorkOpen => WorkAhead
  <2> SUFFICES ASSUME TypeOK, Served, WorkOpen, NEW w \in work
               PROVE  frontier[w.recipient].ns <= w.at.ns
    BY DEF WorkAhead
  <2>1. w.recipient \in Partitions /\ w.at.ns \in Nat /\ cut.ns \in Nat
    BY DEF TypeOK, WorkItem, Instant
  <2>2. frontier[w.recipient].ns \in Nat /\ frontier[w.recipient].ns <= cut.ns
    BY <2>1, InstantOrder DEF TypeOK, Instant, Served, FrontiersBracketed
  <2>3. cut.ns <= w.at.ns
    BY DEF WorkOpen
  <2>. QED
    BY <2>1, <2>2, <2>3
<1>. QED
  BY <1>1, TypeCorrect, ServedInvariant, WorkOpenInvariant, PTL
-----------------------------------------------------------------------------
(* Reservations.                                                           *)

LEMMA SealedBeforeCut ==
    ASSUME TypeOK, Served
    PROVE  sealed <= cut.ns /\ sealed \in Int /\ cut.ns \in Nat
<1>1. PICK p \in Partitions : TRUE
  BY CoordinatorAssumption
<1>2. sealed <= frontier[p].ns /\ frontier[p].ns <= cut.ns /\ frontier[p].ns \in Nat
  BY InstantOrder DEF TypeOK, Instant, Served, FrontiersBracketed
<1>. QED
  BY <1>2 DEF TypeOK, Instant

LEMMA ReservationType ==
    ASSUME TypeOK
    PROVE  \A d \in pending : /\ d.boundary \in Nat /\ d.cmd \in Commands
                              /\ d.kind \in {"command", "cancel"}
BY DEF TypeOK, Reservation

\* A wave neither publishes nor reserves; it moves on only commands that it
\* has been dispatched, or that are running.
LEMMA WaveReservations ==
    ASSUME TypeOK, CommandsOnce,
           NEW sel, NEW i, NEW taken \in SUBSET work, NEW speakers,
           Invoke(sel, i, taken, speakers)
    PROVE  /\ pending' = pending /\ sealed' = sealed
           /\ \A d \in CommandReservations : act'[d.cmd] = "pending"
           /\ \A w \in CommandWork' :
                 w \in CommandWork /\ act'[w.cmd] = "queued"
<1> DEFINE begun == {w.cmd : w \in {v \in taken : v.kind = "command"}}
           running == {c \in Commands : Target[c] \in speakers /\ act[c] = "open"}
<1>1. PICK finished \in SUBSET (running \cup begun) :
          act' = [c \in Commands |-> IF c \in finished THEN "done"
                                     ELSE IF c \in begun THEN "open" ELSE act[c]]
  BY DEF Invoke
<1>2. PICK sent \in SUBSET {r \in Routes : r[1] \in speakers} :
          work' = (work \ taken) \cup {Note(r[2], i) : r \in sent}
  BY DEF Invoke
<1>3. pending' = pending /\ sealed' = sealed
  BY DEF Invoke
<1>4. \A c \in begun : c \in Commands /\ act[c] = "queued"
  BY DEF CommandsOnce, CommandWork
<1>5. ASSUME NEW d \in CommandReservations PROVE act'[d.cmd] = "pending"
  <2>1. act[d.cmd] = "pending" /\ d.cmd \in Commands
    BY ReservationType DEF CommandsOnce, CommandReservations
  <2>. QED
    BY <1>1, <1>4, <2>1
<1>6. ASSUME NEW w \in CommandWork' PROVE w \in CommandWork /\ act'[w.cmd] = "queued"
  <2>1. w.kind = "command" /\ w \in work'
    BY DEF CommandWork
  <2>2. \A r \in sent : Note(r[2], i).kind = "note"
    BY DEF Note
  <2>3. w \in work \ taken
    BY <1>2, <2>1, <2>2
  <2>4. w \in CommandWork /\ w.cmd \in Commands /\ act[w.cmd] = "queued"
    BY <2>1, <2>3 DEF CommandWork, CommandsOnce
  <2>5. w.cmd \notin begun
    BY <2>3, <2>4 DEF CommandsOnce, CommandWork
  <2>. QED
    BY <1>1, <2>4, <2>5
<1>. QED
  BY <1>3, <1>5, <1>6

\* A boundary step publishes due reservations, each into one work item.
LEMMA BoundaryReservations ==
    ASSUME TypeOK, CommandsOnce, NEW i \in Instant, BoundaryControl(i)
    PROVE  /\ pending' \subseteq pending /\ sealed' = sealed
           /\ pending \ pending' = Publishable(i)
           /\ \A d \in CommandReservations' : act'[d.cmd] = "pending"
           /\ \A w \in CommandWork' : w.cmd \in Commands /\ act'[w.cmd] = "queued"
           /\ \A v, w \in CommandWork' : v.cmd = w.cmd => v = w
<1> DEFINE published == Publishable(i)
           fired == {t \in timers : AtOrBefore(t.at, i)}
<1>1. /\ work' = work \cup {Delivery(d, i) : d \in published}
                      \cup {Alarm(t, i) : t \in fired}
      /\ pending' = pending \ published
      /\ act' = [c \in Commands |->
                   IF \E d \in published : d.kind = "command" /\ d.cmd = c
                   THEN "queued" ELSE act[c]]
      /\ sealed' = sealed
  BY DEF BoundaryControl
<1>2. published \subseteq pending
  BY DEF Publishable
<1>3. ASSUME NEW d \in CommandReservations' PROVE act'[d.cmd] = "pending"
  <2>1. d \in CommandReservations /\ d \notin published
    BY <1>1 DEF CommandReservations
  <2>2. act[d.cmd] = "pending" /\ d.cmd \in Commands
    BY <2>1, ReservationType DEF CommandsOnce, CommandReservations
  <2>3. ~\E e \in published : e.kind = "command" /\ e.cmd = d.cmd
    BY <1>2, <2>1 DEF CommandsOnce, CommandReservations
  <2>. QED
    BY <1>1, <2>2, <2>3
<1>4. ASSUME NEW w \in CommandWork'
      PROVE  \/ w \in CommandWork
             \/ \E d \in published : d.kind = "command" /\ w = Delivery(d, i)
  <2>1. w \in work' /\ w.kind = "command"
    BY DEF CommandWork
  <2>2. \A t \in fired : Alarm(t, i).kind = "note"
    BY DEF Alarm
  <2>3. \A d \in published : Delivery(d, i).kind = d.kind
    BY DEF Delivery
  <2>. QED
    BY <1>1, <2>1, <2>2, <2>3 DEF CommandWork
<1>5. ASSUME NEW d \in published, d.kind = "command"
      PROVE  /\ d \in CommandReservations /\ d.cmd \in Commands
             /\ act[d.cmd] = "pending" /\ Delivery(d, i).cmd = d.cmd
             /\ act'[d.cmd] = "queued"
  <2>1. d \in CommandReservations /\ d.cmd \in Commands
    BY <1>2, <1>5, ReservationType DEF CommandReservations
  <2>. QED
    BY <1>1, <1>5, <2>1 DEF CommandsOnce, Delivery
<1>6. ASSUME NEW w \in CommandWork' PROVE w.cmd \in Commands /\ act'[w.cmd] = "queued"
  <2>1. CASE w \in CommandWork
    <3>1. w.cmd \in Commands /\ act[w.cmd] = "queued"
      BY <2>1 DEF CommandsOnce
    <3>. QED
      BY <1>1, <3>1
  <2>2. CASE \E d \in published : d.kind = "command" /\ w = Delivery(d, i)
    BY <1>5, <2>2
  <2>. QED
    BY <1>4, <2>1, <2>2
<1>7. ASSUME NEW v \in CommandWork', NEW w \in CommandWork', v.cmd = w.cmd
      PROVE  v = w
  <2>1. CASE v \in CommandWork /\ w \in CommandWork
    BY <1>7, <2>1 DEF CommandsOnce
  <2>2. CASE v \in CommandWork /\ w \notin CommandWork
    BY <1>4, <1>5, <1>7, <2>2 DEF CommandsOnce
  <2>3. CASE v \notin CommandWork /\ w \in CommandWork
    BY <1>4, <1>5, <1>7, <2>3 DEF CommandsOnce
  <2>4. CASE v \notin CommandWork /\ w \notin CommandWork
    <3>1. PICK d \in published : d.kind = "command" /\ v = Delivery(d, i)
      BY <1>4, <2>4
    <3>2. PICK e \in published : e.kind = "command" /\ w = Delivery(e, i)
      BY <1>4, <2>4
    <3>3. d.cmd = e.cmd
      BY <1>5, <1>7, <3>1, <3>2
    <3>4. d = e
      BY <1>5, <3>1, <3>2, <3>3 DEF CommandsOnce
    <3>. QED
      BY <3>1, <3>2, <3>4
  <2>. QED
    BY <2>1, <2>2, <2>3, <2>4
<1>. QED
  BY <1>1, <1>2, <1>3, <1>6, <1>7

\* What a host step does to reservations: it admits a fresh command for a
\* boundary beyond the seal, or leaves commands alone.
Admitted(c, b, a) ==
    /\ act[c] = "new" /\ act' = [act EXCEPT ![c] = "pending"]
    /\ pending' = pending \cup
           {[kind |-> "command", cmd |-> c, boundary |-> b, at |-> At(a, 0)]}

LEMMA HostReservations ==
    ASSUME TypeOK, Served, Limited, Host
    PROVE  /\ work' = work /\ cut' = cut /\ sealed' = sealed /\ frontier' = frontier
           /\ pc' = pc /\ to' = to /\ partial' = partial
           /\ \/ act' = act /\ CommandReservations' = CommandReservations
              \/ \E c \in Commands, b \in Nat, a \in Nat :
                    /\ Admitted(c, b, a) /\ b > cut.ns /\ b > sealed
                    /\ watermark' = watermark
                    /\ pc \in Selecting => stale'
           /\ stale => stale'
<1> DEFINE Kept == /\ work' = work /\ cut' = cut /\ sealed' = sealed
                   /\ frontier' = frontier
                   /\ pc' = pc /\ to' = to /\ partial' = partial /\ (stale => stale')
           Fresh == \E c \in Commands, b \in Nat, a \in Nat :
                       /\ Admitted(c, b, a) /\ b > cut.ns /\ b > sealed
                       /\ watermark' = watermark
                       /\ pc \in Selecting => stale'
           Same == act' = act /\ CommandReservations' = CommandReservations
<1>1. ASSUME NEW c \in Commands, NEW b \in 1 .. MaxNs, NEW a \in 1 .. MaxNs,
             Submit(c, b, a)
      PROVE  Kept /\ Fresh
  <2>1. Admitted(c, b, a) /\ Kept /\ b > sealed /\ watermark' = watermark
    BY <1>1 DEF Submit, Reserve, MoveCut, Admitted
  <2>2. Open /\ runTarget = None
    BY <1>1 DEF Submit, HostGuard, Guard, Open
  <2>3. cut.ns <= sealed
    BY <2>2, SealedBeforeCut DEF Limited, LimitCoversOpenInstant, Open
  <2>4. pc \in Selecting => stale'
    BY <1>1 DEF Submit, Reserve, MoveCut, Selecting
  <2>5. b > cut.ns /\ b \in Nat /\ a \in Nat
    BY <2>1, <2>3, SealedBeforeCut
  <2>. QED
    BY <2>1, <2>4, <2>5
<1>2. ASSUME NEW c \in Commands, NEW s \in Streams, NEW n \in 0 .. MaxNs,
             AdmitLive(c, s, n)
      PROVE  Kept /\ Fresh
  <2> DEFINE b == LiveBoundary(s, n)
  <2>1. b \in Nat /\ b > cut.ns
    BY LiveBoundaryType
  <2>2. Admitted(c, b, b) /\ Kept /\ watermark' = watermark
    BY <1>2 DEF AdmitLive, Reserve, MoveCut, Admitted
  <2>3. pc \in Selecting => stale'
    BY <1>2 DEF AdmitLive, Reserve, MoveCut, Selecting
  <2>4. b > sealed
    BY <2>1, SealedBeforeCut
  <2> HIDE DEF b
  <2>. QED
    BY <2>1, <2>2, <2>3, <2>4
<1>3. ASSUME NEW c \in Commands, Cancel(c) PROVE Kept /\ Same
  <2>1. /\ Kept /\ act' = act
        /\ \E d : d.kind = "cancel" /\ pending' = pending \cup {d}
    BY <1>3 DEF Cancel, Reserve, MoveCut
  <2>2. CommandReservations' = CommandReservations
    BY <2>1 DEF CommandReservations
  <2>. QED
    BY <2>1, <2>2
<1>4. ASSUME RecordOnly PROVE Kept /\ Same
  BY <1>4 DEF RecordOnly, MoveCut, store, CommandReservations
<1>5. ASSUME NEW s, NEW n, AdvanceWatermark(s, n) PROVE Kept /\ Same
  BY <1>5 DEF AdvanceWatermark, MoveCut, CommandReservations
<1>6. ASSUME Close PROVE Kept /\ Same
  BY <1>6 DEF Close, MoveCut, thread, CommandReservations
<1>7. ASSUME CloseJournal PROVE Kept /\ Same
  BY <1>7 DEF CloseJournal, store, thread, CommandReservations
<1> HIDE DEF Kept, Same, Fresh
<1>8. Kept /\ (Same \/ Fresh)
  BY <1>1, <1>2, <1>3, <1>4, <1>5, <1>6, <1>7 DEF Host, RejectLive, CancelReject
<1>. QED
  BY <1>8 DEF Kept, Same, Fresh

\* Admission gives a fresh command its one reservation.
LEMMA AdmittedOnce ==
    ASSUME TypeOK, CommandsOnce, work' = work,
           NEW c \in Commands, NEW b \in Nat, NEW a \in Nat, Admitted(c, b, a)
    PROVE  /\ CommandsOnce'
           /\ \A d \in CommandReservations : d.cmd # c
           /\ \A d \in CommandReservations' : d \in CommandReservations \/ d.boundary = b
<1> DEFINE new == [kind |-> "command", cmd |-> c, boundary |-> b, at |-> At(a, 0)]
<1>1. /\ act[c] = "new" /\ act' = [act EXCEPT ![c] = "pending"]
      /\ act \in [Commands -> ActionStatus]
  BY DEF Admitted, TypeOK
<1>2. CommandReservations' = CommandReservations \cup {new}
  BY DEF Admitted, CommandReservations
<1>3. CommandWork' = CommandWork
  BY DEF CommandWork
<1>4. \A d \in CommandReservations : d.cmd \in Commands /\ d.cmd # c
  BY <1>1, ReservationType DEF CommandsOnce, CommandReservations
<1>5. new.cmd = c /\ new.boundary = b
  OBVIOUS
<1> HIDE DEF new
<1>6. \A d \in CommandReservations' : act'[d.cmd] = "pending"
  BY <1>1, <1>2, <1>4, <1>5 DEF CommandsOnce
<1>7. \A d, e \in CommandReservations' : d.cmd = e.cmd => d = e
  BY <1>2, <1>4, <1>5 DEF CommandsOnce
<1>8. \A w \in CommandWork' : w.cmd \in Commands /\ act'[w.cmd] = "queued"
  BY <1>1, <1>3 DEF CommandsOnce
<1>9. \A v, w \in CommandWork' : v.cmd = w.cmd => v = w
  BY <1>3 DEF CommandsOnce
<1>. QED
  BY <1>2, <1>4, <1>5, <1>6, <1>7, <1>8, <1>9 DEF CommandsOnce

LEMMA CommandsOnceStep ==
    ASSUME TypeOK, Served, Limited, CommandsOnce, [Next]_vars
    PROVE  CommandsOnce'
<1>1. ASSUME NEW sel, NEW i, NEW taken \in SUBSET work, NEW speakers,
             Invoke(sel, i, taken, speakers)
      PROVE  CommandsOnce'
  <2>1. CommandReservations' = CommandReservations
    BY <1>1, WaveReservations DEF CommandReservations
  <2>2. /\ \A d \in CommandReservations : act'[d.cmd] = "pending"
        /\ \A w \in CommandWork' : w \in CommandWork /\ act'[w.cmd] = "queued"
    BY <1>1, WaveReservations
  <2>. QED
    BY <2>1, <2>2 DEF CommandsOnce
<1>2. ASSUME NEW i \in Instant, BoundaryControl(i) PROVE CommandsOnce'
  <2>1. CommandReservations' \subseteq CommandReservations
    BY <1>2, BoundaryReservations DEF CommandReservations
  <2>. QED
    BY <1>2, <2>1, BoundaryReservations DEF CommandsOnce
<1>3. ASSUME act' = act, work' = work, CommandReservations' = CommandReservations
      PROVE  CommandsOnce'
  BY <1>3 DEF CommandsOnce, CommandWork
<1>4. CASE Start \/ Advance
  BY <1>1, <1>4 DEF Start, Advance
<1>5. CASE React
  <2>1. PICK i \in SettleInstants :
          Invoke(ReadyPartitions(i), i, Taken(ReadyPartitions(i), i), ReadyPartitions(i))
    BY <1>5 DEF React
  <2>2. Taken(ReadyPartitions(i), i) \in SUBSET work
    BY DEF Taken
  <2>. QED
    BY <1>1, <2>1, <2>2
<1>6. CASE Boundary \/ SettleTimers
  <2>1. \/ UNCHANGED store
        \/ \E i \in Instant : BoundaryControl(i)
    BY <1>6, SettleInstantsType DEF Boundary, SettleTimers, TypeOK
  <2>. QED
    BY <1>2, <1>3, <2>1 DEF store, CommandReservations
<1>7. CASE Seal \/ Plan \/ PartialDone \/ UNCHANGED vars
  BY <1>3, <1>7 DEF Seal, Plan, PartialDone, vars, store, CommandReservations
<1>8. CASE Host
  BY <1>3, <1>8, HostReservations, AdmittedOnce
<1>9. CASE WaveFault
  <2>1. act' = act /\ pending' = pending /\ work' \subseteq work
    BY <1>9, WaveFaultType
  <2>2. CommandReservations' = CommandReservations /\ CommandWork' \subseteq CommandWork
    BY <2>1 DEF CommandReservations, CommandWork
  <2>. QED
    BY <2>1, <2>2 DEF CommandsOnce
<1>. QED
  BY <1>3, <1>4, <1>5, <1>6, <1>7, <1>8, <1>9, OtherSteps
     DEF Next, store, CommandReservations

LEMMA CommandsOnceInvariant == Spec => []CommandsOnce
<1>1. Init => CommandsOnce
  BY DEF Init, CommandsOnce, CommandReservations, CommandWork
<1>. QED
  BY <1>1, CommandsOnceStep, TypeCorrect, ServedInvariant, LimitedInvariant, PTL DEF Spec

\* A boundary step at the boundary that is served, of a reservation that is
\* not overtaken: it is published if its target is safe.
LEMMA PublishedDue ==
    ASSUME TypeOK, Served, ReservationsAhead, pc \in Serving,
           NEW i \in Instant, i.ns = to, NEW d \in CommandReservations,
           d.boundary <= to, ~partial
    PROVE  d \in Publishable(i)
<1>1. Safe(i.ns) = Partitions
  BY DEF Served, EveryoneServed
<1>2. Target[d.cmd] \in Partitions /\ d \in pending
  BY CoordinatorAssumption, ReservationType DEF CommandReservations
<1>. QED
  BY <1>1, <1>2 DEF Publishable

LEMMA ReservationsAheadStep ==
    ASSUME TypeOK, TypeOK', Served, Limited, CommandsOnce, ReservationsAhead,
           [Next]_vars
    PROVE  ReservationsAhead'
<1>1. \A d \in CommandReservations :
        d.boundary \in Nat /\ d \in pending /\ d.kind = "command"
  BY ReservationType DEF CommandReservations
<1>2. to \in Nat /\ cut.ns \in Nat /\ sealed \in Int
  BY DEF TypeOK, Instant
<1>3. CASE Start
  <2>1. pending' = {}
    BY <1>3 DEF Start, Invoke, Served, ThreadOK
  <2>. QED
    BY <2>1 DEF ReservationsAhead, CommandReservations
<1>4. CASE Advance
  <2>1. /\ cut'.ns = to /\ pc' = "boundary"
        /\ pending' = pending /\ sealed' = sealed
    BY <1>4, GrantInstantType DEF Advance, Invoke, Goto
  <2>2. \A d \in CommandReservations : to <= d.boundary
    BY <1>4 DEF Advance, ReservationsAhead, Selecting
  <2>. QED
    BY <2>1, <2>2 DEF ReservationsAhead, CommandReservations, Selecting
<1>5. CASE React
  <2>1. /\ cut'.ns = to /\ pc' = "settle" /\ pc = "react" /\ to' = to
        /\ partial' = partial /\ pending' = pending /\ sealed' = sealed
    BY <1>5, SettleInstantsType DEF React, Invoke, Goto
  <2>2. to = cut.ns
    BY <2>1 DEF Served, ThreadOK, Serving
  <2>. QED
    BY <2>1, <2>2 DEF ReservationsAhead, CommandReservations, Selecting
<1>6. CASE Boundary
  <2>1. /\ pc = "boundary" /\ pc' = "settle" /\ to' = to /\ partial' = partial
        /\ to = cut.ns /\ cut \in Instant
    BY <1>6 DEF Boundary, Goto, Served, ThreadOK, Serving, TypeOK
  <2>2. CASE ~BoundaryDue /\ UNCHANGED store
    <3>1. \A d \in CommandReservations : to < d.boundary
      BY <1>1, <1>2, <2>2 DEF BoundaryDue
    <3>. QED
      BY <2>1, <2>2, <3>1 DEF ReservationsAhead, CommandReservations, Selecting, store
  <2>3. CASE BoundaryControl(cut)
    <3>1. /\ pending' \subseteq pending /\ sealed' = sealed /\ cut' = cut
          /\ pending \ pending' = Publishable(cut)
      BY <2>1, <2>3, BoundaryReservations DEF BoundaryControl
    <3>2. ASSUME ~partial, NEW d \in CommandReservations' PROVE to < d.boundary
      <4>1. d \in CommandReservations /\ d \notin Publishable(cut)
        BY <3>1, <3>2 DEF CommandReservations
      <4>. QED
        BY <1>1, <1>2, <2>1, <3>2, <4>1, PublishedDue DEF Serving
    <3>. QED
      BY <2>1, <3>1, <3>2 DEF ReservationsAhead, CommandReservations, Selecting
  <2>. QED
    BY <1>6, <2>2, <2>3 DEF Boundary
<1>7. CASE SettleTimers
  <2>1. PICK i \in SettleInstants : BoundaryControl(i)
    BY <1>7 DEF SettleTimers
  <2>2. pc = "settle" /\ pc' = pc /\ to' = to /\ partial' = partial /\ to = cut.ns
    BY <1>7 DEF SettleTimers, thread, Served, ThreadOK, Serving
  <2>3. i \in Instant /\ i.ns = to
    BY SettleInstantsType
  <2>4. pending' \subseteq pending /\ sealed' = sealed /\ cut'.ns = to
    BY <2>1, <2>3, BoundaryReservations DEF BoundaryControl
  <2>. QED
    BY <2>2, <2>4 DEF ReservationsAhead, CommandReservations, Selecting
<1>8. CASE Seal
  <2>1. /\ pc = "settle" /\ ~partial /\ sealed' = to /\ cut' = cut
        /\ pending' = pending /\ pc' \in {"plan", "idle"}
    BY <1>8 DEF Seal, GotoPlan, Leave
  <2>. QED
    BY <2>1 DEF ReservationsAhead, CommandReservations, Selecting
<1>9. CASE Plan
  <2>1. PICK b \in Boundaries :
          to' = Max2(b, cut.ns) /\ \A x \in Boundaries : b <= x
    BY <1>9 DEF Plan
  <2>2. cut' = cut /\ sealed' = sealed /\ pending' = pending /\ pc' = "gate"
    BY <1>9 DEF Plan, store
  <2>3. \A d \in CommandReservations : b <= d.boundary
    BY <1>1, <2>1 DEF Boundaries
  <2>. QED
    BY <2>1, <2>2, <2>3 DEF ReservationsAhead, CommandReservations, Max2
<1>10. CASE PartialDone
  <2>1. /\ cut' = cut /\ sealed' = sealed /\ pending' = pending /\ to' = to
        /\ to = cut.ns /\ pc' \in Selecting
    BY <1>10 DEF PartialDone, Goto, store, Served, ThreadOK, Serving, Selecting
  <2>. QED
    BY <2>1 DEF ReservationsAhead, CommandReservations, Selecting
<1>11. CASE Host
  <2>1. /\ cut' = cut /\ sealed' = sealed /\ pc' = pc /\ to' = to
        /\ partial' = partial /\ (stale => stale')
    BY <1>11, HostReservations
  <2>2. CASE CommandReservations' = CommandReservations
    BY <2>1, <2>2 DEF ReservationsAhead
  <2>3. ASSUME NEW c \in Commands, NEW b \in Nat, NEW a \in Nat, Admitted(c, b, a),
               b > cut.ns, b > sealed, pc \in Selecting => stale'
        PROVE  ReservationsAhead'
    <3>1. \A d \in CommandReservations' : d \in CommandReservations \/ d.boundary = b
      BY <2>3, <1>11, HostReservations, AdmittedOnce
    <3>2. pc \in Serving => to = cut.ns
      BY DEF Served, ThreadOK
    <3>. QED
      BY <1>2, <2>1, <2>3, <3>1, <3>2 DEF ReservationsAhead, Serving
  <2>. QED
    BY <1>11, <2>2, <2>3, HostReservations
<1>12. CASE \/ /\ pc \in Selecting /\ pc' \in Selecting \cup {"boundary"}
               /\ to' = to /\ stale' = stale /\ UNCHANGED store
            \/ /\ pc \in {"settle", "react"} /\ pc' \in {"settle", "react"}
               /\ to' = to /\ partial' = partial /\ UNCHANGED store
            \/ UNCHANGED vars
  BY <1>12 DEF ReservationsAhead, CommandReservations, Selecting, vars, store, thread
<1>13. CASE /\ pc' \in {"plan", "idle"}
            /\ cut' = cut /\ sealed' = sealed /\ pending' = pending
  BY <1>13 DEF ReservationsAhead, CommandReservations, Selecting
<1>14. CASE WaveFault
  <2>1. /\ cut'.ns = to /\ pc' = "idle" /\ pending' = pending /\ sealed' = sealed
        /\ pc \in {"advance", "react"} /\ ~stale
    BY <1>14, WaveFaultType DEF Leave
  <2>2. \A d \in CommandReservations : to <= d.boundary
    BY <2>1 DEF ReservationsAhead, Selecting, Served, ThreadOK, Serving
  <2>. QED
    BY <2>1, <2>2 DEF ReservationsAhead, CommandReservations, Selecting
<1>. QED
  BY <1>3, <1>4, <1>5, <1>6, <1>7, <1>8, <1>9, <1>10, <1>11, <1>12, <1>13, <1>14,
     OtherSteps DEF Next

LEMMA ReservationsAheadInvariant == Spec => []ReservationsAhead
<1>1. Init => ReservationsAhead
  BY DEF Init, ReservationsAhead, CommandReservations
<1>. QED
  BY <1>1, ReservationsAheadStep, TypeCorrect, ServedInvariant, LimitedInvariant,
     CommandsOnceInvariant, PTL DEF Spec

\* A command that was admitted or submitted is published before its boundary
\* is sealed over, whichever way the host calls interleave with the run.
THEOREM NoCommandStranded == Spec => []NoStrandedCommand
<1>1. ReservationsAhead => NoStrandedCommand
  <2> SUFFICES ASSUME ReservationsAhead, NEW d \in CommandReservations
               PROVE  d.boundary > sealed
    BY DEF NoStrandedCommand
  <2>. QED
    BY DEF ReservationsAhead
<1>. QED
  BY <1>1, ReservationsAheadInvariant, PTL

\* The strengthening that carries all of the above is an invariant.
THEOREM Inductive == Spec => []IInv
BY TypeCorrect, ServedInvariant, LimitedInvariant, WorkOpenInvariant,
   CommandsOnceInvariant, ReservationsAheadInvariant, PTL DEF IInv
-----------------------------------------------------------------------------
(* Grants, seals and time.                                                 *)

\* An advance wave that is about to be granted satisfies the validator.
LEMMA AdvanceAllowed ==
    ASSUME TypeOK, Served, Limited, ~closed, pc = "advance", Selected # {}
    PROVE  GrantAllowed(Selected, GrantInstant)
<1>1. GrantInstant \in Instant /\ GrantInstant.ns = to /\ AtOrBefore(cut, GrantInstant)
  BY GrantInstantType, GrantForward
<1>2. to > sealed /\ sealed >= 0 /\ fault = None /\ to \in Nat
  BY DEF Served, ThreadOK, Selecting, TypeOK
<1>3. runTarget # None /\ to <= runTarget
  BY <1>2, CoordinatorAssumption
     DEF Limited, LimitOK, Open, Selecting, TypeOK
<1>4. CASE Streams = {}
  <2>1. ~partial /\ Selected = Behind(to)
    BY <1>4 DEF Served, ThreadOK, Selected
  <2>2. \A p \in Partitions : frontier[p].ns = cut.ns
    BY <1>2, <1>4 DEF Served, EveryoneServed
  <2>3. cut.ns < to
    BY <2>1, <2>2 DEF Behind
  <2>4. Selected = Partitions /\ GrantInstant.microstep = 0
    BY <2>1, <2>2, <2>3 DEF Behind, GrantInstant, At
  <2>. QED
    BY <1>1, <1>2, <1>3, <1>4, <2>4 DEF GrantAllowed
<1>5. CASE Streams # {}
  <2>1. Selected = Safe(to) \cap Behind(to)
    BY SelectedCohorts DEF Selected
  <2>. QED
    BY <1>1, <1>2, <1>3, <1>5, <2>1 DEF GrantAllowed
<1>. QED
  BY <1>4, <1>5

\* Every delivery that is due follows the frontier of its recipient.
LEMMA ReactFollows ==
    ASSUME TypeOK, Served, pc = "react", NEW i \in SettleInstants,
           NEW sel
    PROVE  DispatchFollows(sel, i)
<1>1. i \in Instant /\ Before(cut, i)
  BY SettleForward DEF Serving
<1>2. \A w \in work : w.recipient \in Partitions
  BY DEF TypeOK, WorkItem
<1>3. \A p \in Partitions : frontier[p] \in Instant /\ AtOrBefore(frontier[p], cut)
  BY DEF TypeOK, Served, FrontiersBracketed
<1>. QED
  BY <1>1, <1>2, <1>3, InstantOrder DEF DispatchFollows, Taken, TypeOK

\* The coordinator never asks for a wave that its validator refuses, unless
\* close() has retired the limit under it.
THEOREM GrantsLegal == Spec => []GrantsAreLegal
<1>1. Init => GrantsAreLegal
  BY CoordinatorAssumption DEF Init, GrantsAreLegal, FaultCodes
<1>2. TypeOK /\ Served /\ Limited /\ GrantsAreLegal /\ [Next]_vars => GrantsAreLegal'
  <2> SUFFICES ASSUME TypeOK, Served, Limited, GrantsAreLegal, [Next]_vars
               PROVE  GrantsAreLegal'
    OBVIOUS
  <2>1. closed => closed'
    BY DEF Next, Execution, Host, Start, Return, Plan, PlanDeadlock, GateProceed,
           MeetClosed, Replan, Advance, AdvanceNobody, AdvanceRefused, Boundary,
           SettleLimit, SettleTimers, SettleWork, SettleReentry, ReactReplan, React,
           ReactRefused, PartialDone, Seal, SealStalled, JournalGone, EngineFault,
           WaveFault, Abandon, Yield, WaitTimeout, Resume, RunUntil, Submit, AdmitLive, RejectLive,
           AdvanceWatermark, Cancel, CancelReject, Close, CloseJournal, Reserve,
           RecordOnly, Fault, closure, vars
  <2>2. CASE fault' = fault
    BY <2>1, <2>2 DEF GrantsAreLegal
  <2>3. CASE AdvanceRefused
    BY <2>1, <2>3, AdvanceAllowed DEF AdvanceRefused, Fault, GrantsAreLegal
  <2>4. CASE ReactRefused
    BY <2>4, ReactFollows DEF ReactRefused, Fault, GrantsAreLegal
  <2>5. CASE PlanDeadlock \/ MeetClosed \/ SettleLimit \/ SettleReentry \/ SealStalled
             \/ EngineFault \/ JournalGone
    BY <2>5 DEF PlanDeadlock, MeetClosed, SettleLimit, SettleReentry, SealStalled,
                EngineFault, JournalGone, Fault, GrantsAreLegal
  <2>6. CASE Start \/ Advance \/ React \/ Boundary \/ SettleTimers \/ Seal
    BY <2>2, <2>6 DEF Start, Advance, React, Boundary, SettleTimers, Seal, Invoke,
                      BoundaryControl, store
  <2>7. CASE \/ Return \/ Plan \/ GateProceed \/ Replan \/ AdvanceNobody \/ SettleWork
             \/ ReactReplan \/ PartialDone \/ Yield \/ WaitTimeout
             \/ (\E n \in 1 .. MaxNs : Resume(n)) \/ UNCHANGED vars
    BY <2>2, <2>7 DEF Return, Plan, GateProceed, Replan, AdvanceNobody, SettleWork,
                      ReactReplan, PartialDone, Yield, WaitTimeout, Resume, RunUntil, store, vars
  <2>8. CASE Host
    BY <2>2, <2>8 DEF Host, Submit, AdmitLive, RejectLive, AdvanceWatermark, Cancel,
                      CancelReject, Close, CloseJournal, Reserve, RecordOnly, store
  <2>9. CASE WaveFault
    BY <2>9, WaveFaultType DEF GrantsAreLegal
  <2>. QED
    BY <2>3, <2>4, <2>5, <2>6, <2>7, <2>8, <2>9 DEF Next, Execution
<1>. QED
  BY <1>1, <1>2, TypeCorrect, ServedInvariant, LimitedInvariant, PTL DEF Spec

\* Closed prefixes are asserted one at a time, and only extended.
LEMMA HostWatermarks ==
    ASSUME TypeOK, Host
    PROVE  /\ \A s \in Streams : watermark[s] <= watermark'[s]
           /\ watermark' = watermark \/
                \E s \in Streams, n \in Nat : AdvanceWatermark(s, n)
<1>1. \A s \in Streams : watermark[s] <= watermark[s]
  BY DEF TypeOK
<1>2. ASSUME NEW c, NEW b, NEW a, Submit(c, b, a) PROVE watermark' = watermark
  BY <1>2 DEF Submit, Reserve
<1>3. ASSUME NEW c, NEW s, NEW n, AdmitLive(c, s, n) PROVE watermark' = watermark
  BY <1>3 DEF AdmitLive, Reserve
<1>4. ASSUME NEW c, Cancel(c) PROVE watermark' = watermark
  BY <1>4 DEF Cancel, Reserve
<1>5. ASSUME RecordOnly \/ Close \/ CloseJournal PROVE watermark' = watermark
  BY <1>5 DEF RecordOnly, Close, CloseJournal, store
<1>6. ASSUME NEW s \in Streams, NEW n \in 1 .. MaxNs, AdvanceWatermark(s, n)
      PROVE  n \in Nat /\ \A r \in Streams : watermark[r] <= watermark'[r]
  BY <1>6 DEF AdvanceWatermark, TypeOK
<1>. QED
  BY <1>1, <1>2, <1>3, <1>4, <1>5, <1>6 DEF Host, RejectLive, CancelReject

\* Only a seal moves the seal.
LEMMA SealedKept ==
    ASSUME TypeOK, Served, Limited, [Next]_vars, ~Seal
    PROVE  sealed' = sealed
<1>1. CASE Start \/ Advance \/ React \/ Boundary \/ SettleTimers
  BY <1>1 DEF Start, Advance, React, Boundary, SettleTimers, Invoke, BoundaryControl, store
<1>2. CASE Plan \/ PartialDone \/ UNCHANGED vars
  BY <1>2 DEF Plan, PartialDone, vars, store
<1>. QED
  BY <1>1, <1>2, HostReservations, WaveFaultType, OtherSteps DEF Next, store

\* An instant is sealed only when everyone has reached it, every stream is
\* closed through it and no work, timer or command that is due is left.
THEOREM SealsAreCommon == Spec => CommonSeal
<1>1. TypeOK /\ Served /\ Limited /\ ReservationsAhead /\ [Next]_vars =>
        [sealed' # sealed => SettledThrough(sealed', CommandReservations)]_vars
  <2> SUFFICES ASSUME TypeOK, Served, Limited, ReservationsAhead, [Next]_vars,
                      sealed' # sealed
               PROVE  SettledThrough(sealed', CommandReservations)
    OBVIOUS
  <2>1. Seal
    BY SealedKept
  <2>2. pc = "settle" /\ Settled /\ ~partial /\ sealed' = to
    BY <2>1 DEF Seal
  <2>3. Safe(to) = Partitions /\ \A p \in Partitions : frontier[p].ns = to
    BY <2>2 DEF Served, EveryoneServed, Serving
  <2>4. to \in Nat /\ (\A w \in work : w.at.ns \in Nat) /\ (\A t \in timers : t.at.ns \in Nat)
    BY DEF TypeOK, WorkItem, Timer, Instant
  <2>5. (\A w \in work : w.at.ns > to) /\ (\A t \in timers : t.at.ns > to)
    BY <2>2, <2>4 DEF Settled, DueWork, DueTimers
  <2>6. \A d \in CommandReservations : d.boundary > to
    BY <2>2, <2>4, ReservationType DEF ReservationsAhead, CommandReservations
  <2>. QED
    BY <2>2, <2>3, <2>5, <2>6 DEF SettledThrough
<1>. QED
  BY <1>1, TypeCorrect, ServedInvariant, LimitedInvariant, ReservationsAheadInvariant,
     PTL DEF Spec, CommonSeal

\* The journal, the frontiers, the closed prefixes and the seal only move
\* forward, through yields, replans, partial waves, faults and host calls.
THEOREM TimeMovesForward == Spec => TimeForward
<1>1. TypeOK /\ TypeOK' /\ Served /\ Limited /\ [Next]_vars =>
        [/\ AtOrBefore(cut, cut')
         /\ \A p \in Partitions : AtOrBefore(frontier[p], frontier'[p])
         /\ \A s \in Streams : watermark[s] <= watermark'[s]
         /\ sealed <= sealed']_vars
  <2> SUFFICES ASSUME TypeOK, TypeOK', Served, Limited, [Next]_vars
               PROVE  /\ AtOrBefore(cut, cut')
                      /\ \A p \in Partitions : AtOrBefore(frontier[p], frontier'[p])
                      /\ \A s \in Streams : watermark[s] <= watermark'[s]
                      /\ sealed <= sealed'
    OBVIOUS
  <2>1. sealed <= sealed'
    <3>1. CASE Seal
      BY <3>1 DEF Seal, Served, ThreadOK, Serving, Selecting, TypeOK
    <3>. QED
      BY <3>1, SealedKept DEF TypeOK
  <2>2. /\ AtOrBefore(cut, cut) /\ \A p \in Partitions : AtOrBefore(frontier[p], frontier[p])
        /\ \A s \in Streams : watermark[s] <= watermark[s]
    BY InstantOrder DEF TypeOK
  <2>3. ASSUME NEW sel, NEW i \in Instant, NEW taken, NEW speakers, AtOrBefore(cut, i),
               Invoke(sel, i, taken, speakers)
        PROVE  /\ AtOrBefore(cut, cut') /\ watermark' = watermark
               /\ \A p \in Partitions : AtOrBefore(frontier[p], frontier'[p])
    <3>1. /\ cut' = i /\ watermark' = watermark
          /\ \A p \in Partitions : frontier'[p] = IF p \in sel THEN i ELSE frontier[p]
      BY <2>3 DEF Invoke
    <3>2. \A p \in Partitions : AtOrBefore(frontier[p], i)
      BY <2>3, InstantOrder DEF Served, FrontiersBracketed, TypeOK
    <3>. QED
      BY <2>2, <2>3, <3>1, <3>2
  <2>4. CASE Start
    <3>1. At(0, 0) \in Instant /\ AtOrBefore(cut, At(0, 0))
      BY <2>4, AtInstant, InstantOrder DEF Start, Served, ThreadOK
    <3>. QED
      BY <2>1, <2>2, <2>3, <2>4, <3>1 DEF Start
  <2>5. CASE Advance
    BY <2>1, <2>2, <2>3, <2>5, GrantInstantType, GrantForward DEF Advance
  <2>6. CASE React
    <3>1. PICK i \in SettleInstants :
            Invoke(ReadyPartitions(i), i, Taken(ReadyPartitions(i), i), ReadyPartitions(i))
      BY <2>6 DEF React
    <3>2. i \in Instant /\ AtOrBefore(cut, i)
      BY <2>6, SettleForward, InstantOrder DEF React, Serving, TypeOK
    <3>. QED
      BY <2>1, <2>2, <2>3, <3>1, <3>2
  <2>7. CASE Boundary \/ SettleTimers
    <3>1. frontier' = frontier /\ watermark' = watermark
      BY <2>7 DEF Boundary, SettleTimers, BoundaryControl, store
    <3>2. AtOrBefore(cut, cut')
      <4>1. CASE Boundary
        BY <2>2, <4>1 DEF Boundary, BoundaryControl, store
      <4>2. CASE SettleTimers
        BY <4>2, SettleForward, InstantOrder
           DEF SettleTimers, BoundaryControl, Serving, TypeOK
      <4>. QED
        BY <2>7, <4>1, <4>2
    <3>. QED
      BY <2>1, <2>2, <3>1, <3>2
  <2>8. CASE Host
    <3>1. cut' = cut /\ frontier' = frontier
      BY <2>8, HostReservations
    <3>2. \A s \in Streams : watermark[s] <= watermark'[s]
      BY <2>8, HostWatermarks
    <3>. QED
      BY <2>1, <2>2, <3>1, <3>2
  <2>9. CASE Seal \/ Plan \/ PartialDone \/ UNCHANGED vars
    BY <2>1, <2>2, <2>9 DEF Seal, Plan, PartialDone, vars, store
  <2>10. CASE WaveFault
    <3>1. frontier' = frontier /\ watermark' = watermark /\ AtOrBefore(cut, cut')
      BY <2>10, WaveFaultType, WaveFaultForward
    <3>. QED
      BY <2>1, <2>2, <3>1
  <2>. QED
    BY <2>1, <2>2, <2>4, <2>5, <2>6, <2>7, <2>8, <2>9, <2>10, OtherSteps
       DEF Next, store
<1>. QED
  BY <1>1, TypeCorrect, ServedInvariant, LimitedInvariant, PTL DEF Spec, TimeForward
-----------------------------------------------------------------------------
(* The refinement of Timeline.                                             *)

LEMMA PromiseInit == Init => Promise!Init
<1> SUFFICES ASSUME Init PROVE Promise!Init
  OBVIOUS
<1>1. cut.ns = 0 /\ \A p \in Partitions : frontier[p].ns = 0
  BY AtInstant DEF Init
<1>2. Awaiting = {}
  BY DEF Init, Awaiting, CommandReservations
<1>3. watermark \in [Streams -> Nat]
  BY CoordinatorAssumption DEF Init
<1>. QED
  BY <1>1, <1>2, <1>3 DEF Promise!Init, Init, Reached

\* Steps that sources and hosts cannot tell from no step at all.
LEMMA PromiseStutter ==
    ASSUME cut'.ns = cut.ns, sealed' = sealed, watermark' = watermark,
           \A p \in Partitions : frontier'[p].ns = frontier[p].ns,
           CommandReservations' = CommandReservations
    PROVE  UNCHANGED Promise!vars
<1>1. Reached' = Reached
  BY DEF Reached
<1>2. Awaiting' = Awaiting
  BY DEF Awaiting
<1>. QED
  BY <1>1, <1>2 DEF Promise!vars

\* An advance wave serves the selected partitions the selected boundary.
LEMMA PromiseServe ==
    ASSUME TypeOK, Served, ReservationsAhead, Advance
    PROVE  \E P \in SUBSET Partitions : Promise!Serve(P)
<1>1. /\ pc = "advance" /\ ~stale /\ Selected # {}
      /\ Invoke(Selected, GrantInstant, {}, Speakers(Selected))
  BY DEF Advance
<1>2. /\ frontier' = [p \in Partitions |->
                        IF p \in Selected THEN GrantInstant ELSE frontier[p]]
      /\ cut' = GrantInstant /\ sealed' = sealed /\ watermark' = watermark
      /\ pending' = pending
  BY <1>1 DEF Invoke
<1>3. GrantInstant.ns = to
  BY GrantInstantType
<1>4. Selected \subseteq Safe(to) \cap Behind(to)
  BY <1>1, SelectedCohorts
<1>5. Selected \in SUBSET Partitions
  BY <1>4 DEF Behind
<1>6. cut'.ns >= cut.ns /\ cut'.ns > sealed
  BY <1>1, <1>2, <1>3 DEF Served, ThreadOK, Selecting
<1>7. \A p \in Selected :
        Reached[p] < cut'.ns /\ \A s \in Deps[p] : watermark[s] >= cut'.ns
  BY <1>2, <1>3, <1>4 DEF Reached, Behind, Safe
<1>8. \A d \in Awaiting : cut'.ns <= d.boundary
  BY <1>1, <1>2, <1>3 DEF ReservationsAhead, Awaiting, Selecting
<1>9. Reached' = [p \in Partitions |-> IF p \in Selected THEN cut'.ns ELSE Reached[p]]
  BY <1>2, <1>3 DEF Reached
<1>10. Awaiting' = Awaiting
  BY <1>2 DEF Awaiting, CommandReservations
<1>. QED
  BY <1>2, <1>5, <1>6, <1>7, <1>8, <1>9, <1>10 DEF Promise!Serve, Promise!ClosedFor

\* An advance wave whose engines fail opens the instant and serves nobody.
LEMMA PromiseWaveFault ==
    ASSUME TypeOK, Served, ReservationsAhead, WaveFault
    PROVE  [Promise!Next]_(Promise!vars)
<1>1. /\ cut'.ns = to /\ pc \in {"advance", "react"} /\ ~stale
      /\ UNCHANGED <<sealed, frontier, watermark, pending>>
  BY WaveFaultType
<1>2. Reached' = Reached /\ Awaiting' = Awaiting
      /\ CommandReservations' = CommandReservations
  BY <1>1 DEF Reached, Awaiting, CommandReservations
<1>3. CASE pc = "react"
  BY <1>1, <1>2, <1>3, WaveFaultForward, PromiseStutter
<1>4. CASE pc = "advance"
  <2>1. cut'.ns >= cut.ns /\ cut'.ns > sealed
    BY <1>1, <1>4 DEF Served, ThreadOK, Selecting
  <2>2. \A d \in Awaiting : cut'.ns <= d.boundary
    BY <1>1, <1>4 DEF ReservationsAhead, Awaiting, Selecting
  <2>3. Reached' = [p \in Partitions |-> IF p \in {} THEN cut'.ns ELSE Reached[p]]
    BY <1>2 DEF Reached
  <2>4. Promise!Serve({})
    BY <1>1, <1>2, <2>1, <2>2, <2>3 DEF Promise!Serve
  <2>. QED
    BY <2>4 DEF Promise!Next
<1>. QED
  BY <1>1, <1>3, <1>4

\* A boundary step publishes reservations at exactly their boundary.
LEMMA PromisePublish ==
    ASSUME TypeOK, Served, CommandsOnce, ReservationsAhead,
           NEW i \in Instant, i.ns = cut.ns, BoundaryControl(i)
    PROVE  Promise!Publish
<1>1. /\ cut' = i /\ sealed' = sealed /\ frontier' = frontier /\ watermark' = watermark
      /\ pending' \subseteq pending /\ pending \ pending' = Publishable(i)
  BY BoundaryReservations DEF BoundaryControl
<1>2. CommandReservations' \subseteq CommandReservations
  BY <1>1 DEF CommandReservations
<1>3. Awaiting' \subseteq Awaiting
  BY <1>2 DEF Awaiting
<1>4. ASSUME NEW d \in Awaiting \ Awaiting'
      PROVE  d.boundary = cut.ns /\ \A s \in Deps[Target[d.cmd]] : watermark[s] >= cut.ns
  <2>1. PICK r \in CommandReservations : d = [cmd |-> r.cmd, boundary |-> r.boundary]
    BY DEF Awaiting
  <2>2. r \notin CommandReservations'
    BY <2>1 DEF Awaiting
  <2>3. r \in Publishable(i)
    BY <1>1, <2>2 DEF CommandReservations
  <2>4. r.boundary <= cut.ns /\ Target[r.cmd] \in Safe(cut.ns)
    BY <2>3 DEF Publishable
  <2>5. cut.ns <= r.boundary /\ r.boundary \in Nat /\ cut.ns \in Nat
    BY ReservationType DEF ReservationsAhead, CommandReservations, TypeOK, Instant
  <2>. QED
    BY <2>1, <2>4, <2>5 DEF Safe
<1>5. Reached' = Reached
  BY <1>1 DEF Reached
<1>. QED
  BY <1>1, <1>3, <1>4, <1>5 DEF Promise!Publish, Promise!ClosedFor

LEMMA PromiseSeal ==
    ASSUME TypeOK, Served, ReservationsAhead, Seal
    PROVE  Promise!Seal
<1>1. /\ pc = "settle" /\ ~partial /\ sealed' = to /\ to = cut.ns /\ to > sealed
      /\ UNCHANGED <<cut, frontier, watermark, pending>>
  BY DEF Seal, Served, ThreadOK, Serving
<1>2. Safe(to) = Partitions /\ \A p \in Partitions : frontier[p].ns = to
  BY <1>1 DEF Served, EveryoneServed, Serving
<1>3. \A d \in Awaiting : d.boundary > cut.ns
  BY <1>1 DEF Awaiting, ReservationsAhead
<1>4. Reached' = Reached /\ Awaiting' = Awaiting
  BY <1>1 DEF Reached, Awaiting, CommandReservations
<1>. QED
  BY <1>1, <1>2, <1>3, <1>4 DEF Promise!Seal, Promise!ClosedFor, Reached, Safe

\* Admission, by submit or by admit_live, is for a boundary to come.
LEMMA PromiseAdmit ==
    ASSUME TypeOK, Served, Limited, CommandsOnce, Host,
           NEW c \in Commands, NEW b \in Nat, NEW a \in Nat, Admitted(c, b, a),
           b > cut.ns, watermark' = watermark
    PROVE  Promise!Admit(c)
<1> DEFINE entry == [cmd |-> c, boundary |-> b]
           new == [kind |-> "command", cmd |-> c, boundary |-> b, at |-> At(a, 0)]
<1>1. /\ work' = work /\ cut' = cut /\ sealed' = sealed /\ frontier' = frontier
  BY HostReservations
<1>2. \A d \in CommandReservations : d.cmd # c
  BY <1>1, AdmittedOnce
<1>3. CommandReservations' = CommandReservations \cup {new}
  BY DEF Admitted, CommandReservations
<1>4. new.cmd = c /\ new.boundary = b /\ entry.cmd = c /\ entry.boundary = b
  OBVIOUS
<1>5. Awaiting' = Awaiting \cup {entry}
  <2> HIDE DEF new
  <2>. QED
    BY <1>3, <1>4 DEF Awaiting
<1>6. \A d \in Awaiting : d.cmd # c
  BY <1>2 DEF Awaiting
<1>7. Reached' = Reached
  BY <1>1 DEF Reached
<1> HIDE DEF entry
<1>8. \E d \in Awaiting' :
        d.cmd = c /\ d.boundary > cut.ns /\ Awaiting' = Awaiting \cup {d}
  BY <1>4, <1>5
<1>. QED
  BY <1>1, <1>6, <1>7, <1>8 DEF Promise!Admit

LEMMA PromiseHost ==
    ASSUME TypeOK, Served, Limited, CommandsOnce, Host
    PROVE  [Promise!Next]_(Promise!vars)
<1>1. cut' = cut /\ sealed' = sealed /\ frontier' = frontier
  BY HostReservations
<1>2. CASE \E s \in Streams, n \in Nat : AdvanceWatermark(s, n)
  <2>1. PICK s \in Streams, n \in Nat : AdvanceWatermark(s, n)
    BY <1>2
  <2>2. /\ n > watermark[s] /\ watermark' = [watermark EXCEPT ![s] = n]
        /\ pending' = pending
    BY <2>1 DEF AdvanceWatermark
  <2>3. Reached' = Reached /\ Awaiting' = Awaiting
    BY <1>1, <2>2 DEF Reached, Awaiting, CommandReservations
  <2>4. watermark'[s] = n
    BY <2>2 DEF TypeOK
  <2>5. Promise!CloseTo(s)
    BY <1>1, <2>2, <2>3, <2>4 DEF Promise!CloseTo
  <2>. QED
    BY <2>5 DEF Promise!Next
<1>3. CASE watermark' = watermark /\ CommandReservations' = CommandReservations
  BY <1>1, <1>3, PromiseStutter
<1>4. CASE watermark' = watermark /\ CommandReservations' # CommandReservations
  <2>1. PICK c \in Commands, b \in Nat, a \in Nat : Admitted(c, b, a) /\ b > cut.ns
    BY <1>4, HostReservations
  <2>2. Promise!Admit(c)
    BY <1>4, <2>1, PromiseAdmit
  <2>. QED
    BY <2>2 DEF Promise!Next
<1>. QED
  BY <1>2, <1>3, <1>4, HostWatermarks

LEMMA PromiseStep ==
    ASSUME TypeOK, TypeOK', Served, Limited, CommandsOnce, ReservationsAhead, [Next]_vars
    PROVE  [Promise!Next]_(Promise!vars)
<1>1. CASE Start
  <2>1. /\ frontier' = [p \in Partitions |-> At(0, 0)] /\ cut' = At(0, 0)
        /\ sealed' = sealed /\ watermark' = watermark /\ pending' = pending
        /\ cut = At(0, 0) /\ pc = "new"
    BY <1>1 DEF Start, Invoke, Served, ThreadOK
  <2>2. \A p \in Partitions : frontier[p].ns <= 0 /\ frontier[p].ns \in Nat
    BY <2>1, AtInstant, InstantOrder DEF Served, FrontiersBracketed, TypeOK, Instant
  <2>3. \A p \in Partitions : frontier'[p].ns = frontier[p].ns
    BY <2>1, <2>2, AtInstant
  <2>. QED
    BY <2>1, <2>3, PromiseStutter DEF CommandReservations
<1>2. CASE Advance
  BY <1>2, PromiseServe DEF Promise!Next
<1>3. CASE React
  <2>1. PICK i \in SettleInstants :
          Invoke(ReadyPartitions(i), i, Taken(ReadyPartitions(i), i), ReadyPartitions(i))
    BY <1>3 DEF React
  <2>2. i.ns = to /\ cut.ns = to
    BY <1>3, SettleForward DEF React, Serving
  <2>3. \A p \in ReadyPartitions(i) : frontier[p].ns = to
    BY <1>3, ReadyCohorts DEF React
  <2>4. /\ frontier' = [p \in Partitions |->
                          IF p \in ReadyPartitions(i) THEN i ELSE frontier[p]]
        /\ cut' = i /\ sealed' = sealed /\ watermark' = watermark /\ pending' = pending
    BY <2>1 DEF Invoke
  <2>5. \A p \in Partitions : frontier'[p].ns = frontier[p].ns
    BY <2>2, <2>3, <2>4
  <2>. QED
    BY <2>2, <2>4, <2>5, PromiseStutter DEF CommandReservations
<1>4. CASE Boundary \/ SettleTimers
  <2>1. CASE \E i \in Instant : i.ns = cut.ns /\ BoundaryControl(i)
    BY <2>1, PromisePublish DEF Promise!Next
  <2>2. CASE UNCHANGED store
    BY <2>2, PromiseStutter DEF store, CommandReservations
  <2>3. CASE SettleTimers
    BY <2>1, <2>3, SettleForward DEF SettleTimers, Serving
  <2>4. CASE Boundary
    BY <2>1, <2>2, <2>4 DEF Boundary, TypeOK
  <2>. QED
    BY <1>4, <2>3, <2>4
<1>5. CASE Seal
  BY <1>5, PromiseSeal DEF Promise!Next
<1>6. CASE Host
  BY <1>6, PromiseHost
<1>7. CASE Plan \/ PartialDone \/ UNCHANGED vars \/ UNCHANGED store
  BY <1>7, PromiseStutter DEF Plan, PartialDone, vars, store, CommandReservations
<1>8. CASE /\ cut' = cut /\ sealed' = sealed /\ pending' = pending
           /\ frontier' = frontier /\ watermark' = watermark
  BY <1>8, PromiseStutter DEF CommandReservations
<1>. QED
  BY <1>1, <1>2, <1>3, <1>4, <1>5, <1>6, <1>7, <1>8, PromiseWaveFault, OtherSteps
     DEF Next

\* The coordinator implements the promise to sources and hosts: whatever the
\* thread, its partial waves, its replans and the host calls do, partitions
\* are served closed time only, commands are published at their boundary,
\* and what is sealed is over for everyone.
THEOREM KeepsPromise == Spec => PromiseKept
BY PromiseInit, PromiseStep, TypeCorrect, ServedInvariant, LimitedInvariant,
   CommandsOnceInvariant, ReservationsAheadInvariant, PTL
   DEF Spec, PromiseKept, Promise!Spec
=============================================================================
