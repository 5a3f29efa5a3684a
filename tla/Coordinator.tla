----------------------------- MODULE Coordinator -----------------------------
(***************************************************************************)
(* The coordinator of the simulation kernel (aerokernel/coordinator.py     *)
(* with control.py, ingress.py, scheduling.py and queues.py).              *)
(*                                                                         *)
(* One execution thread runs start() and run_until(): it selects the next  *)
(* physical boundary, advances every partition whose ingress influence is  *)
(* closed through it, settles the same-time work in microsteps and seals   *)
(* the instant.  Host threads submit, admit, cancel, close prefixes and    *)
(* close the run.  Every operation holds the one lock of the kernel, and   *)
(* the execution thread gives that lock up only while a host callback      *)
(* (on_poll, on_boundary, on_wait) or a condition wait is in progress.     *)
(* Each action of the execution thread below is one stretch between two    *)
(* such points, so a host operation may come between any two of them.      *)
(*                                                                         *)
(* Left out: sampled contexts, facts and relations, native clocks,         *)
(* bootstrap commands, idempotency keys, wall-clock pacing and the content *)
(* of messages.  An engine is what its invocations may do to the   *)
(* schedule: move its horizon, set or drop a timer, send work along its    *)
(* declared routes, and open or finish commands it is the target of.       *)
(***************************************************************************)
EXTENDS Instants

CONSTANTS
    Partitions,  \* independently scheduled authorities
    Streams,     \* live ingress streams; empty for an offline run
    Bound,       \* Bound[s]: partitions of the engines stream s is bound to
    Deps,        \* Deps[p]: streams that influence p, propagated at bind time
    Routes,      \* <<p, q>>: p is declared to send work to q
    Lifecycle,   \* partitions that are lifecycle controllers
    Cohorts,     \* disjoint sets of partitions that react together
    Reactive,    \* partitions that support reaction
    Grid,        \* Grid[p]: native step that inputs of p latch to
    Lag,         \* Lag[p]: declared message lag of p
    Commands,    \* identities that submit and admit_live may hand out
    Target,      \* Target[c]: the partition command c is addressed to
    Rejecting,   \* streams whose lateness policy is "reject"; others "delay"
    InitialMark, \* InitialMark[s]: watermark a stream declares at bind time
    TimerOwners, \* partitions whose engine uses timers
    MaxNs,       \* bound on the physical time inputs ask for
    MaxMicro,    \* max_microsteps: the pinned bound on same-time work
    None

\* Codes of the faults that stop a run.
FaultCodes ==
    {"DEADLOCK", "RUN_FAULTED", "MICROSTEP_LIMIT", "ADVANCE_GRANT",
     "REENTRY_UNSUPPORTED", "REACTIVE_READY", "DISPATCH_FRONTIER", "ENGINE",
     "JOURNAL_IO"}

ASSUME CoordinatorAssumption ==
    /\ None \notin Int /\ None \notin FaultCodes /\ Partitions # {}
    /\ Bound \in [Streams -> SUBSET Partitions]
    /\ Deps \in [Partitions -> SUBSET Streams]
    /\ Routes \subseteq Partitions \X Partitions
    /\ Cohorts \subseteq SUBSET Reactive
    /\ \A K, L \in Cohorts : K = L \/ K \cap L = {}
    /\ Lifecycle \subseteq Partitions /\ Reactive \subseteq Partitions
    /\ TimerOwners \subseteq Partitions
    /\ Grid \in [Partitions -> Nat \ {0}] /\ Lag \in [Partitions -> Nat]
    /\ Target \in [Commands -> Partitions]
    /\ Rejecting \subseteq Streams
    /\ InitialMark \in [Streams -> Nat]
    /\ MaxNs \in Nat /\ MaxMicro \in Nat

\* What the fixpoint of _initialize_ingress guarantees of the propagation.
ASSUME InfluenceAssumption ==
    /\ \A s \in Streams : \A p \in Bound[s] : s \in Deps[p]
    /\ \A r \in Routes : Deps[r[1]] \subseteq Deps[r[2]]
    /\ \A K \in Cohorts : \A p, q \in K : Deps[p] = Deps[q]

VARIABLES
    cut,        \* instant of the last acknowledged record
    sealed,     \* last sealed physical time, -1 before start() has sealed 0
    runTarget,  \* limit of the open run_until, or None
    frontier,   \* frontier[p]: instant partition p has reached
    horizon,    \* horizon[p]: earliest finite bound p promises, or None
    watermark,  \* watermark[s]: closed prefix of stream s
    work,       \* queued deliveries and notifications
    timers,     \* pending timers
    pending,    \* reserved ingress that is not published yet
    act,        \* act[c]: status of the action of command c
    fault,      \* code of the fault that stopped the run, or None
    closed,     \* close() has claimed the kernel
    stopped,    \* close() has recorded run_stop
    journalOpen,\* the journal still takes records
    pc,         \* where the execution thread last gave up the lock
    to,         \* its selected boundary
    limit,      \* its run_until argument
    partial,    \* it is serving the safe partitions only
    outcome,    \* how its last call came back
    stale       \* a host record has moved the cut since it was last read

store == <<cut, sealed, runTarget, frontier, horizon, watermark, work, timers,
           pending, act, fault>>
closure == <<closed, stopped, journalOpen>>
thread == <<pc, to, limit, partial, outcome, stale>>
vars == <<store, closure, thread>>

Locations ==
    {"new", "idle", "plan", "gate", "wait", "advance", "boundary", "settle",
     "react"}

WorkItem == [recipient : Partitions, at : Instant,
             kind : {"note", "command", "cancel"}, cmd : Commands \cup {None}]

Timer == [owner : Partitions, at : Instant]

Reservation == [kind : {"command", "cancel"}, cmd : Commands,
                boundary : Nat, at : Instant]

ActionStatus == {"new", "pending", "queued", "open", "done"}
-----------------------------------------------------------------------------
(* Views of the store that the schedule is computed from.                  *)

\* A bug the checks have to find: influence closed one nanosecond short.
SafeOffByOne(n) ==
    {p \in Partitions : \A s \in Deps[p] : watermark[s] + 1 >= n}

\* safe_partitions: the partitions whose whole influence is closed through n.
Safe(n) == {p \in Partitions : \A s \in Deps[p] : watermark[s] >= n}

Behind(n) == {p \in Partitions : frontier[p].ns < n}

\* A bug: queued work does not bound the next boundary.
BoundariesWithoutWork ==
    {limit} \cup ({horizon[p] : p \in Partitions} \ {None})
            \cup {d.boundary : d \in pending} \cup {t.at.ns : t \in timers}

\* Everything a physical boundary may be chosen for.
Boundaries ==
    {limit} \cup ({horizon[p] : p \in Partitions} \ {None})
            \cup {w.at.ns : w \in work}
            \cup {d.boundary : d \in pending}
            \cup {t.at.ns : t \in timers}

\* The instant an advance wave at boundary `to` is granted.
GrantInstant == At(to, IF cut.ns < to THEN 0 ELSE cut.microstep + 1)

\* A bug: only what is due before the boundary is settled at it.
DueTimersEarlier == {t \in timers : t.at.ns < to}

\* Work and timers that keep _settle(to) from finishing.
DueWork == {w \in work : w.at.ns <= to /\ (partial => w.recipient \in Safe(to))}
DueTimers == {t \in timers : t.at.ns <= to}

Settled == DueWork = {} /\ DueTimers = {}

\* Microsteps asked for by the earliest due work and the earliest due timer.
NextSteps == {x.at.microstep : x \in Heads(DueWork) \cup Heads(DueTimers)}

\* The instant of the next same-time step of _settle: one while work is due.
SettleInstants ==
    {At(to, Max2(cut.microstep + 1, m)) :
        m \in {n \in NextSteps : \A k \in NextSteps : n <= k}}

\* A bug: whoever has work reacts, without its cohort.
ReadyPartitionsAlone(i) ==
    {w.recipient : w \in {v \in work : AtOrBefore(v.at, i)}} \cap Safe(i.ns)

\* ready_partitions: lifecycle controllers first, expanded to whole cohorts.
ReadyPartitions(i) ==
    LET queued == {w.recipient : w \in {v \in work : AtOrBefore(v.at, i)}}
        ready  == IF Streams = {} THEN queued
                  ELSE {p \in queued \cap Safe(i.ns) : frontier[p].ns = i.ns}
        control == (ready \cap Lifecycle) \cup
                   UNION {K \in Cohorts : ready \cap K # {} /\ K \cap Lifecycle # {}}
        chosen == IF control # {} THEN control ELSE ready
    IN  chosen \cup UNION {K \in Cohorts : chosen \cap K # {}}

Taken(sel, i) == {w \in work : w.recipient \in sel /\ AtOrBefore(w.at, i)}
-----------------------------------------------------------------------------
(* Transactions on the store.                                              *)

Note(p, i) == [recipient |-> p, at |-> Eligible(Grid[p], i, i, Lag[p]),
               kind |-> "note", cmd |-> None]

Delivery(d, i) ==
    LET p == Target[d.cmd]
        asked == IF d.kind = "cancel" THEN i ELSE d.at
    IN  [recipient |-> p, at |-> Eligible(Grid[p], asked, i, Lag[p]),
         kind |-> d.kind, cmd |-> d.cmd]

Alarm(t, i) == [recipient |-> t.owner, at |-> Eligible(Grid[t.owner], t.at, i, 0),
                kind |-> "note", cmd |-> None]

\* A bug: a reservation is published once its boundary is over.
PublishableAfter(i) ==
    {d \in pending : d.boundary < i.ns /\ Target[d.cmd] \in Safe(i.ns)}

\* Reservations boundary_control publishes at instant i.
Publishable(i) ==
    {d \in pending : d.boundary <= i.ns /\ Target[d.cmd] \in Safe(i.ns)}

\* boundary_control: publish due ingress of safe targets, fire due timers.
BoundaryControl(i) ==
    LET published == Publishable(i)
        fired == {t \in timers : AtOrBefore(t.at, i)}
    IN  /\ work' = work \cup {Delivery(d, i) : d \in published}
                        \cup {Alarm(t, i) : t \in fired}
        /\ pending' = pending \ published
        /\ timers' = timers \ fired
        /\ act' = [c \in Commands |->
                     IF \E d \in published : d.kind = "command" /\ d.cmd = c
                     THEN "queued" ELSE act[c]]
        /\ cut' = i
        /\ UNCHANGED <<sealed, runTarget, frontier, horizon, watermark, fault>>

\* A bug: retrograde horizons are not rejected.
HorizonsUnchecked(n) == {None} \cup ((n - 1) .. MaxNs)

\* What engines may answer for a horizon once they have reached time n.
HorizonsAt(n) == {None} \cup (n .. MaxNs)

\* Timers an engine invoked at i may set: within the instant or after it.
DuesAfter(i) == {At(i.ns, i.microstep + 2), At(i.ns + 1, 0)}

(***************************************************************************)
(* An invocation wave that returns: every selected partition reaches i and *)
(* the merged batch is committed at once.  The wave is dispatched the work *)
(* `taken`; only a reactive wave takes any.  `speakers` may emit outputs:  *)
(* work for routed recipients and receipts for the commands they target.   *)
(***************************************************************************)
Invoke(sel, i, taken, speakers) ==
    LET begun == {w.cmd : w \in {v \in taken : v.kind = "command"}}
        running == {c \in Commands : Target[c] \in speakers /\ act[c] = "open"}
        owners == sel \cap TimerOwners
    IN  /\ frontier' = [p \in Partitions |-> IF p \in sel THEN i ELSE frontier[p]]
        /\ cut' = i
        /\ \E sent \in SUBSET {r \in Routes : r[1] \in speakers} :
              work' = (work \ taken) \cup {Note(r[2], i) : r \in sent}
        /\ \E h \in [sel -> HorizonsAt(i.ns)] :
              horizon' = [p \in Partitions |-> IF p \in sel THEN h[p] ELSE horizon[p]]
        /\ \E kept \in SUBSET {t \in timers : t.owner \in owners} :
           \E setters \in SUBSET (owners \ {t.owner : t \in kept}) :
           \E due \in [setters -> DuesAfter(i)] :
              timers' = {t \in timers : t.owner \notin owners} \cup kept
                        \cup {[owner |-> p, at |-> due[p]] : p \in setters}
        /\ \E finished \in SUBSET (running \cup begun) :
              act' = [c \in Commands |-> IF c \in finished THEN "done"
                                         ELSE IF c \in begun THEN "open"
                                         ELSE act[c]]
        /\ UNCHANGED <<sealed, runTarget, watermark, pending, fault>>

\* Go on within the current iteration of the execution thread.
Goto(l) == pc' = l /\ UNCHANGED <<to, limit, outcome>>

\* Start the next iteration of run_until: its locals are computed anew.
GotoPlan == pc' = "plan" /\ to' = 0 /\ partial' = FALSE /\ stale' = FALSE
            /\ UNCHANGED <<limit, outcome>>

\* The call returns or raises; its locals are gone.
Leave(how) ==
    /\ pc' = "idle" /\ outcome' = how
    /\ to' = 0 /\ limit' = 0 /\ partial' = FALSE /\ stale' = FALSE

\* The run stops at its recorded prefix and the call raises to its caller.
Fault(code) ==
    /\ fault' = code
    /\ Leave("raised")
    /\ UNCHANGED <<cut, sealed, runTarget, frontier, horizon, watermark, work,
                   timers, pending, act, closure>>
-----------------------------------------------------------------------------
(* The execution thread: start().                                          *)

Init ==
    /\ cut = At(0, 0) /\ sealed = -1 /\ runTarget = None
    /\ frontier = [p \in Partitions |-> At(0, 0)]
    /\ horizon = [p \in Partitions |-> None]
    /\ watermark = InitialMark
    /\ work = {} /\ timers = {} /\ pending = {}
    /\ act = [c \in Commands |-> "new"]
    /\ fault = None /\ closed = FALSE /\ stopped = FALSE /\ journalOpen = TRUE
    /\ pc = "new" /\ to = 0 /\ limit = 0 /\ partial = FALSE /\ stale = FALSE
    /\ outcome = "running"

\* Reset every engine in one wave; bootstrap outputs settle at time 0.
Start ==
    /\ pc = "new" /\ ~closed
    /\ Invoke(Partitions, At(0, 0), {}, Partitions)
    /\ Goto("settle")
    /\ UNCHANGED <<closure, partial, stale>>
-----------------------------------------------------------------------------
(* The execution thread: run_until().                                      *)

\* _guard: refuse a closed or faulted kernel.
Guard == ~closed /\ fault = None /\ journalOpen

Running == pc \notin {"new", "idle"} /\ fault = None

\* run_until(n) records its limit.
RunUntil(n) ==
    /\ pc = "idle" /\ Guard /\ sealed >= 0 /\ n > sealed
    /\ runTarget' = n /\ limit' = n
    /\ pc' = "plan" /\ outcome' = "running"
    /\ UNCHANGED <<cut, sealed, frontier, horizon, watermark, work, timers,
                   pending, act, fault, closure, to, partial, stale>>

\* The caller resumes a run that yielded with "the same target", as the
\* docstring of run_until has it, or a later one.  The code does not check it.
Resume(n) == (runTarget # None => n >= runTarget) /\ RunUntil(n)

\* The loop condition of run_until fails: the limit is sealed.
Return ==
    /\ pc = "plan" /\ sealed >= limit
    /\ Leave("returned")
    /\ UNCHANGED <<store, closure>>

\* Select the next natural boundary and call on_boundary without the lock.
Plan ==
    /\ pc = "plan" /\ sealed < limit
    /\ \E b \in Boundaries :
         /\ \A x \in Boundaries : b <= x
         /\ b > sealed
         /\ to' = Max2(b, cut.ns)
    /\ pc' = "gate"
    /\ UNCHANGED <<store, closure, limit, partial, outcome, stale>>

\* A bound at or before the seal leaves no safe physical progress.
PlanDeadlock ==
    /\ pc = "plan" /\ sealed < limit /\ journalOpen
    /\ \E b \in Boundaries : b <= sealed
    /\ Fault("DEADLOCK")

\* Serve the safe partitions early when others have to wait for a stream.
ServesPartially == Safe(to) # Partitions /\ Safe(to) \cap Behind(to) # {}

\* Where the thread goes on with boundary `to` from an unchanged cut.
Serve ==
    /\ partial' = ServesPartially
    /\ Goto(IF Safe(to) = Partitions \/ ServesPartially THEN "advance" ELSE "wait")

GateProceed ==
    /\ pc = "gate" /\ ~stale
    /\ Serve
    /\ UNCHANGED <<store, closure, stale>>

\* The guard after on_boundary, or in a wait loop, meets a closed kernel.
MeetClosed ==
    /\ pc = "gate" \/ (pc \in {"wait", "advance"} /\ ~stale)
    /\ closed /\ journalOpen
    /\ Fault("RUN_FAULTED")

\* Host input moved the cut during a callback: plan again from that cut.
Replan ==
    /\ pc \in {"gate", "wait", "advance"} /\ stale
    /\ GotoPlan
    /\ UNCHANGED <<store, closure>>

\* A blocked stream's wait deadline expires: raised, and not recorded.
WaitTimeout ==
    /\ pc = "wait" /\ ~stale /\ ~closed
    /\ Leave("timeout")
    /\ UNCHANGED <<store, closure>>

\* A host callback returns False: the committed prefix is handed back.
Yield ==
    /\ Running /\ sealed >= 0
    /\ pc = "gate" => ~closed
    /\ Leave("yielded")
    /\ UNCHANGED <<store, closure>>
-----------------------------------------------------------------------------
(* The execution thread: waves.                                            *)

\* A bug: a partial wave takes everyone who is behind.
SelectedUnsafe == Behind(to)

Selected == IF partial THEN Safe(to) \cap Behind(to) ELSE Behind(to)

\* wave_intents, advance phase: the validator of physical grants.
GrantAllowed(sel, i) ==
    /\ sel = IF Streams = {} THEN Partitions ELSE Safe(i.ns) \cap Behind(i.ns)
    /\ Streams = {} => i.microstep = 0
    /\ AtOrBefore(cut, i)
    /\ i.ns > sealed
    /\ runTarget # None /\ i.ns <= runTarget

\* Engines that keep their promise: no output before their output bound.
Speakers(sel) == {p \in sel : horizon[p] # None /\ horizon[p] <= to}

\* Poll the host, then advance every selected partition to the boundary.
Advance ==
    /\ pc = "advance" /\ ~stale /\ Selected # {} /\ journalOpen
    /\ GrantInstant.microstep <= MaxMicro
    /\ GrantAllowed(Selected, GrantInstant)
    /\ Invoke(Selected, GrantInstant, {}, Speakers(Selected))
    /\ Goto("boundary")
    /\ UNCHANGED <<closure, partial, stale>>

\* Everyone is at the boundary already: a yielded run was resumed there.
AdvanceNobody ==
    /\ pc = "advance" /\ ~stale /\ Selected = {}
    /\ Goto("boundary")
    /\ UNCHANGED <<store, closure, partial, stale>>

AdvanceRefused ==
    /\ pc = "advance" /\ ~stale /\ Selected # {} /\ journalOpen
    /\ \/ GrantInstant.microstep > MaxMicro /\ Fault("MICROSTEP_LIMIT")
       \/ /\ GrantInstant.microstep <= MaxMicro
          /\ ~GrantAllowed(Selected, GrantInstant)
          /\ Fault("ADVANCE_GRANT")

\* The boundary step: unconditional after a partial wave, else when due.
BoundaryDue ==
    \/ partial
    \/ \E d \in pending : d.boundary <= to
    \/ \E t \in timers : AtOrBefore(t.at, At(to, 0))

\* The timer it tests was read before the wave, which may have dropped it:
\* with timers, a boundary record may be appended though nothing is due.
Boundary ==
    /\ pc = "boundary"
    /\ \/ ~BoundaryDue /\ UNCHANGED store
       \/ (BoundaryDue \/ TimerOwners # {}) /\ journalOpen /\ BoundaryControl(cut)
    /\ Goto("settle")
    /\ UNCHANGED <<closure, partial, stale>>

SettleLimit ==
    /\ pc = "settle" /\ journalOpen
    /\ \E i \in SettleInstants : i.microstep > MaxMicro
    /\ Fault("MICROSTEP_LIMIT")

TimerDue(i) == \E t \in DueTimers : AtOrBefore(t.at, i)

SettleTimers ==
    /\ pc = "settle" /\ journalOpen
    /\ \E i \in SettleInstants :
          i.microstep <= MaxMicro /\ TimerDue(i) /\ BoundaryControl(i)
    /\ UNCHANGED <<closure, thread>>

\* Choose a reactive wave; the host is polled before it is granted.
SettleWork ==
    /\ pc = "settle"
    /\ \E i \in SettleInstants :
          /\ i.microstep <= MaxMicro /\ ~TimerDue(i)
          /\ ReadyPartitions(i) \subseteq Reactive
    /\ Goto("react")
    /\ UNCHANGED <<store, closure, partial, stale>>

SettleReentry ==
    /\ pc = "settle" /\ journalOpen
    /\ \E i \in SettleInstants :
          /\ i.microstep <= MaxMicro /\ ~TimerDue(i)
          /\ ~(ReadyPartitions(i) \subseteq Reactive)
    /\ Fault("REENTRY_UNSUPPORTED")

\* The poll moved the cut: _wave returns False and _settle looks again.
ReactReplan ==
    /\ pc = "react" /\ stale
    /\ stale' = FALSE
    /\ Goto("settle")
    /\ UNCHANGED <<store, closure, partial>>

\* wave_intents, react phase: a delivery must follow its recipient's frontier.
DispatchFollows(sel, i) ==
    \A w \in Taken(sel, i) : Before(frontier[w.recipient], i)

React ==
    /\ pc = "react" /\ ~stale /\ journalOpen
    /\ \E i \in SettleInstants :
         LET sel == ReadyPartitions(i)
         IN  sel # {} /\ DispatchFollows(sel, i)
             /\ Invoke(sel, i, Taken(sel, i), sel)
    /\ Goto("settle")
    /\ UNCHANGED <<closure, partial, stale>>

ReactRefused ==
    /\ pc = "react" /\ ~stale /\ journalOpen
    /\ \E i \in SettleInstants :
         LET sel == ReadyPartitions(i)
         IN  \/ sel = {} /\ Fault("REACTIVE_READY")
             \/ ~DispatchFollows(sel, i) /\ Fault("DISPATCH_FRONTIER")

\* A partial boundary is settled: wait for the streams of the others.
PartialDone ==
    /\ pc = "settle" /\ Settled /\ partial
    /\ partial' = FALSE
    /\ Goto(IF Safe(to) = Partitions THEN "advance" ELSE "wait")
    /\ UNCHANGED <<store, closure, stale>>

Stalled == \E p \in Partitions : horizon[p] # None /\ horizon[p] <= to

\* Bugs: a partial boundary is sealed; the limit outlives its seal.
SealPartial ==
    /\ pc = "settle" /\ Settled /\ ~Stalled /\ journalOpen
    /\ sealed' = to
    /\ runTarget' = IF runTarget = to THEN None ELSE runTarget
    /\ IF sealed < 0 THEN Leave("returned") ELSE GotoPlan
    /\ UNCHANGED <<cut, frontier, horizon, watermark, work, timers, pending, act,
                   fault, closure>>

SealKeepingLimit ==
    /\ pc = "settle" /\ Settled /\ ~partial /\ ~Stalled /\ journalOpen
    /\ sealed' = to
    /\ IF sealed < 0 THEN Leave("returned") ELSE GotoPlan
    /\ UNCHANGED <<cut, runTarget, frontier, horizon, watermark, work, timers, pending,
                   act, fault, closure>>

\* Seal the instant; start() returns, run_until() looks at its limit again.
Seal ==
    /\ pc = "settle" /\ Settled /\ ~partial /\ ~Stalled /\ journalOpen
    /\ sealed' = to
    /\ runTarget' = IF runTarget = to THEN None ELSE runTarget
    /\ IF sealed < 0 THEN Leave("returned") ELSE GotoPlan
    /\ UNCHANGED <<cut, frontier, horizon, watermark, work, timers, pending, act,
                   fault, closure>>

SealStalled ==
    /\ pc = "settle" /\ Settled /\ ~partial /\ Stalled /\ journalOpen
    /\ Fault("DEADLOCK")

\* An engine raises in reset, or promises a horizon that is not allowed.
EngineFault ==
    /\ \/ pc = "new" /\ ~closed
       \/ pc = "plan" /\ sealed < limit
       \/ pc = "settle" /\ Settled /\ ~partial
    /\ journalOpen
    /\ Fault("ENGINE")

\* The intents of a wave are on record: the cut is at i and the work of the
\* wave is taken, but nobody reaches i and nothing else is committed.
Abandon(i, taken) ==
    /\ cut' = i /\ work' = work \ taken /\ fault' = "ENGINE"
    /\ Leave("raised")
    /\ UNCHANGED <<sealed, runTarget, frontier, horizon, watermark, timers,
                   pending, act, closure>>

\* An invoked engine raises, or the commit rules reject the batch of one.
WaveFault ==
    /\ journalOpen /\ ~stale
    /\ \/ /\ pc = "advance" /\ Selected # {}
          /\ GrantInstant.microstep <= MaxMicro
          /\ GrantAllowed(Selected, GrantInstant)
          /\ Abandon(GrantInstant, {})
       \/ /\ pc = "react"
          /\ \E i \in SettleInstants :
                LET sel == ReadyPartitions(i)
                IN  sel # {} /\ DispatchFollows(sel, i) /\ Abandon(i, Taken(sel, i))

\* A record is appended after close() has shut the journal.
JournalGone ==
    /\ Running /\ ~journalOpen
    /\ Fault("JOURNAL_IO")
-----------------------------------------------------------------------------
(* Host operations, between any two steps of the execution thread.         *)

\* Host operations see a started kernel: start() keeps the lock throughout.
HostGuard == Guard /\ sealed >= 0

\* Bugs: the thread does not compare the cut after polling the host for a
\* wave, or after waking up from a wait for a stream.
MoveCutBeforeWave ==
    /\ stale' = (stale \/ pc \in {"gate", "wait", "react"})
    /\ UNCHANGED <<pc, to, limit, partial, outcome>>
MoveCutInWait ==
    /\ stale' = (stale \/ pc \in {"gate", "advance", "react"})
    /\ UNCHANGED <<pc, to, limit, partial, outcome>>

\* The record of a host operation moves the cut under the execution thread,
\* which compares it with the cut it read at these locations.
MoveCut ==
    /\ stale' = (stale \/ pc \in {"gate", "wait", "advance", "react"})
    /\ UNCHANGED <<pc, to, limit, partial, outcome>>

Reserve(d) ==
    /\ pending' = pending \cup {d}
    /\ MoveCut
    /\ UNCHANGED <<cut, sealed, runTarget, frontier, horizon, watermark, work,
                   timers, fault, closure>>

\* submit: needs a settled run, and a boundary and activation beyond the seal.
Submit(c, b, a) ==
    /\ HostGuard /\ runTarget = None /\ act[c] = "new"
    /\ b > sealed /\ a >= b
    /\ act' = [act EXCEPT ![c] = "pending"]
    /\ Reserve([kind |-> "command", cmd |-> c, boundary |-> b, at |-> At(a, 0)])

Late(s, mapped) == mapped <= watermark[s] \/ mapped <= sealed

\* The next admissible publication boundary of reserve_live.
LiveBoundary(s, mapped) ==
    Max2(Max2(mapped, cut.ns + 1), IF Late(s, mapped) THEN watermark[s] + 1 ELSE 0)

\* admit_live: map, judge lateness, and reserve at the boundary b.  That b is
\* at most MaxNs is a bound of the model.
AdmitLive(c, s, mapped) ==
    LET b == LiveBoundary(s, mapped)
    IN  /\ HostGuard /\ act[c] = "new" /\ Target[c] \in Bound[s]
        /\ ~(Late(s, mapped) /\ s \in Rejecting)
        /\ b <= MaxNs
        /\ act' = [act EXCEPT ![c] = "pending"]
        /\ Reserve([kind |-> "command", cmd |-> c, boundary |-> b, at |-> At(b, 0)])

\* A record that changes nothing but the cut index: the run must replan.
RecordOnly == MoveCut /\ UNCHANGED <<store, closure>>

\* admit_live refuses late input of a stream with lateness "reject".
RejectLive(c, s, mapped) ==
    /\ HostGuard /\ act[c] = "new" /\ Target[c] \in Bound[s]
    /\ Late(s, mapped) /\ s \in Rejecting
    /\ RecordOnly

\* advance_watermark: assert a longer closed prefix of one stream.
AdvanceWatermark(s, n) ==
    /\ HostGuard /\ n > watermark[s]
    /\ watermark' = [watermark EXCEPT ![s] = n]
    /\ MoveCut
    /\ UNCHANGED <<cut, sealed, runTarget, frontier, horizon, work, timers,
                   pending, act, fault, closure>>

\* cancel: reserve a cancellation of a running action right after the seal.
\* The code takes any number of them; the model keeps one in pending.
Cancel(c) ==
    /\ HostGuard /\ act[c] = "open"
    /\ \A d \in pending : ~(d.kind = "cancel" /\ d.cmd = c)
    /\ Reserve([kind |-> "cancel", cmd |-> c, boundary |-> sealed + 1,
                at |-> At(sealed + 1, 0)])
    /\ UNCHANGED act

\* cancel of a command that is not running: recorded, and nothing reserved.
CancelReject(c) ==
    /\ HostGuard /\ act[c] \in {"pending", "queued", "done"}
    /\ RecordOnly

\* close(), under the lock: claim closure and record an unfinished stop.
Close ==
    LET unfinished == /\ sealed >= 0 /\ fault = None
                      /\ (runTarget # None \/ pending # {})
    IN  /\ ~closed /\ (pc \in {"settle", "react"} => sealed >= 0)
        /\ closed' = TRUE
        /\ stopped' = unfinished
        /\ runTarget' = IF unfinished THEN None ELSE runTarget
        /\ IF unfinished THEN MoveCut ELSE UNCHANGED thread
        /\ UNCHANGED <<cut, sealed, frontier, horizon, watermark, work, timers,
                       pending, act, fault, journalOpen>>

\* close(), after the lock is released: the resources go.
CloseJournal ==
    /\ closed /\ journalOpen
    /\ journalOpen' = FALSE
    /\ UNCHANGED <<store, closed, stopped, thread>>
-----------------------------------------------------------------------------
Execution ==
    \/ Start \/ Return \/ Plan \/ PlanDeadlock \/ GateProceed \/ MeetClosed
    \/ Replan \/ Advance \/ AdvanceNobody \/ AdvanceRefused \/ Boundary
    \/ SettleLimit \/ SettleTimers \/ SettleWork \/ SettleReentry
    \/ ReactReplan \/ React \/ ReactRefused \/ PartialDone
    \/ Seal \/ SealStalled \/ JournalGone

Host ==
    \/ \E c \in Commands, b, a \in 1 .. MaxNs : Submit(c, b, a)
    \/ \E c \in Commands, s \in Streams, n \in 0 .. MaxNs :
          AdmitLive(c, s, n) \/ RejectLive(c, s, n)
    \/ \E s \in Streams, n \in 1 .. MaxNs : AdvanceWatermark(s, n)
    \/ \E c \in Commands : Cancel(c) \/ CancelReject(c)
    \/ Close
    \/ CloseJournal

Next ==
    \/ Execution
    \/ Host
    \/ \E n \in 1 .. MaxNs : Resume(n)
    \/ EngineFault \/ WaveFault \/ Yield \/ WaitTimeout

Spec == Init /\ [][Next]_vars
-----------------------------------------------------------------------------
(* Correctness.                                                            *)

TypeOK ==
    /\ cut \in Instant
    /\ sealed \in Nat \cup {-1}
    /\ runTarget \in Nat \cup {None}
    /\ frontier \in [Partitions -> Instant]
    /\ horizon \in [Partitions -> Nat \cup {None}]
    /\ watermark \in [Streams -> Nat]
    /\ work \subseteq WorkItem
    /\ timers \subseteq Timer
    /\ pending \subseteq Reservation
    /\ act \in [Commands -> ActionStatus]
    /\ fault \in FaultCodes \cup {None}
    /\ closed \in BOOLEAN /\ stopped \in BOOLEAN /\ journalOpen \in BOOLEAN
    /\ pc \in Locations
    /\ outcome \in {"running", "returned", "yielded", "timeout", "raised"}
    /\ to \in Nat /\ limit \in Nat
    /\ partial \in BOOLEAN /\ stale \in BOOLEAN

(***************************************************************************)
(* No partition reaches a physical time, and no instant is sealed, that a  *)
(* stream which influences it may still write into.  A watermark assertion *)
(* of a host thread can fall between any two steps of a wave.              *)
(***************************************************************************)
ClosedPrefix ==
    \A p \in Partitions : \A s \in Deps[p] :
        frontier[p].ns <= watermark[s] /\ sealed <= watermark[s]

\* Nothing that concerns time n or an earlier one is left in the store.
SettledThrough(n, reservations) ==
    /\ \A p \in Partitions : frontier[p].ns = n
    /\ Safe(n) = Partitions
    /\ \A w \in work : w.at.ns > n
    /\ \A t \in timers : t.at.ns > n
    /\ \A d \in reservations : d.boundary > n

CommandReservations == {d \in pending : d.kind = "command"}

(***************************************************************************)
(* The common seal: when _settle seals an instant every partition has      *)
(* reached it, every stream is closed through it, and no work, timer or    *)
(* command reservation that is due stays behind.  Replay re-checks exactly *)
(* this of a seal record.                                                  *)
(***************************************************************************)
CommonSeal ==
    [][sealed' # sealed => SettledThrough(sealed', CommandReservations)]_vars

(***************************************************************************)
(* The same of every reservation, cancellations included, as replay's seal *)
(* check and "run_until processes them at their boundary" have it.         *)
(***************************************************************************)
SealLeavesNoReservation ==
    [][sealed' # sealed => \A d \in pending : d.boundary > sealed']_vars

(***************************************************************************)
(* The promise of Timeline to sources and hosts, which knows nothing of    *)
(* the thread, its waves, its microsteps or its faults.  Cancellations     *)
(* are not part of it: they are reserved for sealed + 1.                   *)
(***************************************************************************)
Reached == [p \in Partitions |-> frontier[p].ns]

Awaiting ==
    {[cmd |-> d.cmd, boundary |-> d.boundary] : d \in CommandReservations}

Promise == INSTANCE Timeline WITH
    now <- cut.ns, reached <- Reached, closedTo <- watermark, awaiting <- Awaiting

PromiseKept == Promise!Spec

(***************************************************************************)
(* No wave carries a partition past the physical time of work it has not   *)
(* been dispatched.  Routing, lag, latching, partial waves and work that   *)
(* is admitted while a wave is selected all bear on it.                    *)
(***************************************************************************)
WorkAhead == \A w \in work : frontier[w.recipient].ns <= w.at.ns

(***************************************************************************)
(* The members of a cohort are always at one instant: safe sets, catch-up  *)
(* waves and reactive expansion never split it.                            *)
(***************************************************************************)
CohortsTogether ==
    \A K \in Cohorts : \A p, q \in K : frontier[p] = frontier[q]

\* An admitted command is published before its boundary is sealed over.
NoStrandedCommand == \A d \in CommandReservations : d.boundary > sealed

(***************************************************************************)
(* An instant is open beyond the seal only under a run limit that covers   *)
(* it, and a limit is retired once it is sealed: this is what lets submit  *)
(* take "no run limit" for "settled".                                      *)
(***************************************************************************)
LimitCoversOpenInstant ==
    (fault = None /\ ~closed /\ sealed >= 0) =>
        /\ cut.ns > sealed => (runTarget # None /\ cut.ns <= runTarget)
        /\ runTarget # None => runTarget > sealed

(***************************************************************************)
(* Time never runs backwards: the journal's instants, every partition's    *)
(* frontier, every closed prefix and the seal only move forward, through   *)
(* yields, replans, partial waves and faults.                              *)
(***************************************************************************)
TimeForward ==
    [][/\ AtOrBefore(cut, cut')
       /\ \A p \in Partitions : AtOrBefore(frontier[p], frontier'[p])
       /\ \A s \in Streams : watermark[s] <= watermark'[s]
       /\ sealed <= sealed']_vars

(***************************************************************************)
(* The coordinator's own selections always pass the validator of physical  *)
(* grants and of dispatch: no interleaving makes it ask for a grant it     *)
(* must refuse, unless the run was closed under it.                        *)
(***************************************************************************)
GrantsAreLegal == fault \in {"ADVANCE_GRANT", "DISPATCH_FRONTIER"} => closed

(***************************************************************************)
(* Sources may "close more partitions or admit earlier work while this     *)
(* wave is selected": such host input replans and never faults the run.    *)
(***************************************************************************)
HostInputNeverFaults == fault # "REACTIVE_READY"

(***************************************************************************)
(* Fairness of a conforming deployment: the execution thread is scheduled, *)
(* every source keeps closing its prefix, and host records do not land in  *)
(* every single poll of the thread.                                        *)
(***************************************************************************)
AdvanceStep == Advance \/ AdvanceNobody \/ AdvanceRefused
ReactStep == React \/ ReactRefused

Fairness ==
    /\ WF_vars(Execution)
    /\ SF_vars(GateProceed)
    /\ SF_vars(AdvanceStep)
    /\ SF_vars(ReactStep)
    /\ \A s \in Streams : WF_vars(\E n \in 1 .. MaxNs : AdvanceWatermark(s, n))

FairSpec == Spec /\ Fairness

\* A call of start() or run_until() comes back to its caller.
RunReturns == (pc \notin {"new", "idle"}) ~> (pc = "idle")
=============================================================================
