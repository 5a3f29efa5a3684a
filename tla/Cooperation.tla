----------------------------- MODULE Cooperation -----------------------------
(***************************************************************************)
(* The task engine of the low-altitude pack (packs/lowalt/tasks.py): jobs  *)
(* assigned to a fleet, priority preemption, and cooperation: a vehicle    *)
(* notices an incident, decides what to do, hands its job over to a helper *)
(* or suspends it, flies to the incident, and takes its job up again.      *)
(*                                                                         *)
(* One callback of the engine (on_inputs) is a wave of the kernel: it runs *)
(* from Commit to Commit, with everything in it in the order of the code,  *)
(* and its facts are committed together at the end.  A wave has receipts,  *)
(* then messages, then either the steps that an earlier wave has deferred  *)
(* or the timers of its instant, which may be a tick and bring a poll.     *)
(* The kernel refuses a wave that writes one fact twice, and an exception  *)
(* of the engine stops the run: both are a fault here.                     *)
(*                                                                         *)
(* Geography is free: batteries, distances, loads and open sites decide    *)
(* nondeterministically, wherever they are asked.  Left out are payloads,  *)
(* the kinds of work, food, rescue, mission control, operators, the end of *)
(* an incident (which changes a display), allocation by a model (jobs are  *)
(* allocated by an algorithm here), and a route that is not found while    *)
(* under way (the flight is planned again in the next poll).               *)
(***************************************************************************)
EXTENDS Naturals, Sequences, FiniteSets

CONSTANTS
    Fleet, Scene,   \* the vehicles and the incidents, in the order they are looked at
    Jobs,
    Policies,       \* configurations of the pack:
    \* agents      the roles ("responder", "helper") in which a model decides
    \* order       the order in which a responder that decides by rule prefers its options
    \* replace     require_replacement
    \* always      a helper that decides by rule accepts even when it is busy
    \* points      there are hand-over points
    \* hover       an incident is hovered over for some time
    \* protected, urgent     jobs that are not interrupted; that interrupt the others
    \* watchers, helpers, couriers     the vehicles that notice, that are asked, that get jobs
    \* jobs, incidents       those that there are
    \* trouble, hit     bounds: how many failed trips, interventions of control and holds
    \*                  there are, and the vehicles they happen to
    None

Vehicles == {Fleet[k] : k \in DOMAIN Fleet}
Incidents == {Scene[k] : k \in DOMAIN Scene}

Options == {"respond_now", "request_handoff", "finish_then_respond", "report_only"}

ASSUME NamesAssumption ==
    /\ Fleet \in Seq(Vehicles) /\ Scene \in Seq(Incidents)
    /\ \A k, l \in DOMAIN Fleet : Fleet[k] = Fleet[l] => k = l
    /\ None \notin Vehicles \cup Jobs \cup Options

ASSUME PoliciesAssumption == \A p \in Policies :
    /\ p.watchers \cup p.helpers \cup p.couriers \cup p.hit \subseteq Vehicles
    /\ p.order \in Seq(Options) /\ p.jobs \subseteq Jobs /\ p.trouble \in Nat

VARIABLES
    policy,
    state,      \* state[j]: lowalt.task_state
    flight,     \* flight[v]: see Parked
    incident,   \* incident[i]: see Pending
    asked,      \* coop_pending: <<incident, vehicle, role>>
    steps,      \* coop_steps, but for those that are due: <<incident, step>>
    \* the wave
    due,        \* the steps of coop_steps that are due in this wave
    stage,      \* "new", "receipts", "messages", then "deferred", or "timers" and "poll"
    turn,       \* where the poll is
    written,    \* the facts written so far
    resumed,    \* coop_resumed
    fault,      \* "none", "duplicate" (a fact is written twice) or "raised"
    trouble     \* failed trips and interventions so far

work == <<state, flight, incident>>
requests == <<asked, steps>>
wave == <<due, stage, turn>>
vars == <<policy, work, requests, wave, written, resumed, fault, trouble>>

Parked == [
    job |-> None, suspended |-> None,
    resume |-> None,      \* suspended_phase
    purpose |-> "task",   \* or "incident_response", "handoff_drop", "handoff_pickup"; or
                          \* under "control", "stranded" if it has no goal any more
    back |-> "task",      \* control_resume_purpose
    held |-> "no",        \* or by "weather", by "control", or for a "charge"
    leg |-> "idle"]       \* without a command; "there": without one, the goal is reached;
                          \* "moving", "braking" or, at the goal, "hovering" under one

Pending == [
    phase |-> "pending", responder |-> None, choice |-> None,
    dwell |-> "none",     \* "wait" for its own timer, "late": for an older one; "over"
    job |-> None, helper |-> None, point |-> FALSE,
    handoff |-> "idle",
    offers |-> <<>>]      \* of each candidate: "open", "yes", "no" or "failed"

Init ==
    /\ policy \in Policies
    /\ state = [j \in Jobs |-> "unreleased"]
    /\ flight = [v \in Vehicles |-> Parked]
    /\ incident = [i \in Incidents |-> Pending]
    /\ asked = {} /\ steps = {} /\ due = {} /\ stage = "new" /\ turn = 0
    /\ written = {} /\ resumed = {} /\ fault = "none" /\ trouble = 0

States == {"unreleased", "queued", "assigned", "started", "picked_up", "paused",
           "awaiting_transfer", "completed", "failed"}
Answers == {"open", "yes", "no", "failed"}
Steps == {"decide", "select", "start_helper", "response_due"}
Flights == [
    job : Jobs \cup {None}, suspended : Jobs \cup {None}, resume : States \cup {None},
    purpose : {"task", "incident_response", "handoff_drop", "handoff_pickup", "control",
               "stranded"},
    back : {"task", "incident_response", "handoff_drop", "handoff_pickup"},
    held : {"no", "weather", "control", "charge"},
    leg : {"idle", "there", "moving", "braking", "hovering"}]
Records == [
    phase : {"pending", "occurred", "noticed", "responding", "photographed", "reported",
             "decision_failed"},
    responder : Vehicles \cup {None}, choice : Options \cup {None},
    dwell : {"none", "wait", "late", "over"},
    job : Jobs \cup {None}, helper : Vehicles \cup {None}, point : BOOLEAN,
    handoff : {"idle", "requested", "accepted", "declined", "failed", "dropped", "transferred"},
    offers : UNION {[C -> Answers] : C \in SUBSET Vehicles}]

\* The types of the variables.
WorkTypes ==
    /\ state \in [Jobs -> States]
    /\ flight \in [Vehicles -> Flights]
    /\ incident \in [Incidents -> Records]
    /\ asked \subseteq Incidents \X Vehicles \X {"responder", "helper"}
    /\ steps \subseteq Incidents \X Steps
    /\ fault \in {"none", "duplicate", "raised"}
WaveTypes ==
    /\ policy \in Policies /\ due \subseteq Incidents \X Steps
    /\ stage \in {"new", "receipts", "messages", "deferred", "timers", "poll"}
    /\ turn \in Nat /\ resumed \subseteq Vehicles /\ trouble \in Nat
TypeOK == WorkTypes /\ WaveTypes

Busy(f) == f.leg \in {"moving", "braking", "hovering"}
Free(f) == f.job = None /\ f.purpose = "task"

Responding == {"incident_response", "handoff_drop", "handoff_pickup"}
Controlled == {"control", "stranded"}
Final == {"photographed", "reported", "decision_failed"}

\* What part v has in incident i, that keeps it from any other.
Engaged(i, v) ==
    \/ incident[i].responder = v /\ incident[i].phase \notin Final
    \/ incident[i].helper = v /\ incident[i].handoff \in {"accepted", "dropped"}
    \/ v \in DOMAIN incident[i].offers /\ incident[i].handoff = "requested"

\* _coop_reserved
Reserved(v) == \E i \in Incidents : Engaged(i, v)

\* A bug: that h takes part in another incident is overlooked.
CandidateAnyhow(i, h) == h # incident[i].responder /\ flight[h].suspended = None

\* _coop_candidate, but for its distance, battery and load.
Candidate(i, h) ==
    /\ h # incident[i].responder
    /\ \A o \in Incidents \ {i} : ~Engaged(o, h)
    /\ flight[h].suspended = None
-----------------------------------------------------------------------------
(* What the engine writes.                                                 *)

\* One task to one state; two tasks; no task at all.
To(j, s) == [x \in {j} |-> s]
Both(j, s, k, t) == [x \in {j, k} |-> IF x = j THEN s ELSE t]
Nothing == <<>>

\* The tasks in new get new states, and the other facts are written as well.
Write(new, facts) ==
    LET all == {<<"task", j>> : j \in DOMAIN new} \cup facts
    IN /\ state' = [j \in Jobs |-> IF j \in DOMAIN new THEN new[j] ELSE state[j]]
       /\ written' = written \cup all
       /\ fault' = IF all \cap written = {} THEN "none" ELSE "duplicate"

Raise == fault' = "raised" /\ UNCHANGED <<work, requests, written, resumed>>

\* v is now f, and takes part in i, which is now r.
Put(i, r, v, f) ==
    /\ incident' = [incident EXCEPT ![i] = r]
    /\ flight' = [flight EXCEPT ![v] = f]

\* _coop_begin_response: a job that is left is suspended.
Depart(f) ==
    [f EXCEPT !.suspended = IF f.job = None THEN @ ELSE f.job,
              !.resume = IF f.job = None THEN @ ELSE state[f.job],
              !.job = None, !.purpose = "incident_response", !.leg = "braking"]

Left(f) == IF f.job = None THEN Nothing ELSE To(f.job, "paused")
-----------------------------------------------------------------------------
(* Decisions.                                                              *)

\* _coop_options for a responder f of r, when its battery and its distance let it
\* respond, or not.
Allowed(r, f, able) ==
    LET mine == f.job # None
        bound == mine /\ (f.job \in policy.protected \/ f.suspended # None)
    IN {"report_only"} \cup {c \in Options :
           /\ able /\ f.purpose = "task" /\ f.held \notin {"weather", "charge"}
           /\ c = "respond_now" /\ mine => ~bound /\ ~policy.replace
           /\ c = "request_handoff" =>
                  /\ mine /\ ~bound
                  /\ state[f.job] \in {"assigned", "started", "picked_up"}
                  /\ policy.points \/ state[f.job] # "picked_up"
                  /\ r.handoff \notin {"declined", "failed"}
           /\ c = "finish_then_respond" => mine}

\* The whole order, and what is left of it after request_handoff.
Order == DOMAIN policy.order
AfterHandoff ==
    LET at == {k \in Order : policy.order[k] = "request_handoff"}
    IN {k \in Order \ at : at = {} \/ \E l \in at : l < k}

\* The first option of these that is allowed.
First(places, allowed) ==
    LET good == {k \in places : policy.order[k] \in allowed}
    IN IF good = {} THEN "report_only"
       ELSE policy.order[CHOOSE k \in good : \A l \in good : k <= l]

\* _coop_handoff: helpers are asked, or decide by rule at once.
Request(i, r, f, rest) ==
    \E C \in SUBSET {h \in policy.helpers : Candidate(i, h)} :
        LET s == [r EXCEPT !.choice = "request_handoff", !.job = f.job, !.handoff = "requested"]
        IN /\ \/ /\ "helper" \in policy.agents /\ C # {}
                 /\ incident' = [incident EXCEPT ![i] = [s EXCEPT !.offers = [h \in C |-> "open"]]]
                 /\ asked' = rest \cup {<<i, h, "helper">> : h \in C}
                 /\ UNCHANGED steps
              \/ /\ "helper" \notin policy.agents \/ C = {}
                 /\ incident' = [incident EXCEPT ![i] = [s EXCEPT !.offers =
                        [h \in C |-> IF policy.always \/ (Free(flight[h]) /\ flight[h].held # "charge")
                                     THEN "yes" ELSE "no"]]]
                 /\ asked' = rest
                 /\ steps' = steps \cup {<<i, "select">>}
           /\ Write(Nothing, {<<"handoff", i>>})
           /\ UNCHANGED flight

\* _coop_decide, once it is clear what to do: r is the incident so far, facts have been
\* written about it, and rest are the requests that are open.
Decide(i, r, c, facts, rest) ==
    LET v == r.responder
        f == flight[v]
        s == [r EXCEPT !.choice = c]
    IN \/ /\ c = "report_only"
          /\ Put(i, [s EXCEPT !.phase = "reported"], v, f)
          /\ Write(Nothing, facts \cup {<<"incident", i>>})
          /\ asked' = rest /\ UNCHANGED steps
       \/ /\ c = "respond_now"
          /\ Put(i, s, v, Depart(f))
          /\ Write(Left(f), facts)
          /\ asked' = rest /\ UNCHANGED steps
       \/ /\ c = "finish_then_respond"
          /\ Put(i, s, v, f)
          /\ Write(Nothing, facts)
          /\ asked' = rest /\ UNCHANGED steps
       \/ c = "request_handoff" /\ Request(i, r, f, rest)

\* A model is asked.
Ask(i, r, facts) ==
    /\ incident' = [incident EXCEPT ![i] = [r EXCEPT !.choice = None]]
    /\ asked' = asked \cup {<<i, r.responder, "responder">>}
    /\ Write(Nothing, facts)
    /\ UNCHANGED <<flight, steps>>

Prescribed(role) == role \notin policy.agents

\* _coop_input: a model has answered a responder, well or badly, or has failed.
ResponderReply(i) ==
    LET r == incident[i]
        rest == asked \ {<<i, r.responder, "responder">>}
    IN /\ rest # asked
       /\ \/ \E able \in BOOLEAN : \E c \in Allowed(r, flight[r.responder], able) :
                Decide(i, r, c, {}, rest)
          \/ /\ incident' = [incident EXCEPT ![i] = [r EXCEPT !.choice = None, !.phase = "decision_failed"]]
             /\ Write(Nothing, {<<"incident", i>>})
             /\ asked' = rest /\ UNCHANGED <<flight, steps>>

\* A model has answered a candidate: _coop_offer.
HelperReply(i, h) ==
    LET r == incident[i]
    IN /\ <<i, h, "helper">> \in asked /\ asked' = asked \ {<<i, h, "helper">>}
       /\ \E answer \in {"no", "failed"} \cup (IF Candidate(i, h) THEN {"yes"} ELSE {}) :
             LET offers == [r.offers EXCEPT ![h] = answer]
             IN /\ incident' = [incident EXCEPT ![i].offers = offers]
                /\ steps' = IF \E k \in DOMAIN offers : offers[k] = "open" THEN steps
                            ELSE steps \cup {<<i, "select">>}
       /\ UNCHANGED <<state, flight, written, fault>>

\* _coop_decide by rule, deferred from the wave that noticed the incident.
DecideStep(i) ==
    \E able \in BOOLEAN :
        Decide(i, incident[i],
               First(Order, Allowed(incident[i], flight[incident[i].responder], able)),
               {}, asked)

\* _coop_select, of the candidates that are near enough.
SelectStep(i) ==
    \E able, open \in BOOLEAN, near \in SUBSET DOMAIN incident[i].offers :
        LET r == incident[i]
            v == r.responder
            f == flight[v]
            accepted == {h \in near : r.offers[h] = "yes" /\ Candidate(i, h)}
            far == state[r.job] = "picked_up"
            failed == \E h \in DOMAIN r.offers : r.offers[h] = "failed"
            refused == [r EXCEPT !.handoff = IF failed THEN "failed" ELSE "declined"]
            facts == {<<"handoff", i>>}
        IN IF \/ f.job # r.job \/ "request_handoff" \notin Allowed(r, f, able)
              \/ accepted = {}
              \/ far /\ ~(open /\ policy.points)
           THEN IF Prescribed("responder")
                THEN Decide(i, refused, First(AfterHandoff, Allowed(refused, f, able)), facts, asked)
                ELSE Ask(i, refused, facts)
           ELSE \E h \in accepted :
                LET s == [r EXCEPT !.helper = h, !.point = far, !.handoff = "accepted"]
                IN /\ Put(i, s, v, IF far THEN [f EXCEPT !.purpose = "handoff_drop", !.leg = "braking"]
                                   ELSE Depart([f EXCEPT !.job = None]))
                   /\ Write(IF far THEN Nothing ELSE To(r.job, "paused"), facts)
                   /\ steps' = steps \cup {<<i, "start_helper">>}
                   /\ UNCHANGED asked

\* A bug: that the helper still has a job is overlooked.
AvailableParked(f) == ~Busy(f) /\ f.held # "charge"
Available(f) == Free(f) /\ ~Busy(f) /\ f.held # "charge"

\* _coop_start_helper, of a helper that is available, or not yet.
HelperStep(i) ==
    LET r == incident[i]
        f == flight[r.helper]
    IN IF ~Available(f) THEN UNCHANGED <<work, requests, written, fault>>
       ELSE /\ IF r.point
               THEN /\ Put(i, r, r.helper, [f EXCEPT !.purpose = "handoff_pickup", !.leg = "idle"])
                    /\ Write(Nothing, {})
               ELSE /\ Put(i, [r EXCEPT !.handoff = "transferred"], r.helper,
                           [f EXCEPT !.job = r.job, !.leg = "idle"])
                    /\ Write(To(r.job, "assigned"), {<<"handoff", i>>})
            /\ UNCHANGED requests
-----------------------------------------------------------------------------
(* Flights.                                                                *)

\* The first incident of a set.
Earliest(S) == Scene[CHOOSE k \in DOMAIN Scene :
                        Scene[k] \in S /\ \A l \in DOMAIN Scene : Scene[l] \in S => k <= l]

\* v, which is now f, after the tasks in new have changed.
Fly(v, f, new) ==
    /\ flight' = [flight EXCEPT ![v] = f]
    /\ Write(new, {})
    /\ UNCHANGED <<incident, requests>>

Helps(v) == {i \in Incidents : incident[i].helper = v /\ incident[i].handoff \in {"accepted", "dropped"}}
Owes(v) == {i \in Incidents : /\ incident[i].responder = v /\ incident[i].phase = "noticed"
                              /\ incident[i].choice = "finish_then_respond"}
FollowsUp(v, f) == Free(f) /\ Helps(v) \cup Owes(v) # {}

\* _coop_followup
FollowUp(v, f, new) ==
    LET i == Earliest(Helps(v) \cup Owes(v))
        r == incident[i]
    IN IF ~FollowsUp(v, f) THEN Fly(v, f, new)
       ELSE IF i \in Helps(v)
       THEN /\ flight' = [flight EXCEPT ![v] = f]
            /\ steps' = IF Busy(f) THEN steps ELSE steps \cup {<<i, "start_helper">>}
            /\ Write(new, {})
            /\ UNCHANGED <<incident, asked>>
       ELSE \/ f.held = "charge" /\ Fly(v, f, new)
            \/ /\ f.held # "charge"
               /\ Put(i, r, v, Depart(f))
               /\ Write(new, {})
               /\ UNCHANGED requests
            \/ /\ Prescribed("responder")
               /\ Put(i, [r EXCEPT !.choice = "report_only", !.phase = "reported"], v, f)
               /\ Write(new, {<<"incident", i>>})
               /\ UNCHANGED requests
            \/ /\ ~Prescribed("responder")
               /\ Put(i, [r EXCEPT !.choice = None], v, f)
               /\ asked' = asked \cup {<<i, v, "responder">>}
               /\ Write(new, {})
               /\ UNCHANGED steps

\* On the way.
Move(v) == Fly(v, [flight[v] EXCEPT !.leg = "moving"], Nothing)

\* At the incident: hover, then photograph, then go on with what was suspended.
Respond(v, i) ==
    LET r == incident[i]
        f == flight[v]
        home == [f EXCEPT !.purpose = "task", !.leg = "idle"]
        k == <<i, "response_due">>
    IN /\ UNCHANGED asked
       /\ \/ /\ f.leg # "there"
             /\ Put(i, [r EXCEPT !.dwell = "none"], v, [f EXCEPT !.leg = "moving"])
             /\ Write(Nothing, {})
             /\ UNCHANGED <<steps, resumed>>
          \/ /\ f.leg = "there" /\ r.dwell = "none"
             /\ Put(i, [r EXCEPT !.phase = "responding",
                                 !.dwell = IF ~policy.hover THEN "over"
                                           ELSE IF k \in steps \cup due' THEN "late" ELSE "wait"], v, f)
             /\ Write(Nothing, {<<"incident", i>>})
             /\ steps' = (steps \cup {k}) \ due' /\ UNCHANGED resumed
          \/ /\ f.leg = "there" /\ r.dwell = "over"
             /\ Put(i, [r EXCEPT !.phase = "photographed"], v,
                    IF f.suspended = None THEN home
                    ELSE [home EXCEPT !.job = f.suspended, !.suspended = None, !.resume = None])
             /\ Write(IF f.suspended = None THEN Nothing ELSE To(f.suspended, f.resume),
                      {<<"incident", i>>})
             /\ resumed' = IF f.suspended = None THEN resumed ELSE resumed \cup {v}
             /\ UNCHANGED steps
          \/ /\ f.leg = "there" /\ r.dwell \in {"wait", "late"}
             /\ UNCHANGED <<work, steps, written, resumed, fault>>

\* The requester leaves the parcel at the point.
Drop(v, i) ==
    LET f == flight[v]
    IN /\ IF f.leg # "there" THEN Move(v)
          ELSE /\ Put(i, [incident[i] EXCEPT !.handoff = "dropped"], v,
                      Depart([f EXCEPT !.job = None]))
               /\ Write(To(incident[i].job, "awaiting_transfer"), {<<"handoff", i>>})
               /\ UNCHANGED requests
       /\ UNCHANGED resumed

\* The helper waits for it there, until its state is committed.
Pickup(v, i) ==
    LET f == flight[v]
        j == incident[i].job
    IN /\ IF f.leg # "there" THEN Move(v)
          ELSE IF incident[i].handoff # "dropped" \/ <<"task", j>> \in written
          THEN Fly(v, f, Nothing)
          ELSE /\ Put(i, [incident[i] EXCEPT !.handoff = "transferred"], v,
                      [f EXCEPT !.job = j, !.purpose = "task", !.leg = "idle"])
               /\ Write(To(j, "picked_up"), {<<"handoff", i>>})
               /\ UNCHANGED requests
       /\ UNCHANGED resumed

\* _coop_flight: which incident the flight is about is looked up.
CoopFlight(v) ==
    LET p == flight[v].purpose
        about == {i \in Incidents :
            /\ (IF p = "handoff_pickup" THEN incident[i].helper ELSE incident[i].responder) = v
            /\ IF p = "incident_response" THEN incident[i].phase \in {"noticed", "responding"}
               ELSE incident[i].handoff \in {"accepted", "dropped"}}
        i == Earliest(about)
    IN IF about = {} \/ (p # "incident_response" /\ ~incident[i].point) THEN Raise
       ELSE \/ p = "incident_response" /\ Respond(v, i)
            \/ p = "handoff_drop" /\ Drop(v, i)
            \/ p = "handoff_pickup" /\ Pickup(v, i)

\* The rest of the loop of _poll, for a flight with a job of its own.
TaskFlight(v) ==
    LET f == flight[v]
        j == f.job
        next == [f EXCEPT !.job = f.suspended, !.suspended = None, !.resume = None, !.leg = "idle"]
    IN \/ /\ state[j] = "assigned"
          /\ \E l \in {"idle", "moving"} : Fly(v, [f EXCEPT !.leg = l], To(j, "started"))
       \/ /\ state[j] = "started" /\ f.leg = "there"
          /\ \E l \in {"idle", "moving"} : Fly(v, [f EXCEPT !.leg = l], To(j, "picked_up"))
       \/ /\ state[j] = "picked_up" /\ f.leg = "there"
          /\ FollowUp(v, next, IF f.suspended = None THEN To(j, "completed")
                               ELSE Both(j, "completed", f.suspended, f.resume))
       \/ state[j] # "assigned" /\ f.leg # "there" /\ Move(v)
-----------------------------------------------------------------------------
(* A wave: receipts, then messages, then timers or deferred steps, then    *)
(* perhaps a poll.                                                         *)

\* What a wave may have got to when it comes to s.
Before(s) == {"new", s} \cup CASE s = "receipts" -> {}
                               [] s = "messages" -> {"receipts"}
                               [] s \in {"timers", "deferred"} -> {"receipts", "messages"}

At(s) == fault = "none" /\ stage \in Before(s) /\ stage' = s /\ UNCHANGED policy

\* A brake has taken effect, or a trip, of one or several waypoints, has got to its goal.
Receipt(v) ==
    /\ At("receipts") /\ Busy(flight[v])
    /\ flight' = [flight EXCEPT ![v].leg = IF @ = "braking" THEN "idle" ELSE "there"]
    /\ UNCHANGED <<state, incident, requests, due, turn, written, resumed, fault, trouble>>

\* The trip fails: a trip about an incident is planned again, any other is over, and with it
\* the job.  Under control that strands the flight, even one that brings a parcel to a point.
TripFails(v) ==
    LET f == flight[v]
        over == f.purpose \notin Responding /\ f.job # None
    IN /\ At("receipts") /\ f.leg = "moving"
       /\ v \in policy.hit /\ trouble < policy.trouble /\ trouble' = trouble + 1
       /\ Fly(v, [f EXCEPT !.leg = "idle", !.job = IF over THEN None ELSE @,
                           !.purpose = IF @ = "control" THEN "stranded" ELSE @],
              IF over THEN To(f.job, "failed") ELSE Nothing)
       /\ UNCHANGED <<due, turn, resumed>>

\* _control: hold for a time, go on by a new route with or without a stop on the way
\* (reroute, or release and resume), or leave for a pad or another altitude.
Orders(f) ==
    LET stopped == [f EXCEPT !.leg = "braking"]
        resting == [f EXCEPT !.leg = IF @ \in {"there", "hovering"} THEN "hovering" ELSE "braking"]
    IN {stopped,
        [resting EXCEPT !.held = IF @ = "no" THEN "control" ELSE @],
        [stopped EXCEPT !.purpose = "control",
                        !.back = IF f.purpose \in Controlled THEN @ ELSE f.purpose]}
       \cup {[f EXCEPT !.leg = l, !.held = IF @ = "control" THEN "no" ELSE @] :
             l \in IF Busy(f) THEN (IF f.leg = "braking" THEN {} ELSE {"hovering"}) \cup {"braking"}
                   ELSE {"idle", f.leg}}

Control(v) ==
    /\ At("messages")
    /\ v \in policy.hit /\ trouble < policy.trouble /\ trouble' = trouble + 1
    /\ \E g \in Orders(flight[v]) : flight' = [flight EXCEPT ![v] = g]
    /\ UNCHANGED <<state, incident, requests, due, turn, written, resumed, fault>>

\* _restore_control: what was interrupted is planned again.
Restored(f) == [f EXCEPT !.purpose = f.back, !.back = "task",
                         !.leg = IF Busy(f) THEN "braking" ELSE "idle"]

\* _charging_finished
Charged(v) ==
    /\ At("messages") /\ flight[v].purpose \in Controlled
    /\ flight' = [flight EXCEPT ![v] = Restored(@)]
    /\ UNCHANGED <<state, incident, requests, due, turn, written, resumed, fault, trouble>>

Reply(i) ==
    /\ At("messages")
    /\ ResponderReply(i) \/ \E h \in DOMAIN incident[i].offers : HelperReply(i, h)
    /\ UNCHANGED <<due, turn, resumed, trouble>>

\* The timer of _coop_flight.
DueStep(i) ==
    LET v == incident[i].responder
    IN IF flight[v].purpose = "incident_response" /\ ~Busy(flight[v]) /\ flight[v].held = "no"
       THEN CoopFlight(v)
       ELSE UNCHANGED <<work, requests, written, resumed, fault>>

Clock(s) == s = "response_due" /\ policy.hover

\* A step that an earlier wave has deferred, or whose time has come.
Step(i, s) ==
    /\ <<i, s>> \in due /\ due' = due \ {<<i, s>>}
    /\ At(IF Clock(s) THEN "timers" ELSE "deferred")
    /\ \/ s = "decide" /\ DecideStep(i) /\ UNCHANGED resumed
       \/ s = "select" /\ SelectStep(i) /\ UNCHANGED resumed
       \/ s = "start_helper" /\ HelperStep(i) /\ UNCHANGED resumed
       \/ s = "response_due" /\ DueStep(i)
    /\ UNCHANGED <<turn, trouble>>

\* The weather or a charge holds v.
Hold(v) ==
    /\ fault = "none" /\ stage = "new"
    /\ flight[v].held = "no"
    /\ v \in policy.hit /\ trouble < policy.trouble /\ trouble' = trouble + 1
    /\ \E h \in {"weather", "charge"} : flight' = [flight EXCEPT ![v].held = h]
    /\ UNCHANGED <<policy, state, incident, requests, wave, written, resumed, fault>>

Unhold(v) ==
    /\ fault = "none" /\ stage = "new"
    /\ flight[v].held # "no" /\ flight' = [flight EXCEPT ![v].held = "no"]
    /\ UNCHANGED <<policy, state, incident, requests, wave, written, resumed, fault, trouble>>

\* Time passes: the timer of i is due, or i has been hovered over for long enough.
Elapse(i) ==
    LET k == <<i, "response_due">>
        r == incident[i]
    IN /\ fault = "none" /\ stage = "new" /\ policy.hover /\ \A d \in due : Clock(d[2])
       /\ \/ /\ k \in steps /\ steps' = steps \ {k} /\ due' = due \cup {k}
             /\ incident' = [incident EXCEPT ![i].dwell = IF @ = "wait" THEN "over" ELSE @]
          \/ /\ k \notin steps \cup due /\ r.dwell = "late"
             /\ incident' = [incident EXCEPT ![i].dwell = "over"]
             /\ UNCHANGED <<steps, due>>
       /\ UNCHANGED <<policy, state, flight, asked, stage, turn, written, resumed, fault, trouble>>

\* The scripted instant of i.
Occur(i) ==
    /\ At("timers") /\ \A d \in due : Clock(d[2])
    /\ i \in policy.incidents /\ incident[i].phase = "pending"
    /\ incident' = [incident EXCEPT ![i].phase = "occurred"]
    /\ Write(Nothing, {<<"incident", i>>})
    /\ UNCHANGED <<flight, requests, due, turn, resumed, trouble>>
-----------------------------------------------------------------------------
(* A poll, at a tick: _coop_tick, _preempt, the loop over the flights, and *)
(* the allocation, in turns.                                               *)

Fleets == Len(Fleet)
Preempting == Fleets + Len(Scene) + 1
Assigning == Preempting + Fleets + 1

\* It begins with the jobs that are released.
Poll ==
    /\ fault = "none" /\ stage \in {"new", "receipts", "messages", "timers"} /\ due = {}
    /\ stage' = "poll" /\ turn' = 1
    /\ Write([j \in {k \in policy.jobs : state[k] = "unreleased"} |-> "queued"], {})
    /\ UNCHANGED <<policy, flight, incident, requests, due, resumed, trouble>>

\* A bug: a flight without a job is passed over, whatever its purpose.
ActsOnJob(v) == LET f == flight[v] IN v \notin resumed /\ ~Busy(f) /\ f.job # None /\ f.held = "no"

\* The flights that the loop of the poll does not pass over.
Acts(v) == LET f == flight[v] IN v \notin resumed /\ ~Busy(f) /\ ~Free(f) /\ f.held = "no"

\* Up to turn t nobody is left who has something to do.
Past(t) ==
    /\ fault = "none" /\ stage = "poll" /\ turn <= t
    /\ \A k \in DOMAIN Fleet :
        /\ k \in turn .. t - 1 => ~FollowsUp(Fleet[k], flight[Fleet[k]])
        /\ Preempting + k \in turn .. t - 1 => ~Acts(Fleet[k])

Turn(t) == Past(t) /\ UNCHANGED <<policy, due, stage, trouble>>

FollowUpTurn(k) ==
    /\ Turn(k) /\ turn' = k + 1 /\ FollowsUp(Fleet[k], flight[Fleet[k]])
    /\ FollowUp(Fleet[k], flight[Fleet[k]], Nothing)
    /\ UNCHANGED resumed

\* A vehicle on watch notices an incident that had occurred before this wave.
Notice(k) ==
    LET i == Scene[k]
    IN /\ Turn(Fleets + k) /\ turn' = Fleets + k + 1
       /\ incident[i].phase = "occurred" /\ <<"incident", i>> \notin written
       /\ \E v \in {w \in policy.watchers : ~Reserved(w)} :
             LET r == [incident[i] EXCEPT !.responder = v, !.phase = "noticed"]
             IN IF Prescribed("responder")
                THEN /\ Put(i, r, v, flight[v])
                     /\ Write(Nothing, {<<"incident", i>>})
                     /\ steps' = steps \cup {<<i, "decide">>} /\ UNCHANGED asked
                ELSE Ask(i, r, {<<"incident", i>>})
       /\ UNCHANGED resumed

\* A bug: a state that this wave has written is taken for a committed one.
QueuedNow(j) == state[j] = "queued"
Queued(j) == state[j] = "queued" /\ <<"task", j>> \notin written

\* _preempt, of the flights that are near and able enough to take an urgent job over.
Preempt(j, v) ==
    LET f == flight[v]
    IN /\ Turn(Preempting) /\ turn' = Preempting /\ UNCHANGED resumed
       /\ j \in policy.urgent /\ Queued(j) /\ v \in policy.couriers
       /\ f.job \in Jobs \ policy.urgent /\ f.suspended = None /\ f.purpose = "task"
       /\ f.held # "weather" /\ ~Reserved(v)
       /\ Fly(v, [f EXCEPT !.suspended = f.job, !.resume = state[f.job], !.job = j, !.leg = "braking"],
              Both(f.job, "paused", j, "assigned"))

\* One flight.
FlightTurn(k) ==
    LET v == Fleet[k]
        f == flight[v]
    IN /\ Turn(Preempting + k) /\ Acts(v)
       /\ \/ f.purpose \in Responding /\ CoopFlight(v) /\ turn' = Preempting + k + 1
          \/ /\ \/ f.purpose = "task" /\ TaskFlight(v)
                \/ f.purpose = "control" /\ f.leg # "there" /\ Move(v)
             /\ turn' = Preempting + k + 1 /\ UNCHANGED resumed
          \/ f.purpose = "stranded" /\ Raise /\ turn' = Preempting + k + 1
          \/ /\ f.purpose = "control" /\ f.leg = "there"
             /\ \/ Fly(v, Restored(f), Nothing) /\ turn' = Preempting + k
                \/ turn' = Preempting + k + 1   \* its charge is waited for
                   /\ UNCHANGED <<work, requests, written, fault>>
             /\ UNCHANGED resumed

\* _assign, of a job that an allocator has given to a vehicle.
Assign(j, v) ==
    /\ Turn(Assigning) /\ turn' = Assigning /\ Queued(j)
    /\ Free(flight[v]) /\ ~Busy(flight[v]) /\ flight[v].held \notin {"weather", "charge"}
    /\ v \in policy.couriers /\ ~Reserved(v)
    /\ Fly(v, [flight[v] EXCEPT !.job = j, !.leg = "idle"], To(j, "assigned"))
    /\ UNCHANGED resumed

\* The callback returns, and its facts are committed.
Commit ==
    /\ fault = "none" /\ stage # "new"
    /\ stage = "poll" => Past(Assigning)
    /\ due = {}
    /\ LET later == {k \in steps : Clock(k[2])}
       IN due' = steps \ later /\ steps' = later
    /\ stage' = "new" /\ turn' = 0 /\ written' = {} /\ resumed' = {}
    /\ UNCHANGED <<policy, work, asked, fault, trouble>>

Next ==
    \/ Poll \/ Commit
    \/ \E k \in DOMAIN Fleet : FollowUpTurn(k) \/ FlightTurn(k)
    \/ \E k \in DOMAIN Scene : Notice(k)
    \/ \E v \in Vehicles : Receipt(v) \/ TripFails(v) \/ Control(v) \/ Charged(v)
                         \/ Hold(v) \/ Unhold(v)
    \/ \E i \in Incidents : Reply(i) \/ Elapse(i) \/ Occur(i)
    \/ \E i \in Incidents, s \in Steps : Step(i, s)
    \/ \E j \in Jobs, v \in Vehicles : Preempt(j, v) \/ Assign(j, v)

Spec == Init /\ [][Next]_vars

\* The engine gets a tick whenever nothing else is to be done, and returns from every
\* callback; trips, charges, holds and the hovering over an incident come to an end.
Engine ==
    \/ Poll \/ Commit
    \/ \E k \in DOMAIN Fleet : FollowUpTurn(k) \/ FlightTurn(k)
    \/ \E d \in due : Step(d[1], d[2])
World == (\E v \in Vehicles : Receipt(v) \/ Charged(v) \/ Unhold(v)) \/ \E i \in Incidents : Elapse(i)

FairSpec == Spec /\ WF_vars(Engine) /\ SF_vars(World)
-----------------------------------------------------------------------------
(* Properties.                                                             *)

\* The engine writes no fact twice in a wave, but for one case: the end of a response gives
\* a vehicle its suspended job back, and the poll of the same wave preempts that job for an
\* urgent one (_preempt does not look at coop_resumed).
DuplicateByPreemption == fault = "duplicate" => \E v \in resumed : flight[v].suspended # None

\* The engine raises nothing when its jobs are allocated by an algorithm, but in two cases:
\* of two hand-overs that one vehicle has asked for and that are both still under way,
\* _coop_flight takes the wrong one; and a trip under control has failed.
Overlapping(i, o) ==
    /\ i # o /\ incident[i].responder = incident[o].responder
    /\ {incident[i].handoff, incident[o].handoff} \subseteq {"accepted", "dropped"}
RaisedForReason ==
    fault = "raised" => \/ \E i, o \in Incidents : Overlapping(i, o)
                        \/ \E v \in Vehicles : flight[v].purpose = "stranded"

\* The run stops for these reasons only.
KnownFaults == DuplicateByPreemption /\ RaisedForReason

\* No vehicle is promised to two incidents, whether it responds, helps or is asked.
OnePart == \A v \in Vehicles : Cardinality({i \in Incidents : Engaged(i, v)}) <= 1

\* The hand-overs of j that have been agreed upon, and where j is.  It is "spoilt" when it has
\* failed on the way to the point, "lost" when nobody has it who should, and "twice" when
\* two have it.
Deals(j) == {i \in Incidents : incident[i].job = j /\ incident[i].handoff \in {"accepted", "dropped"}}
Taker(j) == IF Deals(j) = {} THEN None ELSE incident[Earliest(Deals(j))].helper

Place(j) ==
    LET doing == {v \in Vehicles : flight[v].job = j}
        keeping == {v \in Vehicles : flight[v].suspended = j}
        holders == doing \cup keeping
    IN IF holders = {}
       THEN IF state[j] \in {"unreleased", "queued"} THEN "queue"
            ELSE IF state[j] = "completed" THEN "over"
            ELSE IF state[j] = "failed" THEN IF Deals(j) = {} THEN "over" ELSE "spoilt"
            ELSE IF Deals(j) = {} THEN "lost" ELSE "between"
       ELSE IF \/ doing \cap keeping # {} \/ Cardinality(holders) > 1
               \/ state[j] \in {"unreleased", "queued", "completed", "failed"}
            THEN "twice" ELSE CHOOSE v \in holders : TRUE

\* A job is always with one vehicle, or on its way to the one that has agreed to take it, and
\* leaves a vehicle otherwise only when it is over, or has failed, whatever incidents,
\* preemptions, failures, interventions and answers come in between.
Promise == INSTANCE Custody WITH
    place <- [j \in Jobs |-> Place(j)], taker <- [j \in Jobs |-> Taker(j)]

CustodyKept == Promise!Spec

\* What a helper has agreed to take is on its way: it is at the point, or with the requester,
\* or waits for the helper where the requester was.
OnItsWay(i) ==
    LET r == incident[i]
    IN \/ r.handoff = "dropped"
       \/ r.handoff = "accepted" /\ (r.point => flight[r.responder].job = r.job)

\* Unless the run has stopped, and unless two agreements of one vehicle overlap, a helper
\* gets what it has agreed to take; and a vehicle that decides by rule sees an incident
\* that it has noticed through to its end.
CooperationEnds ==
    \A i \in Incidents :
        /\ OnItsWay(i) ~> \/ incident[i].handoff = "transferred" \/ fault # "none"
                          \/ \E o \in Incidents : Overlapping(i, o)
        /\ incident[i].phase = "noticed" /\ policy.agents = {} ~>
               incident[i].phase \in Final \/ fault # "none"
=============================================================================
