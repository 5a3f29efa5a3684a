------------------------ MODULE CooperationPromise ------------------------
(***************************************************************************)
(* What follows from the invariant of Cooperation about its steps: the     *)
(* engine raises for two reasons only, and writes a fact twice for one     *)
(* reason only, and Cooperation implements Custody.                        *)
(***************************************************************************)
EXTENDS CooperationProofs
-----------------------------------------------------------------------------
(* What the engine raises.                                                 *)

\* Whatever writes facts raises nothing.
LEMMA WriteCalm ==
    ASSUME NEW new, NEW facts, Write(new, facts)
    PROVE  fault' # "raised"
BY DEF Write

\* Nor does a flight,
LEMMA FlyCalm ==
    ASSUME NEW v, NEW f, NEW new, Fly(v, f, new)
    PROVE  fault' # "raised"
BY WriteCalm, Zenon DEF Fly

\* a decision,
LEMMA DecideCalm ==
    ASSUME NEW i, NEW r, NEW c, NEW facts, NEW rest, Decide(i, r, c, facts, rest)
    PROVE  fault' # "raised"
<1>1. Request(i, r, flight[r.responder], rest) => fault' # "raised"
  BY WriteCalm, Zenon DEF Request
<1>. QED
  BY <1>1, WriteCalm, Zenon DEF Decide

\* a question to a model,
LEMMA AskCalm ==
    ASSUME NEW i, NEW r, NEW facts, Ask(i, r, facts)
    PROVE  fault' # "raised"
BY WriteCalm, Zenon DEF Ask

\* what a vehicle follows up,
LEMMA FollowUpCalm ==
    ASSUME NEW v, NEW f, NEW new, FollowUp(v, f, new)
    PROVE  fault' # "raised"
BY FlyCalm, WriteCalm, Zenon DEF FollowUp

\* A flight about an incident raises only when its incident cannot be found, or is without
\* a point.
LEMMA CoopCalm ==
    ASSUME NEW v, fault = "none", CoopFlight(v), fault' = "raised"
    PROVE  /\ UNCHANGED work
           /\ \/ About(v, flight[v].purpose) = {}
              \/ /\ flight[v].purpose # "incident_response"
                 /\ ~incident[Earliest(About(v, flight[v].purpose))].point
<1>1. PICK i : /\ i = Earliest(About(v, flight[v].purpose))
               /\ \/ /\ Raise
                     /\ \/ About(v, flight[v].purpose) = {}
                        \/ flight[v].purpose # "incident_response" /\ ~incident[i].point
                  \/ Respond(v, i) \/ Drop(v, i) \/ Pickup(v, i)
  BY CoopCases, Zenon
<1>2. fault # "raised"
  OBVIOUS
<1>3. ~Move(v)
  BY FlyCalm, Zenon DEF Move
<1>4. ~Respond(v, i)
  BY <1>2, WriteCalm, Zenon DEF Respond
<1>5. ~Drop(v, i)
  BY <1>3, WriteCalm, Zenon DEF Drop
<1>6. ~Pickup(v, i)
  BY <1>3, FlyCalm, WriteCalm, Zenon DEF Pickup
<1>. QED
  BY <1>1, <1>4, <1>5, <1>6, Zenon DEF Raise

\* or a flight with a job.
LEMMA TaskCalm ==
    ASSUME NEW v, TaskFlight(v)
    PROVE  fault' # "raised"
BY FlyCalm, FollowUpCalm, Zenon DEF TaskFlight, Move

\* _coop_flight raises only when it takes an older hand-over without a point for the one that
\* the vehicle brings its parcel for.
LEMMA CoopRaises ==
    ASSUME IInv, NEW v \in Vehicles, fault = "none", CoopFlight(v), fault' = "raised",
           flight[v].purpose \in Responding
    PROVE  \E i, o \in Incidents : Overlapping(i, o)'
<1>1. PICK p : p = flight[v].purpose
  OBVIOUS
<1>2. PICK i : i = Earliest(About(v, p))
  OBVIOUS
<1>3. UNCHANGED work /\ (About(v, p) = {} \/ (p # "incident_response" /\ ~incident[i].point))
  BY <1>1, <1>2, CoopCalm, Zenon
<1>4. p # "incident_response"
  BY <1>1, <1>3, RightIncident
<1>5. p # "handoff_pickup"
  BY <1>1, <1>2, <1>3, RightIncident DEF Fetches
<1>6. p = "handoff_drop"
  BY <1>1, <1>4, <1>5 DEF Responding
<1>7. /\ About(v, p) # {} /\ About(v, p) \in SUBSET Incidents
      /\ \A q \in About(v, p) : incident[q].responder = v /\ Open(incident[q])
      /\ \E o \in About(v, p) : Drops(o, v)
  BY <1>1, <1>6, SomeDeal DEF About
<1>8. PICK o \in About(v, p) : Drops(o, v)
  BY <1>7
<1>9. i \in About(v, p)
  BY <1>2, <1>7, EarliestIn
<1>10. ~incident[i].point /\ incident[o].point
  BY <1>3, <1>7, <1>8 DEF Drops
<1>11. /\ i \in Incidents /\ o \in Incidents /\ i # o
       /\ incident[i].responder = incident[o].responder
       /\ {incident[i].handoff, incident[o].handoff} \subseteq {"accepted", "dropped"}
  BY <1>7, <1>8, <1>9, <1>10 DEF Open
<1>. QED
  BY <1>3, <1>11 DEF Overlapping, work

\* Of the steps that are due, only the timer of a response may come to _coop_flight.
LEMMA StepRaises ==
    ASSUME IInv, NEW i \in Incidents, NEW s \in Steps, Step(i, s), fault' = "raised"
    PROVE  RaisedForReason'
<1>1. /\ <<i, s>> \in due /\ fault = "none"
      /\ \/ DecideStep(i) \/ SelectStep(i) \/ HelperStep(i)
         \/ s = "response_due" /\ DueStep(i)
  BY Zenon DEF Step, At
<1>2. fault # "raised"
  BY <1>1
<1>3. ~DecideStep(i)
  BY DecideCalm, Zenon DEF DecideStep
<1>4. ~SelectStep(i)
  BY DecideCalm, AskCalm, WriteCalm, Zenon DEF SelectStep
<1>5. ~HelperStep(i)
  BY <1>2, WriteCalm, Zenon DEF HelperStep
<1>6. s = "response_due" /\ DueStep(i)
  BY <1>1, <1>3, <1>4, <1>5
<1>7. PICK v \in Vehicles : v = incident[i].responder
  BY <1>1, <1>6 DEF IInv, Dealings, IncidentsOK, StepsOK, Awaits
<1>8. flight[v].purpose = "incident_response" /\ CoopFlight(v)
  BY <1>2, <1>6, <1>7, Zenon DEF DueStep
<1>. QED
  BY <1>1, <1>8, CoopRaises DEF Responding, RaisedForReason

\* Whatever raises, raises for that reason, or because a vehicle is stranded.
LEMMA NextRaises ==
    ASSUME IInv, Next, fault' = "raised"
    PROVE  RaisedForReason'
<1>1. ~Poll
  BY WriteCalm, Zenon DEF Poll
<1>2. ~Commit
  BY DEF Commit
<1>3. ASSUME NEW k \in DOMAIN Fleet, FollowUpTurn(k) PROVE FALSE
  BY <1>3, FollowUpCalm, Zenon DEF FollowUpTurn
<1>4. ASSUME NEW k \in DOMAIN Fleet, FlightTurn(k) PROVE RaisedForReason'
  <2>1. PICK v \in Vehicles : v = Fleet[k]
    BY <1>4, Turns
  <2>2. fault = "none"
    BY <1>4, Zenon DEF FlightTurn, Turn, Past
  <2>3. fault # "raised"
    BY <2>2
  <2>4. \/ flight[v].purpose \in Responding /\ CoopFlight(v)
        \/ TaskFlight(v) \/ Move(v) \/ Fly(v, Restored(flight[v]), Nothing) \/ fault' = fault
        \/ flight[v].purpose = "stranded" /\ Raise
    BY <1>4, <2>1, Zenon DEF FlightTurn
  <2>5. ~Move(v)
    BY FlyCalm, Zenon DEF Move
  <2>6. CASE flight[v].purpose \in Responding /\ CoopFlight(v)
    BY <1>4, <2>2, <2>6, CoopRaises DEF RaisedForReason
  <2>7. CASE flight[v].purpose = "stranded" /\ Raise
    BY <2>7 DEF RaisedForReason, Raise, work
  <2>8. ~TaskFlight(v) /\ ~Fly(v, Restored(flight[v]), Nothing) /\ fault' # fault
    BY <2>3, TaskCalm, FlyCalm, Zenon
  <2>. QED
    BY <2>4, <2>5, <2>6, <2>7, <2>8
<1>5. ASSUME NEW k \in DOMAIN Scene, Notice(k) PROVE FALSE
  BY <1>5, AskCalm, WriteCalm, Zenon DEF Notice
<1>6. ASSUME NEW v \in Vehicles, TripFails(v) PROVE FALSE
  BY <1>6, FlyCalm, Zenon DEF TripFails
<1>7. ASSUME NEW v \in Vehicles, Receipt(v) \/ Control(v) \/ Charged(v) \/ Hold(v) \/ Unhold(v)
      PROVE  FALSE
  <2>1. fault = "none" /\ fault' = fault
    BY <1>7, Zenon DEF Receipt, Control, Charged, Hold, Unhold, At
  <2>. QED
    BY <2>1
<1>8. ASSUME NEW i \in Incidents, Reply(i) \/ Elapse(i) \/ Occur(i) PROVE FALSE
  <2>1. fault = "none"
    BY <1>8, Zenon DEF Reply, Elapse, Occur, At
  <2>2. fault # "raised"
    BY <2>1
  <2>3. ~Elapse(i)
    BY <2>2, Zenon DEF Elapse
  <2>4. ~Occur(i)
    BY WriteCalm, Zenon DEF Occur
  <2>5. ~ResponderReply(i)
    BY DecideCalm, WriteCalm, Zenon DEF ResponderReply
  <2>6. \A h : ~HelperReply(i, h)
    BY <2>2, Zenon DEF HelperReply
  <2>. QED
    BY <1>8, <2>3, <2>4, <2>5, <2>6, Zenon DEF Reply
<1>9. ASSUME NEW j \in Jobs, NEW v \in Vehicles, Preempt(j, v) \/ Assign(j, v) PROVE FALSE
  BY <1>9, FlyCalm, Zenon DEF Preempt, Assign
<1>. QED
  BY <1>1, <1>2, <1>3, <1>4, <1>5, <1>6, <1>7, <1>8, <1>9, StepRaises DEF Next

\* When jobs are allocated by an algorithm, the engine raises only when one vehicle is the
\* requester of two hand-overs that are both still under way, or when a trip under control has
\* failed.  So _coop_flight always finds an incident for a flight (its next(..) does not come
\* up empty), and its assertion that the incident has a point can fail only because another
\* hand-over, which has none, was found first.
THEOREM RaisesForTwoReasons == Spec => []RaisedForReason
<1>1. Init => RaisedForReason
  BY DEF Init, RaisedForReason
<1>2. IInv /\ RaisedForReason /\ [Next]_vars => RaisedForReason'
  <2>1. CASE Next /\ fault' = "raised"
    BY <2>1, NextRaises
  <2>2. CASE fault' # "raised"
    BY <2>2 DEF RaisedForReason
  <2>3. CASE UNCHANGED vars
    BY <2>3 DEF RaisedForReason, Overlapping, vars, work
  <2>. QED
    BY <2>1, <2>2, <2>3
<1>. QED
  BY <1>1, <1>2, CooperationInvariant, PTL DEF Spec

-----------------------------------------------------------------------------
(* What a wave has written.                                                *)

\* The wave goes on: its stages come in their order, and no step comes to be due.
Onward ==
    /\ stage' # "new"
    /\ stage' = "receipts" => stage \in {"new", "receipts"}
    /\ stage' = "messages" => stage \in {"new", "receipts", "messages"}
    /\ stage = "timers" => stage' \in {"timers", "poll"}
    /\ stage = "deferred" => stage' = "deferred"
    /\ stage = "poll" => stage' = "poll" /\ turn <= turn'
    /\ policy' = policy /\ due' \subseteq due

\* A vehicle that changes does not end the wait at its incident before its turn.
Waits(v, A) ==
    \/ Turned(v)' \/ flight[v].purpose # "incident_response" \/ stage \notin {"timers", "poll"}
    \/ \A o \in Incidents \ A : incident[o].responder = v => incident[o].phase # "responding"

\* The step writes the tasks in N and the facts in F, about the incidents in A and the
\* vehicles in B.
WrittenKept(A, B, N, F) ==
    /\ written' = written \cup {<<"task", j>> : j \in N} \cup F
    /\ resumed \subseteq resumed'
    /\ resumed' # resumed => stage' \in {"timers", "deferred", "poll"}
    /\ \A j \in Jobs \ N : state'[j] = state[j]
    /\ \A j \in N : state'[j] # "unreleased" /\ (stage' = "receipts" => state'[j] \in Loose)
    /\ F \subseteq {"handoff", "incident"} \X A
    /\ \A o \in Incidents \ A :
           /\ incident'[o] = incident[o] /\ \A j \in N : ~Deal(o, j)
           /\ Awaits(o, "response_due")' => Awaits(o, "response_due")
           /\ <<o, "response_due">> \in steps' => <<o, "response_due">> \in steps
    /\ \A w \in Vehicles \ B : flight'[w] = flight[w] /\ \A j \in N : ~Has(w, j)
    /\ \A i \in A : /\ HandoffOK(i)' /\ StageOK(i)' /\ PromptOK(i)'
                    /\ stage' = "poll" \/ incident'[i].responder = incident[i].responder
    /\ \A v \in B : HeldOK(v)' /\ Waits(v, A)

\* A vehicle gets to its goal only by a receipt, which it has only when it was under way.
Lands(v) ==
    /\ flight'[v].leg = "there" => flight[v].leg = "there" \/ stage' = "receipts"
    /\ stage' = "receipts" => Busy(flight[v]) \/ flight'[v] = flight[v]
Landings == \A v \in Vehicles : Lands(v)

\* Before and after a step, nothing was written twice.
Ready == IInv /\ IInv' /\ WrittenOK /\ fault = "none" /\ Landings
Once == WrittenOK' /\ fault' # "duplicate"

\* What is ready.
LEMMA ReadyFacts ==
    ASSUME Ready
    PROVE  /\ TypeOK /\ TypeOK' /\ IInv /\ IInv' /\ fault = "none" /\ WrittenOK
           /\ FreshOK /\ (\A v \in Vehicles : HeldOK(v) /\ FlightOK(flight[v]) /\ FlightOK(flight[v])')
           /\ \A i \in Incidents : HandoffOK(i) /\ StageOK(i) /\ PromptOK(i)
                                   /\ RecordOK(incident[i]) /\ StepsOK(i) /\ AskedOK(i)
BY DEF Ready, WrittenOK, IInv, CustodyOK, FlightsOK, Dealings, IncidentsOK

\* What was spoilt stays so, as long as its agreement stays as it is.
LEMMA SpoiltStays ==
    ASSUME Ready, Onward, NEW i \in Incidents, Open(incident[i]), Spoilt(i),
           Wrote(incident[i].job),
           incident'[i].handoff = incident[i].handoff, incident'[i].job = incident[i].job,
           incident'[i].responder = incident[i].responder, incident'[i].point = incident[i].point,
           state'[incident[i].job] = state[incident[i].job]
    PROVE  Spoilt(i)'
<1>1. incident[i].responder \in Vehicles
  BY ReadyFacts DEF RecordOK, Settled, Open, Live
<1>2. stage' = "receipts" => stage = "receipts"
  BY ReadyFacts DEF Onward, FreshOK, Wrote
<1>. QED
  BY <1>1, <1>2 DEF Spoilt, Ready, Landings, Lands, Busy

\* A vehicle that has had its turn has had it until the wave is over.
LEMMA TurnedFor ==
    ASSUME TypeOK, TypeOK', Onward, NEW v, Turned(v)
    PROVE  Turned(v)'
BY Turns DEF Turned, Onward, TypeOK, WaveTypes

\* A step that writes what WrittenKept says keeps WrittenOK.
LEMMA WrittenUpdate ==
    ASSUME Ready, Onward,
           NEW A \in SUBSET Incidents, NEW B \in SUBSET Vehicles, NEW N \in SUBSET Jobs, NEW F,
           WrittenKept(A, B, N, F)
    PROVE  WrittenOK'
<1>0. TypeOK /\ TypeOK' /\ IInv /\ FreshOK /\ (\A v \in Vehicles : HeldOK(v))
      /\ \A i \in Incidents : HandoffOK(i) /\ StageOK(i) /\ PromptOK(i)
  BY ReadyFacts
<1>1. \A j \in Jobs : Wrote(j)' <=> Wrote(j) \/ j \in N
  <2>1. \A j : <<"task", j>> \notin F
    BY DEF WrittenKept
  <2>. QED
    BY <2>1 DEF Wrote, WrittenKept
<1>2. \A v \in Vehicles : Turned(v) => Turned(v)'
  BY <1>0, TurnedFor
<1>3. FreshOK'
  <2>1. resumed' # {} => stage' \in {"timers", "deferred", "poll"}
    BY <1>0 DEF FreshOK, Onward, WrittenKept
  <2>2. ASSUME NEW j \in Jobs, Wrote(j)'
        PROVE  state'[j] # "unreleased" /\ (stage' = "receipts" => state'[j] \in Loose)
    <3>1. CASE j \in N
      BY <3>1 DEF WrittenKept
    <3>2. CASE j \notin N
      <4>1. Wrote(j) /\ state'[j] = state[j]
        BY <1>1, <2>2, <3>2 DEF WrittenKept
      <4>2. stage' = "receipts" => stage = "receipts"
        BY <1>0, <4>1 DEF FreshOK, Onward, Wrote
      <4>. QED
        BY <1>0, <4>1, <4>2 DEF FreshOK
    <3>. QED
      BY <3>1, <3>2
  <2>. QED
    BY <2>1, <2>2 DEF FreshOK, Onward
<1>4. ASSUME NEW v \in Vehicles, stage = "deferred", Decides(v)' PROVE Decides(v)
  BY <1>4 DEF Decides, WrittenKept, Onward
<1>5. ASSUME NEW v \in Vehicles PROVE HeldOK(v)'
  <2>1. CASE v \in B
    BY <2>1 DEF WrittenKept
  <2>2. CASE v \notin B
    <3>1. PICK f \in Flights : f = flight[v] /\ f = flight'[v] /\ HeldOK(v)
      BY <1>0, <2>2 DEF WrittenKept, TypeOK, WorkTypes
    <3>2. \A j \in N : j # f.job /\ j # f.suspended
      BY <2>2, <3>1 DEF WrittenKept, Has
    <3>3. f.job # None => (Wrote(f.job)' <=> Wrote(f.job))
      BY <1>1, <3>1, <3>2 DEF Flights
    <3>4. f.suspended # None => (Wrote(f.suspended)' <=> Wrote(f.suspended))
      BY <1>1, <3>1, <3>2 DEF Flights
    <3>5. stage = "deferred" /\ ~Decides(v) => stage' = "deferred" /\ ~Decides(v)'
      BY <1>4 DEF Onward
    <3>6. /\ stage \in {"timers", "poll"} /\ v \in resumed => stage' \in {"timers", "poll"} /\ v \in resumed'
          /\ stage = "poll" => stage' = "poll"
          /\ policy' = policy
      BY DEF Onward, WrittenKept
    <3>. QED
      BY <1>2, <3>1, <3>3, <3>4, <3>5, <3>6 DEF HeldOK
  <2>. QED
    BY <2>1, <2>2
<1>6. ASSUME NEW i \in Incidents PROVE HandoffOK(i)' /\ StageOK(i)' /\ PromptOK(i)'
  <2>1. CASE i \in A
    BY <2>1 DEF WrittenKept
  <2>2. CASE i \notin A
    <3>1. PICK r \in Records : r = incident[i] /\ r = incident'[i]
      BY <1>0, <2>2 DEF WrittenKept, TypeOK, WorkTypes
    <3>2. HandoffOK(i) /\ StageOK(i) /\ PromptOK(i)
      BY <1>0
    <3>3. /\ <<"handoff", i>> \in written' <=> <<"handoff", i>> \in written
          /\ <<"incident", i>> \in written' <=> <<"incident", i>> \in written
      BY <2>2 DEF WrittenKept
    <3>4. Open(r) => r.job \in Jobs /\ (Wrote(r.job)' <=> Wrote(r.job))
      <4>1. Open(r) => r.job \in Jobs /\ Deal(i, r.job)
        BY <1>0, <3>1 DEF IInv, Dealings, IncidentsOK, RecordOK, Settled, Open, Deal
      <4>. QED
        BY <1>1, <2>2, <4>1 DEF WrittenKept
    <3>5. r.phase \notin {"pending", "occurred"} => r.responder \in Vehicles
      BY <1>0, <3>1 DEF IInv, Dealings, IncidentsOK, RecordOK
    <3>6. Open(r) => r.responder \in Vehicles
      BY <1>0, <3>1, <3>5 DEF IInv, Dealings, IncidentsOK, RecordOK, Open
    <3>7. HandoffOK(i)'
      <4>1. \A s \in {"decide", "select", "start_helper"} : <<i, s>> \notin due => <<i, s>> \notin due'
        BY DEF Onward
      <4>2. <<"handoff", i>> \in written /\ stage' \in {"receipts", "messages"} =>
                stage \in {"receipts", "messages"}
        BY <1>0 DEF Onward, FreshOK
      <4>3. stage = "deferred" => stage' = "deferred"
        BY DEF Onward
      <4>4. Open(r) /\ Wrote(r.job) /\ Spoilt(i) => Spoilt(i)'
        <5>1. Open(r) => state'[r.job] = state[r.job]
          <6>1. Open(r) => r.job \in Jobs /\ Deal(i, r.job)
            BY <3>1, <3>4 DEF Deal
          <6>. QED
            BY <2>2, <6>1 DEF WrittenKept
        <5>. QED
          BY <3>1, <5>1, SpoiltStays
      <4>. QED
        BY <1>2, <3>1, <3>2, <3>3, <3>4, <3>6, <4>1, <4>2, <4>3, <4>4 DEF HandoffOK
    <3>8. StageOK(i)'
      <4>1. stage = "poll" => stage' = "poll"
        BY DEF Onward
      <4>2. /\ stage \in {"timers", "poll"} /\ r.phase = "responding"
            /\ flight[r.responder].purpose = "incident_response" /\ flight[r.responder].leg = "there"
            => Turned(r.responder)' \/ (stage' \in {"timers", "poll"} /\ flight'[r.responder] = flight[r.responder])
        <5>1. stage \in {"timers", "poll"} => stage' \in {"timers", "poll"}
          BY DEF Onward
        <5>2. r.phase = "responding" /\ r.responder \in B /\ stage \in {"timers", "poll"}
              /\ flight[r.responder].purpose = "incident_response" => Turned(r.responder)'
          BY <2>2, <3>1 DEF WrittenKept, Waits
        <5>3. r.phase = "responding" => r.responder \in Vehicles
          BY <3>5
        <5>. QED
          BY <5>1, <5>2, <5>3 DEF WrittenKept
      <4>. QED
        BY <1>2, <3>1, <3>2, <3>3, <3>5, <4>1, <4>2 DEF StageOK
    <3>9. PromptOK(i)'
      <4>1. Awaits(i, "response_due")' => Awaits(i, "response_due")
        BY <2>2 DEF WrittenKept
      <4>2. <<i, "response_due">> \in steps' => <<i, "response_due">> \in steps
        BY <2>2 DEF WrittenKept
      <4>. QED
        BY <1>2, <3>1, <3>2, <3>5, <4>1, <4>2 DEF PromptOK, Onward
    <3>. QED
      BY <3>7, <3>8, <3>9
  <2>. QED
    BY <2>1, <2>2
<1>. QED
  BY <1>3, <1>5, <1>6 DEF WrittenOK

\* What is new is written once.
LEMMA WroteNew ==
    ASSUME NEW new, NEW facts, Write(new, facts), \A j \in DOMAIN new : ~Wrote(j),
           \A x \in facts : x \notin written
    PROVE  fault' = "none" /\ written' = written \cup {<<"task", j>> : j \in DOMAIN new} \cup facts
<1>1. ({<<"task", j>> : j \in DOMAIN new} \cup facts) \cap written = {}
  BY DEF Wrote
<1>. QED
  BY <1>1 DEF Write

\* Only facts, and no task.
LEMMA WroteFacts ==
    ASSUME NEW facts, Write(Nothing, facts), \A x \in facts : x \notin written
    PROVE  fault' = "none" /\ written' = written \cup {<<"task", j>> : j \in {}} \cup facts
<1>1. DOMAIN Nothing = {}
  BY DEF Nothing
<1>2. {<<"task", j>> : j \in DOMAIN Nothing} = {<<"task", j>> : j \in {}}
  BY <1>1
<1>. QED
  BY <1>1, <1>2, WroteNew

\* One task.
LEMMA WroteTo ==
    ASSUME NEW k, NEW s, NEW facts, Write(To(k, s), facts), ~Wrote(k), \A x \in facts : x \notin written
    PROVE  fault' = "none" /\ written' = written \cup {<<"task", j>> : j \in {k}} \cup facts
<1>1. DOMAIN To(k, s) = {k}
  BY DEF To
<1>. QED
  BY <1>1, WroteNew

\* Two tasks.
LEMMA WroteBoth ==
    ASSUME NEW k, NEW s, NEW l, NEW t, NEW facts, Write(Both(k, s, l, t), facts),
           ~Wrote(k), ~Wrote(l), \A x \in facts : x \notin written
    PROVE  fault' = "none" /\ written' = written \cup {<<"task", j>> : j \in {k, l}} \cup facts
<1>1. DOMAIN Both(k, s, l, t) = {k, l}
  BY DEF Both
<1>. QED
  BY <1>1, WroteNew

\* Only the vehicle that has a job can write it for its own sake, and no agreement is about it.
LEMMA HeldAlone ==
    ASSUME IInv, NEW v \in Vehicles, NEW j \in Jobs, Has(v, j), Part(flight[v]) # "handoff_drop"
    PROVE  /\ \A w \in Vehicles \ {v} : ~Has(w, j)
           /\ \A o \in Incidents : ~Deal(o, j)
BY HeldJob DEF IInv, CustodyOK, DealsOK, DealOK

\* What a vehicle has was not written before its turn, unless it was resumed or preempted.
LEMMA HeldNew ==
    ASSUME Ready, NEW v \in Vehicles, NEW f, f = flight[v]
    PROVE  /\ ~Turned(v) /\ ~Busy(f) /\ f.suspended # None => ~Wrote(f.suspended)
           /\ ~Turned(v) /\ ~Busy(f) /\ stage = "poll" /\ v \notin resumed /\ f.job # None => ~Wrote(f.job)
           /\ stage \in {"new", "receipts", "messages"} /\ f.job # None => ~Wrote(f.job)
           /\ stage \in {"new", "receipts"} /\ f.suspended # None => ~Wrote(f.suspended)
<1>1. HeldOK(v) /\ FreshOK /\ FlightOK(f) /\ TypeOK
  BY ReadyFacts
<1>2. f \in Flights
  BY <1>1 DEF TypeOK, WorkTypes
<1>3. stage \in {"new", "receipts"} /\ f.suspended # None => ~Wrote(f.suspended)
  <2>1. f.suspended # None => f.suspended \in Jobs /\ state[f.suspended] \notin Loose
    BY <1>1, <1>2 DEF Flights, FlightOK, Loose
  <2>. QED
    BY <1>1, <2>1 DEF FreshOK, Wrote
<1>. QED
  BY <1>1, <1>3 DEF HeldOK, Turned

\* An action of another stage than the poll, and one of a poll, go on.
LEMMA AtOnward ==
    ASSUME NEW s \in {"receipts", "messages", "timers", "deferred"}, At(s), due' \subseteq due
    PROVE  Onward /\ fault = "none" /\ stage' = s /\ stage \in Before(s)
BY DEF At, Onward, Before

\* So does a turn of a poll.
LEMMA TurnOnward ==
    ASSUME IInv, NEW t \in Nat, Turn(t), NEW u \in {t, t + 1}, turn' = u
    PROVE  Onward /\ fault = "none" /\ stage = "poll" /\ stage' = "poll" /\ due = {} /\ turn <= t
<1>1. turn \in Nat
  BY DEF IInv, TypeOK, WaveTypes
<1>2. /\ policy' = policy /\ due' = due /\ due = {} /\ stage' = stage /\ stage = "poll"
      /\ fault = "none"
  BY TurnEffect
<1>3. turn <= t
  BY DEF Turn, Past
<1>4. turn <= turn'
  BY <1>1, <1>3
<1>5. Onward
  BY <1>2, <1>4 DEF Onward
<1>. QED
  BY <1>2, <1>3, <1>5

\* A poll releases jobs, which were not written.
LEMMA PollOnce ==
    ASSUME Ready, Poll
    PROVE  Once
<1> DEFINE N == {j \in Jobs : j \in policy.jobs /\ state[j] = "unreleased"}
           new == [j \in {k \in policy.jobs : state[k] = "unreleased"} |-> "queued"]
<1>0. TypeOK /\ TypeOK' /\ FreshOK /\ policy.jobs \subseteq Jobs
  BY ReadyFacts, PoliciesAssumption DEF TypeOK, WaveTypes
<1>1. Write(new, {}) /\ stage' = "poll" /\ stage \in {"new", "receipts", "messages", "timers"} /\ due = {}
      /\ UNCHANGED <<policy, flight, incident, requests, due, resumed, trouble>>
  BY Zenon DEF Poll
<1>2. DOMAIN new = N
  BY <1>0
<1>3. \A j \in N : ~Wrote(j)
  BY <1>0 DEF FreshOK
<1>4. fault' = "none" /\ written' = written \cup {<<"task", j>> : j \in N} \cup {}
  <2>. HIDE DEF new, N
  <2>. QED
    BY <1>1, <1>2, <1>3, WroteNew
<1>5. \A j \in Jobs : state'[j] = IF j \in N THEN "queued" ELSE state[j]
  BY <1>1, <1>2 DEF Write
<1>6. Onward
  BY <1>1 DEF Onward
<1>7. ASSUME NEW j \in N PROVE (\A w \in Vehicles : ~Has(w, j)) /\ \A o \in Incidents : ~Deal(o, j)
  <2>1. state[j] = "unreleased"
    OBVIOUS
  <2>2. \A w \in Vehicles : ~Has(w, j)
    BY <2>1, HeldJob DEF Active, Ready
  <2>. QED
    BY <2>1, <2>2 DEF Ready, IInv, CustodyOK, DealsOK, DealOK, Goes, Loose
<1>8. WrittenKept({}, {}, N, {})
  <2>1. N \in SUBSET Jobs
    OBVIOUS
  <2>. HIDE DEF N
  <2>. QED
    BY <2>1, <1>1, <1>4, <1>5, <1>7 DEF WrittenKept, requests, Awaits
<1>9. WrittenOK'
  <2>1. N \in SUBSET Jobs
    OBVIOUS
  <2>. HIDE DEF N
  <2>. QED
    BY <1>0, <1>6, <1>8, <2>1, WrittenUpdate DEF Ready
<1>. QED
  BY <1>4, <1>9 DEF Once

\* A wave that is committed leaves nothing written.
LEMMA CommitOnce ==
    ASSUME Ready, Commit
    PROVE  Once
<1>0. TypeOK /\ TypeOK' /\ FreshOK
      /\ \A i \in Incidents : HandoffOK(i) /\ StageOK(i) /\ PromptOK(i)
  BY ReadyFacts
<1> DEFINE later == {k \in steps : Clock(k[2])}
<1>1. /\ stage' = "new" /\ written' = {} /\ resumed' = {} /\ due = {}
      /\ due' = steps \ later /\ steps' = later
      /\ UNCHANGED <<policy, work, asked, fault, trouble>> /\ fault = "none"
  BY DEF Commit
<1>2. ASSUME NEW i \in Incidents PROVE HandoffOK(i)' /\ StageOK(i)' /\ PromptOK(i)'
  <2>1. HandoffOK(i)'
    BY <1>1 DEF HandoffOK, Wrote
  <2>2. StageOK(i)'
    BY <1>0, <1>1 DEF StageOK, work
  <2>3. PromptOK(i)'
    <3>1. ~policy.hover => <<i, "response_due">> \notin steps'
      BY <1>1 DEF Clock
    <3>2. <<i, "response_due">> \in due' => Awaits(i, "response_due")
      BY <1>1 DEF Awaits
    <3>. QED
      BY <1>0, <1>1, <3>1, <3>2 DEF PromptOK, Awaits, work
  <2>. QED
    BY <2>1, <2>2, <2>3
<1>3. FreshOK' /\ \A v \in Vehicles : HeldOK(v)'
  BY <1>1 DEF FreshOK, HeldOK, Wrote
<1>. QED
  BY <1>1, <1>2, <1>3 DEF Once, WrittenOK

\* A vehicle changes, and nothing else, before the poll or in it.
LEMMA VehicleOnly ==
    ASSUME Ready, Onward, NEW v \in Vehicles, \A w \in Vehicles \ {v} : flight'[w] = flight[w],
           written' = written, resumed' = resumed, state' = state, incident' = incident,
           steps' = steps, HeldOK(v)',
           Turned(v)' \/ flight[v].purpose # "incident_response" \/ stage \notin {"timers", "poll"}
    PROVE  WrittenOK'
<1>1. \A i \in Incidents : Awaits(i, "response_due")' => Awaits(i, "response_due")
  BY DEF Awaits, Onward
<1>2. WrittenKept({}, {v}, {}, {})
  BY <1>1 DEF WrittenKept, Waits
<1>. QED
  BY <1>2, WrittenUpdate DEF Ready, IInv

\* A receipt.
LEMMA ReceiptOnce ==
    ASSUME Ready, NEW v \in Vehicles, Receipt(v)
    PROVE  Once
<1> DEFINE f == flight[v]
           g == [f EXCEPT !.leg = IF @ = "braking" THEN "idle" ELSE "there"]
<1>1. /\ At("receipts") /\ flight' = [flight EXCEPT ![v] = g]
      /\ UNCHANGED <<state, incident, requests, due, turn, written, resumed, fault, trouble>>
  BY Zenon DEF Receipt, f, g
<1>2. Onward /\ fault = "none" /\ stage' = "receipts" /\ stage \in {"new", "receipts"}
  BY <1>1, AtOnward DEF Before
<1>3. flight \in [Vehicles -> Flights]
  BY ReadyFacts DEF TypeOK, WorkTypes
<1>4. g.job = f.job /\ g.suspended = f.suspended
  BY <1>3 DEF Flights
<1>. HIDE DEF g
<1>5. flight'[v] = g /\ \A w \in Vehicles \ {v} : flight'[w] = flight[w]
  BY <1>1, <1>3
<1>6. (f.job # None => ~Wrote(f.job)) /\ (f.suspended # None => ~Wrote(f.suspended))
  BY <1>2, HeldNew
<1>7. HeldOK(v)'
  BY <1>1, <1>4, <1>5, <1>6 DEF HeldOK, Wrote
<1>8. WrittenOK'
  BY <1>1, <1>2, <1>5, <1>7, VehicleOnly DEF requests
<1>. QED
  BY <1>1, <1>2, <1>8 DEF Once

\* Control, and a charge that is over, come before anything that a vehicle has was written;
\* control brakes, and a vehicle that brakes goes on braking.
LEMMA MessageOnce ==
    ASSUME Ready, At("messages"), NEW v \in Vehicles, NEW f, f = flight[v], NEW g,
           g.job = f.job, g.suspended = f.suspended, Busy(g) \/ ~Busy(f),
           flight' = [flight EXCEPT ![v] = g],
           UNCHANGED <<state, incident, requests, due, turn, written, resumed, fault>>
    PROVE  Once
<1>1. Onward /\ fault = "none" /\ stage' = "messages" /\ stage \in {"new", "receipts", "messages"}
  BY AtOnward DEF Before
<1>2. flight \in [Vehicles -> Flights]
  BY ReadyFacts DEF TypeOK, WorkTypes
<1>3. flight'[v] = g /\ \A w \in Vehicles \ {v} : flight'[w] = flight[w]
  BY <1>2
<1>4. /\ f.job # None => ~Wrote(f.job)
      /\ ~Busy(f) /\ f.suspended # None => ~Wrote(f.suspended)
  BY <1>1, HeldNew DEF Turned
<1>5. HeldOK(v)'
  BY <1>3, <1>4 DEF HeldOK, Wrote
<1>6. WrittenOK'
  BY <1>1, <1>3, <1>5, VehicleOnly DEF requests
<1>. QED
  BY <1>1, <1>6 DEF Once

\* A hold, a reroute or a diversion.
LEMMA ControlOnce ==
    ASSUME Ready, NEW v \in Vehicles, Control(v)
    PROVE  Once
<1>1. PICK f \in Flights : f = flight[v]
  BY ReadyFacts DEF TypeOK, WorkTypes
<1>2. /\ At("messages")
      /\ UNCHANGED <<state, incident, requests, due, turn, written, resumed, fault>>
      /\ \E g \in Orders(f) : flight' = [flight EXCEPT ![v] = g]
  BY <1>1, Zenon DEF Control
<1>3. PICK g \in Orders(f) : flight' = [flight EXCEPT ![v] = g]
  BY <1>2, Zenon
<1>4. g.job = f.job /\ g.suspended = f.suspended
  BY OrdersEffect
<1>5. Busy(g) \/ ~Busy(f)
  BY DEF Orders, Flights, Busy
<1>. QED
  BY <1>1, <1>2, <1>3, <1>4, <1>5, MessageOnce

\* The end of a charge.
LEMMA ChargedOnce ==
    ASSUME Ready, NEW v \in Vehicles, Charged(v)
    PROVE  Once
<1>1. PICK f \in Flights : f = flight[v]
  BY ReadyFacts DEF TypeOK, WorkTypes
<1>2. /\ At("messages") /\ flight' = [flight EXCEPT ![v] = Restored(f)]
      /\ UNCHANGED <<state, incident, requests, due, turn, written, resumed, fault>>
  BY <1>1, Zenon DEF Charged
<1>3. /\ Restored(f).job = f.job /\ Restored(f).suspended = f.suspended
      /\ Busy(Restored(f)) \/ ~Busy(f)
  BY <1>1 DEF Flights, Busy, Restored
<1>. QED
  BY <1>1, <1>2, <1>3, MessageOnce

\* Between two waves nothing is written.
LEMMA BetweenWaves ==
    ASSUME Ready, stage = "new", stage' = "new", written' = written, resumed' = resumed,
           policy' = policy, fault' = fault,
           \A i \in Incidents :
               /\ incident'[i].phase = incident[i].phase /\ incident'[i].choice = incident[i].choice
               /\ incident'[i].handoff = incident[i].handoff
               /\ policy.hover \/ (incident'[i] = incident[i] /\ steps' = steps /\ due' = due)
    PROVE  Once
<1>1. written' = {} /\ resumed' = {}
  BY ReadyFacts DEF FreshOK
<1>2. ASSUME NEW i \in Incidents PROVE HandoffOK(i)' /\ StageOK(i)' /\ PromptOK(i)'
  <2>0. HandoffOK(i) /\ StageOK(i) /\ PromptOK(i)
    BY ReadyFacts
  <2>1. HandoffOK(i)'
    BY <1>1 DEF HandoffOK, Wrote
  <2>2. StageOK(i)'
    BY <1>1, <2>0 DEF StageOK
  <2>3. PromptOK(i)'
    <3>1. ~Turned(incident[i].responder)
      BY DEF Turned
    <3>. QED
      BY <2>0, <3>1 DEF PromptOK, Awaits
  <2>. QED
    BY <2>1, <2>2, <2>3
<1>3. FreshOK' /\ \A v \in Vehicles : HeldOK(v)'
  BY <1>1 DEF FreshOK, HeldOK, Wrote
<1>. QED
  BY <1>2, <1>3, ReadyFacts DEF Once, WrittenOK

\* The weather or a charge comes between waves.
LEMMA HoldOnce ==
    ASSUME Ready, NEW v \in Vehicles, Hold(v) \/ Unhold(v)
    PROVE  Once
<1>1. /\ stage = "new"
      /\ UNCHANGED <<policy, state, incident, requests, wave, written, resumed, fault>>
  BY Zenon DEF Hold, Unhold
<1>. QED
  BY <1>1, BetweenWaves DEF requests, wave

\* Time passes between waves.
LEMMA ElapseOnce ==
    ASSUME Ready, NEW i \in Incidents, Elapse(i)
    PROVE  Once
<1>1. /\ stage = "new" /\ policy.hover
      /\ UNCHANGED <<policy, state, flight, asked, stage, turn, written, resumed, fault, trouble>>
      /\ incident' = [incident EXCEPT ![i].dwell = IF @ = "wait" THEN "over" ELSE @]
         \/ incident' = [incident EXCEPT ![i].dwell = "over"]
  BY Zenon DEF Elapse
<1>2. incident \in [Incidents -> Records]
  BY ReadyFacts DEF TypeOK, WorkTypes
<1>3. \A o \in Incidents :
          /\ incident'[o].phase = incident[o].phase /\ incident'[o].choice = incident[o].choice
          /\ incident'[o].handoff = incident[o].handoff
  BY <1>1, <1>2 DEF Records
<1>. QED
  BY <1>1, <1>3, BetweenWaves

\* A trip that fails ends a job that was not written.
LEMMA TripFailsOnce ==
    ASSUME Ready, NEW v \in Vehicles, TripFails(v)
    PROVE  Once
<1>0. PICK f \in Flights : f = flight[v] /\ FlightOK(f)
  BY ReadyFacts DEF TypeOK, WorkTypes
<1> DEFINE over == f.purpose \notin Responding /\ f.job # None
           g == [f EXCEPT !.leg = "idle", !.job = IF over THEN None ELSE @,
                          !.purpose = IF @ = "control" THEN "stranded" ELSE @]
           N == IF over THEN {f.job} ELSE {}
<1>1. /\ At("receipts") /\ Fly(v, g, IF over THEN To(f.job, "failed") ELSE Nothing)
      /\ f.leg = "moving" /\ UNCHANGED <<due, turn, resumed>>
  BY <1>0, Zenon DEF TripFails, over, g
<1>2. Onward /\ fault = "none" /\ stage' = "receipts" /\ stage \in {"new", "receipts"}
  BY <1>1, AtOnward DEF Before
<1>3. /\ g \in Flights /\ g.job = (IF over THEN None ELSE f.job) /\ g.suspended = f.suspended
      /\ g.leg = "idle"
  <2>1. f \in Flights
    OBVIOUS
  <2>. QED
    BY <2>1, ZenonT(40) DEF Flights
<1>. HIDE DEF g
<1>4. /\ flight'[v] = g /\ \A w \in Vehicles \ {v} : flight'[w] = flight[w]
      /\ Write(IF over THEN To(f.job, "failed") ELSE Nothing, {})
      /\ incident' = incident /\ steps' = steps
  BY <1>1, <1>3, FlyEffect DEF Ready, IInv
<1>5. (f.job # None => ~Wrote(f.job)) /\ (f.suspended # None => ~Wrote(f.suspended))
  BY <1>0, <1>2, HeldNew
<1>6. /\ fault' = "none" /\ written' = written \cup {<<"task", j>> : j \in N} \cup {}
      /\ \A j \in Jobs : state'[j] = IF j \in N THEN "failed" ELSE state[j]
  <2>1. CASE over
    <3>1. state' = [j \in Jobs |-> IF j \in {f.job} THEN "failed" ELSE state[j]]
      BY <1>4, <2>1, WriteTo, ReadyFacts DEF Write, To
    <3>. QED
      BY <1>4, <1>5, <2>1, <3>1, WroteTo
  <2>2. CASE ~over
    BY <1>4, <2>2, WroteFacts, WriteNothing, ReadyFacts
  <2>. QED
    BY <2>1, <2>2
<1>7. N \in SUBSET Jobs /\ (f.suspended # None => f.suspended \notin N)
  BY <1>0 DEF Flights, FlightOK, Active
<1>8. \A j \in N : j = f.job /\ j \in Jobs /\ Has(v, j) /\ state'[j] = "failed"
  BY <1>0, <1>6, <1>7 DEF Has
<1>9. \A j \in N : \A w \in Vehicles \ {v} : ~Has(w, j)
  BY <1>8, HeldJob DEF Ready
<1> DEFINE A == {i \in Incidents : \E j \in N : Deal(i, j)}
<1>10. \A o \in Incidents \ A, j \in N : ~Deal(o, j)
  OBVIOUS
<1>11. \A i \in A : i \in Incidents /\ Deal(i, f.job) /\ f.job \in N
  BY <1>8
<1>. HIDE DEF N, A
<1>13. (f.suspended # None => ~Wrote(f.suspended)') /\ (g.job # None => ~Wrote(g.job)')
  <2>1. \A j : j \notin N /\ ~Wrote(j) => ~Wrote(j)'
    BY <1>6 DEF Wrote
  <2>2. g.job # None => g.job = f.job /\ g.job \notin N
    BY <1>3 DEF N
  <2>. QED
    BY <1>5, <1>7, <2>1, <2>2
<1>14. HeldOK(v)'
  BY <1>3, <1>4, <1>13 DEF HeldOK
<1>15. \A i \in Incidents : Awaits(i, "response_due")' => Awaits(i, "response_due")
  BY <1>1, <1>4 DEF Awaits
<1>16. ASSUME NEW i \in A PROVE HandoffOK(i)' /\ StageOK(i)' /\ PromptOK(i)'
  <2>1. HandoffOK(i) /\ StageOK(i) /\ PromptOK(i) /\ FreshOK
    BY <1>11, ReadyFacts
  <2>2. incident[i].job = f.job /\ incident[i].responder = v /\ incident[i].point
        /\ incident[i].handoff = "accepted"
    <3>1. \A j \in Jobs : Deal(i, j) => Goes(i, j)'
      BY <1>4, <1>11 DEF Ready, IInv, CustodyOK, DealsOK, DealOK, Deal
    <3>2. Goes(i, f.job) /\ incident[i].responder = v /\ incident[i].point
      BY <1>8, <1>11 DEF Ready, IInv, CustodyOK, DealsOK, DealOK
    <3>3. state'[f.job] = "failed" /\ f.job \in Jobs
      BY <1>8, <1>11
    <3>4. incident[i].job = f.job /\ incident[i].handoff = "accepted"
      BY <1>4, <1>11, <3>1, <3>3 DEF Goes, Loose, Deal
    <3>. QED
      BY <3>2, <3>4
  <2>3. Spoilt(i)'
    BY <1>3, <1>4, <1>8, <1>11, <2>2 DEF Spoilt
  <2>4. <<"handoff", i>> \notin written'
    BY <1>2, <1>6, <2>1, <2>2 DEF HandoffOK, FreshOK
  <2>5. HandoffOK(i)'
    BY <2>3, <2>4 DEF HandoffOK
  <2>6. StageOK(i)'
    BY <1>2, <1>4, <1>6, <2>1 DEF StageOK, FreshOK, Turned
  <2>7. PromptOK(i)'
    BY <1>2, <1>4, <1>11, <1>15, <2>1 DEF PromptOK, Onward, Turned
  <2>. QED
    BY <2>5, <2>6, <2>7
<1>17. WrittenKept(A, {v}, N, {})
  <2>1. Waits(v, A)
    BY <1>2 DEF Waits
  <2>2. \A j \in N : state'[j] # "unreleased" /\ state'[j] \in Loose
    BY <1>8 DEF Loose
  <2>. QED
    BY <1>1, <1>2, <1>4, <1>6, <1>9, <1>10, <1>14, <1>15, <1>16, <2>1, <2>2 DEF WrittenKept
<1>18. A \in SUBSET Incidents
  BY <1>11
<1>19. WrittenOK'
  BY <1>2, <1>7, <1>17, <1>18, WrittenUpdate, ReadyFacts
<1>. QED
  BY <1>6, <1>19 DEF Once

\* An incident changes, and no vehicle or task: the fact about it was not written before.
LEMMA IncidentOnly ==
    ASSUME Ready, Onward, NEW i \in Incidents, NEW F, F \subseteq {<<"handoff", i>>, <<"incident", i>>},
           written' = written \cup F, resumed' = resumed, flight' = flight,
           \A j \in Jobs : state'[j] = state[j],
           \A o \in Incidents \ {i} : incident'[o] = incident[o],
           stage' = "poll" \/ incident'[i].responder = incident[i].responder,
           NEW x \in Incidents \X {"decide", "select", "start_helper"}, steps' \subseteq steps \cup {x},
           HandoffOK(i)', StageOK(i)', PromptOK(i)'
    PROVE  WrittenOK'
<1>1. \A o \in Incidents : <<o, "response_due">> \in steps' => <<o, "response_due">> \in steps
  BY DEF Awaits
<1>2. \A o \in Incidents : Awaits(o, "response_due")' => Awaits(o, "response_due")
  BY <1>1 DEF Awaits, Onward
<1>3. WrittenKept({i}, {}, {}, F)
  BY <1>1, <1>2 DEF WrittenKept, Waits
<1>. QED
  BY <1>3, WrittenUpdate DEF Ready, IInv

\* An incident occurs.
LEMMA OccurOnce ==
    ASSUME Ready, NEW i \in Incidents, Occur(i)
    PROVE  Once
<1>0. incident \in [Incidents -> Records] /\ HandoffOK(i) /\ StageOK(i) /\ PromptOK(i)
      /\ RecordOK(incident[i])
  BY ReadyFacts DEF TypeOK, WorkTypes
<1> DEFINE F == {<<"incident", i>>}
<1>1. /\ At("timers") /\ incident[i].phase = "pending"
      /\ incident' = [incident EXCEPT ![i].phase = "occurred"] /\ Write(Nothing, F)
      /\ UNCHANGED <<flight, requests, due, turn, resumed, trouble>>
  BY Zenon DEF Occur
<1>2. Onward /\ stage' = "timers"
  BY <1>1, AtOnward
<1>3. /\ \A o \in Incidents \ {i} : incident'[o] = incident[o]
      /\ incident'[i].phase = "occurred" /\ incident'[i].responder = incident[i].responder
      /\ ~Open(incident'[i])
  BY <1>0, <1>1 DEF Records, Open, RecordOK
<1>4. fault' = "none" /\ written' = written \cup F /\ \A j \in Jobs : state'[j] = state[j]
  <2>1. <<"incident", i>> \notin written
    BY <1>0, <1>1 DEF StageOK, Final
  <2>. QED
    BY <1>1, <2>1, WroteFacts, WriteNothing, ReadyFacts
<1>5. HandoffOK(i)'
  BY <1>0, <1>1, <1>2, <1>3, <1>4 DEF HandoffOK
<1>6. StageOK(i)'
  BY <1>3 DEF StageOK
<1>7. PromptOK(i)'
  BY <1>0, <1>1, <1>2 DEF PromptOK, Awaits, requests, Onward
<1>8. WrittenOK'
  <2>1. F \subseteq {<<"handoff", i>>, <<"incident", i>>} /\ steps' \subseteq steps \cup {<<i, "decide">>}
    BY <1>1 DEF requests
  <2>. QED
    BY <1>1, <1>2, <1>3, <1>4, <1>5, <1>6, <1>7, <2>1, IncidentOnly
<1>. QED
  BY <1>4, <1>8 DEF Once

\* An incident is noticed, of which this wave has written nothing.
LEMMA NoticeOnce ==
    ASSUME Ready, NEW k \in DOMAIN Scene, Notice(k)
    PROVE  Once
<1> DEFINE i == Scene[k]
           F == {<<"incident", i>>}
<1>0. /\ i \in Incidents /\ Fleets + k \in Nat
      /\ incident \in [Incidents -> Records] /\ HandoffOK(i) /\ StageOK(i) /\ PromptOK(i)
      /\ RecordOK(incident[i])
  BY ReadyFacts, Turns DEF TypeOK, WorkTypes
<1>1. PICK v \in Vehicles,
           r \in {[incident[i] EXCEPT !.responder = w, !.phase = "noticed"] : w \in Vehicles} :
          /\ Turn(Fleets + k) /\ turn' = Fleets + k + 1 /\ resumed' = resumed
          /\ incident[i].phase = "occurred" /\ <<"incident", i>> \notin written
          /\ r = [incident[i] EXCEPT !.responder = v, !.phase = "noticed"]
          /\ \/ /\ Put(i, r, v, flight[v]) /\ Write(Nothing, F)
                /\ steps' = steps \cup {<<i, "decide">>}
             \/ Ask(i, r, F)
  <2>1. policy.watchers \subseteq Vehicles
    BY ReadyFacts, PoliciesAssumption DEF TypeOK, WaveTypes
  <2>2. PICK v \in policy.watchers :
          /\ Turn(Fleets + k) /\ turn' = Fleets + k + 1 /\ resumed' = resumed
          /\ incident[i].phase = "occurred" /\ <<"incident", i>> \notin written
          /\ \/ /\ Put(i, [incident[i] EXCEPT !.responder = v, !.phase = "noticed"], v, flight[v])
                /\ Write(Nothing, F)
                /\ steps' = steps \cup {<<i, "decide">>}
             \/ Ask(i, [incident[i] EXCEPT !.responder = v, !.phase = "noticed"], F)
    BY Zenon DEF Notice
  <2>. QED
    BY <2>1, <2>2
<1>. HIDE DEF i
<1>2. /\ Onward /\ stage' = "poll" /\ due = {}
  BY <1>0, <1>1, TurnOnward DEF Ready
<1>3. PICK s \in Records : /\ incident' = [incident EXCEPT ![i] = s] /\ s.phase = "noticed"
                           /\ s.choice = None /\ ~Open(s)
  <2>1. r \in Records /\ r.phase = "noticed" /\ r.choice = None /\ ~Open(r)
    <3>1. PICK q \in Records : q = incident[i]
      BY <1>0
    <3>2. q.handoff = "idle" /\ q.choice = None
      BY <1>0, <1>1, <3>1 DEF RecordOK
    <3>3. r = [q EXCEPT !.responder = v, !.phase = "noticed"]
      BY <1>1, <3>1
    <3>. QED
      BY <3>2, <3>3 DEF Records, Open
  <2>2. [r EXCEPT !.choice = None] = r
    BY <2>1 DEF Records
  <2>3. incident' = [incident EXCEPT ![i] = r]
    BY <1>1, <2>2 DEF Put, Ask
  <2>. QED
    BY <2>1, <2>3
<1>4. /\ Write(Nothing, F) /\ flight' = flight /\ steps' \subseteq steps \cup {<<i, "decide">>}
  BY <1>1, ReadyFacts DEF Ask, Put, TypeOK, WorkTypes
<1>5. fault' = "none" /\ written' = written \cup F /\ \A j \in Jobs : state'[j] = state[j]
  <2>1. \A x \in F : x \notin written
    BY <1>1
  <2>. HIDE DEF F
  <2>2. fault' = "none" /\ written' = written \cup {<<"task", j>> : j \in {}} \cup F
    BY <1>4, <2>1, WroteFacts
  <2>3. \A j \in Jobs : state'[j] = state[j]
    BY <1>4, WriteNothing, ReadyFacts
  <2>. QED
    BY <2>2, <2>3
<1>6. incident'[i] = s /\ \A o \in Incidents \ {i} : incident'[o] = incident[o]
  BY <1>0, <1>3
<1>7. HandoffOK(i)'
  BY <1>2, <1>3, <1>6 DEF HandoffOK, Onward
<1>8. StageOK(i)'
  BY <1>2, <1>3, <1>6 DEF StageOK
<1>9. PromptOK(i)'
  <2>1. ~policy.hover => ~Awaits(i, "response_due")
    BY <1>0, <1>1 DEF PromptOK
  <2>. QED
    BY <1>2, <1>4, <2>1 DEF PromptOK, Awaits, Onward
<1>10. WrittenOK'
  BY <1>0, <1>1, <1>2, <1>4, <1>5, <1>6, <1>7, <1>8, <1>9, IncidentOnly
<1>. QED
  BY <1>5, <1>10 DEF Once

\* When v has its turn it has not had it, and has had it then; at the end all have had it.
LEMMA OneTurn ==
    ASSUME TypeOK, NEW k \in DOMAIN Fleet, turn <= Preempting + k
    PROVE  ~Turned(Fleet[k])
<1>1. \A l \in DOMAIN Fleet : Fleet[l] = Fleet[k] => l = k
  BY NamesAssumption
<1>. QED
  BY <1>1, Turns DEF Turned, TypeOK, WaveTypes

\* The vehicle that is at turn, after it.
LEMMA TurnTaken ==
    ASSUME NEW k \in DOMAIN Fleet, stage' = "poll", turn' = Preempting + k + 1
    PROVE  Turned(Fleet[k])'
BY Turns DEF Turned

\* All vehicles have had theirs when jobs are allocated.
LEMMA AllTurned ==
    ASSUME NEW v \in Vehicles, stage' = "poll", turn' = Assigning
    PROVE  Turned(v)'
<1>1. PICK k \in DOMAIN Fleet : Fleet[k] = v
  BY DEF Vehicles
<1>2. DOMAIN Fleet = 1 .. Fleets /\ Fleets \in Nat
  BY NamesAssumption DEF Fleets
<1>3. Preempting + k < Assigning
  BY <1>2, Turns DEF Assigning
<1>. QED
  BY <1>1, <1>3 DEF Turned

\* Nothing is written of a vehicle that has had its turn, again in this wave.
LEMMA TurnedHeld ==
    ASSUME NEW v, Turned(v)'
    PROVE  HeldOK(v)'
BY DEF HeldOK

\* A vehicle writes jobs of its own, or new ones, in a poll.
LEMMA JobsOnly ==
    ASSUME Ready, Onward, stage = "poll", NEW v \in Vehicles,
           \A w \in Vehicles \ {v} : flight'[w] = flight[w],
           NEW N \in SUBSET Jobs,
           \A j \in N : state[j] = "queued" \/ (Has(v, j) /\ Part(flight[v]) # "handoff_drop"),
           \A j \in N : state'[j] # "unreleased", \A j \in Jobs \ N : state'[j] = state[j],
           written' = written \cup {<<"task", j>> : j \in N} \cup {},
           resumed' = resumed, incident' = incident, steps' = steps, HeldOK(v)',
           Turned(v)' \/ flight[v].purpose # "incident_response"
    PROVE  WrittenOK'
<1>1. \A i \in Incidents : Awaits(i, "response_due")' => Awaits(i, "response_due")
  BY DEF Awaits, Onward
<1>2. \A j \in N : (\A w \in Vehicles \ {v} : ~Has(w, j)) /\ \A o \in Incidents : ~Deal(o, j)
  <2>1. ASSUME NEW j \in N, state[j] = "queued"
        PROVE  (\A w \in Vehicles : ~Has(w, j)) /\ \A o \in Incidents : ~Deal(o, j)
    <3>1. \A w \in Vehicles : ~Has(w, j)
      BY <2>1, HeldJob DEF Active, Ready
    <3>. QED
      BY <2>1, <3>1 DEF Ready, IInv, CustodyOK, DealsOK, DealOK, Goes, Loose
  <2>. QED
    BY <2>1, HeldAlone DEF Ready
<1>3. stage' = "poll"
  BY DEF Onward
<1>4. WrittenKept({}, {v}, N, {})
  BY <1>1, <1>2, <1>3 DEF WrittenKept, Waits
<1>. QED
  BY <1>4, WrittenUpdate DEF Ready, IInv

\* A job that is assigned was not written.
LEMMA AssignOnce ==
    ASSUME Ready, NEW j \in Jobs, NEW v \in Vehicles, Assign(j, v)
    PROVE  Once
<1>0. PICK f \in Flights : f = flight[v]
  BY ReadyFacts DEF TypeOK, WorkTypes
<1> DEFINE g == [f EXCEPT !.job = j, !.leg = "idle"]
<1>1. /\ Turn(Assigning) /\ turn' = Assigning /\ Queued(j) /\ Free(f)
      /\ Fly(v, g, To(j, "assigned")) /\ resumed' = resumed
  BY <1>0, Zenon DEF Assign, g
<1>2. g \in Flights
  BY DEF Flights
<1>. HIDE DEF g
<1>3. /\ \A w \in Vehicles \ {v} : flight'[w] = flight[w]
      /\ Write(To(j, "assigned"), {}) /\ incident' = incident /\ steps' = steps
  BY <1>1, <1>2, FlyEffect DEF Ready, IInv
<1>4. Onward /\ stage = "poll" /\ stage' = "poll"
  BY <1>1, TurnOnward, Turns DEF Ready
<1>5. ~Wrote(j) /\ state[j] = "queued"
  BY <1>1 DEF Queued, Wrote
<1>6. /\ fault' = "none" /\ written' = written \cup {<<"task", l>> : l \in {j}} \cup {}
      /\ \A l \in Jobs : state'[l] = IF l = j THEN "assigned" ELSE state[l]
  BY <1>3, <1>5, WroteTo, WriteTo, ReadyFacts DEF States
<1>7. Turned(v)' /\ HeldOK(v)'
  BY <1>1, <1>4, AllTurned, TurnedHeld
<1>8. WrittenOK'
  <2>1. {j} \in SUBSET Jobs
    OBVIOUS
  <2>. QED
    BY <1>1, <1>3, <1>4, <1>5, <1>6, <1>7, <2>1, JobsOnly
<1>. QED
  BY <1>6, <1>8 DEF Once

\* A job that is preempted was not written, unless its vehicle was resumed; the urgent one
\* was not written, and is not preempted in its turn.
LEMMA PreemptOnce ==
    ASSUME Ready, NEW j \in Jobs, NEW v \in Vehicles, Preempt(j, v)
    PROVE  WrittenOK' /\ DuplicateByPreemption'
<1>0. PICK f \in Flights : f = flight[v] /\ FlightOK(f) /\ HeldOK(v)
  BY ReadyFacts DEF TypeOK, WorkTypes
<1> DEFINE g == [f EXCEPT !.suspended = f.job, !.resume = state[f.job], !.job = j, !.leg = "braking"]
<1>1. /\ Turn(Preempting) /\ turn' = Preempting /\ Queued(j) /\ resumed' = resumed
      /\ j \in policy.urgent
      /\ f.job \in Jobs \ policy.urgent /\ f.suspended = None /\ f.purpose = "task"
      /\ Fly(v, g, Both(f.job, "paused", j, "assigned"))
  BY <1>0, Zenon DEF Preempt, g
<1>2. f.job # None /\ f.job \in Jobs /\ state[f.job] \in Active
  BY <1>0, <1>1, NamesAssumption DEF FlightOK
<1>3. g \in Flights /\ g.job = j /\ g.suspended = f.job /\ Busy(g)
  <2>1. f \in Flights
    OBVIOUS
  <2>. QED
    BY <1>2, <2>1, ZenonT(40) DEF Flights, Active, States, Busy
<1>. HIDE DEF g
<1>4. /\ \A w \in Vehicles \ {v} : flight'[w] = flight[w] /\ flight'[v] = g
      /\ Write(Both(f.job, "paused", j, "assigned"), {}) /\ incident' = incident /\ steps' = steps
  BY <1>1, <1>3, FlyEffect DEF Ready, IInv
<1>5. Onward /\ stage = "poll" /\ stage' = "poll" /\ turn <= Preempting
  BY <1>1, TurnOnward, Turns DEF Ready
<1>6. ~Wrote(j) /\ state[j] = "queued"
  BY <1>1 DEF Queued, Wrote
<1>7. \A l \in Jobs : state'[l] = IF l = f.job THEN "paused" ELSE IF l = j THEN "assigned" ELSE state[l]
  <2>1. "paused" \in States /\ "assigned" \in States
    BY DEF States
  <2>. QED
    BY <1>2, <1>4, <2>1, WriteBoth, ReadyFacts
<1>8. policy' = policy /\ flight'[v] = g
  <2>1. flight \in [Vehicles -> Flights]
    BY ReadyFacts DEF TypeOK, WorkTypes
  <2>. QED
    BY <1>1, <1>5, <2>1 DEF Onward, Fly
<1>9. CASE Wrote(f.job)
  <2>1. ~Turned(v)
    BY <1>5, Turns, ReadyFacts DEF Turned, TypeOK, WaveTypes
  <2>2. v \in resumed
    BY <1>0, <1>1, <1>2, <1>5, <1>9, <2>1 DEF HeldOK
  <2>3. fault' # "none"
    <3>1. DOMAIN Both(f.job, "paused", j, "assigned") = {f.job, j}
      BY DEF Both
    <3>. QED
      BY <1>4, <1>9, <3>1 DEF Write, Wrote
  <2>. QED
    BY <1>1, <1>2, <1>3, <1>8, <2>2, <2>3 DEF WrittenOK, DuplicateByPreemption
<1>10. CASE ~Wrote(f.job)
  <2>1. fault' = "none" /\ written' = written \cup {<<"task", l>> : l \in {f.job, j}} \cup {}
    BY <1>4, <1>6, <1>10, WroteBoth
  <2>2. HeldOK(v)'
    BY <1>1, <1>3, <1>5, <1>8 DEF HeldOK
  <2>3. {f.job, j} \in SUBSET Jobs /\ Has(v, f.job) /\ Part(flight[v]) # "handoff_drop"
    BY <1>0, <1>1, <1>2 DEF Has, Part, Controlled
  <2>4. WrittenOK'
    <3>. DEFINE N == {f.job, j}
    <3>1. N \in SUBSET Jobs /\ (\A l \in N : state'[l] # "unreleased") /\ \A l \in Jobs \ N : state'[l] = state[l]
      BY <1>7, <2>3
    <3>2. \A l \in N : state[l] = "queued" \/ (Has(v, l) /\ Part(flight[v]) # "handoff_drop")
      BY <1>6, <2>3
    <3>3. written' = written \cup {<<"task", l>> : l \in N} \cup {} /\ flight[v].purpose # "incident_response"
      BY <1>0, <1>1, <2>1
    <3>. HIDE DEF N
    <3>. QED
      BY <1>1, <1>4, <1>5, <2>2, <3>1, <3>2, <3>3, JobsOnly
  <2>. QED
    BY <2>1, <2>4 DEF DuplicateByPreemption
<1>. QED
  BY <1>9, <1>10

\* An agreement stays as it is, and its job is not written.
LEMMA HandoffKept ==
    ASSUME Ready, Onward, NEW i \in Incidents,
           incident'[i].handoff = incident[i].handoff, incident'[i].job = incident[i].job,
           incident'[i].responder = incident[i].responder, incident'[i].point = incident[i].point,
           <<"handoff", i>> \in written' => <<"handoff", i>> \in written,
           Open(incident[i]) => /\ Wrote(incident[i].job)' <=> Wrote(incident[i].job)
                                /\ state'[incident[i].job] = state[incident[i].job]
    PROVE  HandoffOK(i)'
<1>1. HandoffOK(i) /\ FreshOK /\ \A v : Turned(v) => Turned(v)'
  BY ReadyFacts, TurnedFor
<1>2. <<"handoff", i>> \in written /\ stage' \in {"receipts", "messages"} =>
          stage \in {"receipts", "messages"}
  BY <1>1 DEF FreshOK, Onward
<1>3. Open(incident'[i]) <=> Open(incident[i])
  BY DEF Open
<1>4. Open(incident[i]) /\ Wrote(incident[i].job) /\ Spoilt(i) => Spoilt(i)'
  BY SpoiltStays
<1>. QED
  BY <1>1, <1>2, <1>3, <1>4 DEF HandoffOK, Onward

\* What _coop_followup writes, and about which incident.
LEMMA FollowUpEffect ==
    ASSUME TypeOK, NEW v \in Vehicles, NEW f \in Flights, NEW new, FollowUp(v, f, new)
    PROVE  \/ \E g \in {f, Depart(f)} :
                 /\ g = f \/ f.job = None
                 /\ flight' = [flight EXCEPT ![v] = g] /\ incident' = incident
                 /\ Write(new, {})
                 /\ \A o \in Incidents : <<o, "response_due">> \in steps' => <<o, "response_due">> \in steps
           \/ \E i \in Owes(v) :
                 /\ flight' = [flight EXCEPT ![v] = f] /\ steps' = steps
                 /\ \/ /\ incident' = [incident EXCEPT ![i] =
                              [incident[i] EXCEPT !.choice = "report_only", !.phase = "reported"]]
                       /\ Write(new, {<<"incident", i>>})
                    \/ /\ incident' = [incident EXCEPT ![i] = [incident[i] EXCEPT !.choice = None]]
                       /\ Write(new, {})
<1> DEFINE i == Earliest(Helps(v) \cup Owes(v))
<1>0. Fly(v, f, new) => /\ flight' = [flight EXCEPT ![v] = f] /\ incident' = incident
                        /\ Write(new, {}) /\ steps' = steps
  BY DEF Fly, requests
<1>1. CASE ~FollowsUp(v, f)
  <2>1. Fly(v, f, new)
    BY <1>1, Zenon DEF FollowUp
  <2>. QED
    BY <1>0, <2>1
<1>2. CASE FollowsUp(v, f)
  <2>1. f.job = None /\ i \in Helps(v) \cup Owes(v) /\ i \in Incidents
    <3>1. Helps(v) \cup Owes(v) # {} /\ Helps(v) \cup Owes(v) \in SUBSET Incidents
      BY <1>2 DEF FollowsUp, Helps, Owes
    <3>. QED
      BY <1>2, <3>1, EarliestIn DEF FollowsUp, Free
  <2>2. [incident EXCEPT ![i] = incident[i]] = incident
    BY DEF TypeOK, WorkTypes
  <2>3. \/ Fly(v, f, new)
        \/ /\ flight' = [flight EXCEPT ![v] = f] /\ incident' = incident
           /\ steps' = (IF Busy(f) THEN steps ELSE steps \cup {<<i, "start_helper">>})
           /\ Write(new, {})
        \/ /\ i \notin Helps(v) /\ flight' = [flight EXCEPT ![v] = Depart(f)] /\ steps' = steps
           /\ incident' = [incident EXCEPT ![i] = incident[i]] /\ Write(new, {})
        \/ /\ i \notin Helps(v) /\ flight' = [flight EXCEPT ![v] = f] /\ steps' = steps
           /\ \/ /\ incident' = [incident EXCEPT ![i] =
                        [incident[i] EXCEPT !.choice = "report_only", !.phase = "reported"]]
                 /\ Write(new, {<<"incident", i>>})
              \/ /\ incident' = [incident EXCEPT ![i] = [incident[i] EXCEPT !.choice = None]]
                 /\ Write(new, {})
    BY <1>2, Zenon DEF FollowUp, Put, requests
  <2>4. i \notin Helps(v) => i \in Owes(v)
    BY <2>1
  <2>. HIDE DEF i
  <2>5. CASE Fly(v, f, new)
    BY <1>0, <2>5
  <2>6. CASE /\ flight' = [flight EXCEPT ![v] = f] /\ incident' = incident
             /\ steps' = (IF Busy(f) THEN steps ELSE steps \cup {<<i, "start_helper">>})
             /\ Write(new, {})
    BY <2>6
  <2>7. CASE /\ i \notin Helps(v) /\ flight' = [flight EXCEPT ![v] = Depart(f)] /\ steps' = steps
             /\ incident' = [incident EXCEPT ![i] = incident[i]] /\ Write(new, {})
    BY <2>1, <2>2, <2>7
  <2>. QED
    BY <2>3, <2>4, <2>5, <2>6, <2>7
<1>. QED
  BY <1>1, <1>2

\* _coop_followup writes what it is given, and perhaps that an incident is reported: one whose
\* responder had made its choice before this poll.
LEMMA FollowUpOnce ==
    ASSUME Ready, Onward, stage = "poll", due = {}, NEW v \in Vehicles, NEW f \in Flights,
           NEW new, FollowUp(v, f, new), resumed' = resumed,
           NEW N \in SUBSET Jobs, DOMAIN new = N, \A j \in N : new[j] # "unreleased",
           \A j \in N : ~Wrote(j) /\ Has(v, j), Part(flight[v]) # "handoff_drop",
           flight[v].purpose = "task",
           Turned(v)' \/ (N = {} /\ f = flight[v] /\ f.job = None)
    PROVE  Once
<1>0. TypeOK /\ TypeOK' /\ HeldOK(v) /\ flight \in [Vehicles -> Flights]
      /\ incident \in [Incidents -> Records]
  BY ReadyFacts DEF TypeOK, WorkTypes
<1>1. stage' = "poll" /\ due' = {} /\ (Turned(v) => Turned(v)')
  BY <1>0, TurnedFor DEF Onward
<1>2. ASSUME NEW F, Write(new, F), \A x \in F : x \notin written
      PROVE  /\ fault' = "none" /\ written' = written \cup {<<"task", j>> : j \in N} \cup F
             /\ \A j \in N : state'[j] # "unreleased"
             /\ \A j \in Jobs \ N : state'[j] = state[j]
  <2>1. \A j \in Jobs : state'[j] = IF j \in N THEN new[j] ELSE state[j]
    BY <1>2 DEF Write
  <2>. QED
    BY <1>2, <2>1, WroteNew
<1>3. /\ Depart(f).leg = "braking"
      /\ f.job = None => Depart(f).job = None /\ Depart(f).suspended = f.suspended
  BY <1>0, DepartEffect
<1>4. ASSUME NEW g \in {f, Depart(f)}, g = f \/ f.job = None, flight' = [flight EXCEPT ![v] = g],
             \A j : Wrote(j)' => Wrote(j) \/ j \in N
      PROVE  HeldOK(v)' /\ \A w \in Vehicles \ {v} : flight'[w] = flight[w]
  <2>1. CASE Turned(v)'
    BY <1>0, <1>4, <2>1, TurnedHeld
  <2>2. CASE N = {} /\ f = flight[v] /\ f.job = None
    <3>1. flight'[v] = g /\ g.job = None /\ g.suspended = f.suspended /\ (Busy(f) => Busy(g))
      BY <1>0, <1>3, <1>4, <2>2 DEF Busy
    <3>. QED
      BY <1>0, <1>1, <1>4, <2>2, <3>1 DEF HeldOK
  <2>. QED
    BY <2>1, <2>2
<1>5. ASSUME NEW F, F \subseteq {"incident"} \X Incidents,
             written' = written \cup {<<"task", j>> : j \in N} \cup F
      PROVE  \A j : Wrote(j)' => Wrote(j) \/ j \in N
  BY <1>5 DEF Wrote
<1>6. \A j \in N : (\A w \in Vehicles \ {v} : ~Has(w, j)) /\ \A o \in Incidents : ~Deal(o, j)
  BY HeldAlone DEF Ready
<1>7. CASE \E g \in {f, Depart(f)} :
              /\ g = f \/ f.job = None
              /\ flight' = [flight EXCEPT ![v] = g] /\ incident' = incident
              /\ Write(new, {})
              /\ \A o \in Incidents : <<o, "response_due">> \in steps' => <<o, "response_due">> \in steps
  <2>1. PICK g \in {f, Depart(f)} :
              /\ g = f \/ f.job = None
              /\ flight' = [flight EXCEPT ![v] = g] /\ incident' = incident
              /\ Write(new, {})
              /\ \A o \in Incidents : <<o, "response_due">> \in steps' => <<o, "response_due">> \in steps
    BY <1>7
  <2>2. /\ fault' = "none" /\ written' = written \cup {<<"task", j>> : j \in N} \cup {}
        /\ \A j \in N : state'[j] # "unreleased"
        /\ \A j \in Jobs \ N : state'[j] = state[j]
    BY <1>2, <2>1
  <2>3. HeldOK(v)' /\ \A w \in Vehicles \ {v} : flight'[w] = flight[w]
    <3>1. \A j : Wrote(j)' => Wrote(j) \/ j \in N
      BY <2>2 DEF Wrote
    <3>. QED
      BY <1>4, <2>1, <3>1
  <2>4. \A o \in Incidents : /\ <<o, "response_due">> \in steps' => <<o, "response_due">> \in steps
                             /\ Awaits(o, "response_due")' => Awaits(o, "response_due")
    BY <1>1, <2>1 DEF Awaits
  <2>5. WrittenKept({}, {v}, N, {})
    BY <1>1, <1>6, <2>1, <2>2, <2>3, <2>4 DEF WrittenKept, Waits
  <2>6. WrittenOK'
    BY <1>0, <2>5, WrittenUpdate DEF Ready
  <2>. QED
    BY <2>2, <2>6 DEF Once
<1>8. CASE \E i \in Owes(v) :
              /\ flight' = [flight EXCEPT ![v] = f] /\ steps' = steps
              /\ \/ /\ incident' = [incident EXCEPT ![i] =
                           [incident[i] EXCEPT !.choice = "report_only", !.phase = "reported"]]
                    /\ Write(new, {<<"incident", i>>})
                 \/ /\ incident' = [incident EXCEPT ![i] = [incident[i] EXCEPT !.choice = None]]
                    /\ Write(new, {})
  <2>0. PICK i \in Incidents : \E s, F :
              /\ flight' = [flight EXCEPT ![v] = f] /\ steps' = steps
              /\ incident[i].phase = "noticed" /\ incident[i].choice = "finish_then_respond"
              /\ incident' = [incident EXCEPT ![i] = s] /\ Write(new, F)
              /\ \/ /\ s = [incident[i] EXCEPT !.choice = "report_only", !.phase = "reported"]
                    /\ F = {<<"incident", i>>}
                 \/ /\ s = [incident[i] EXCEPT !.choice = None] /\ F = {}
    BY <1>8, Zenon DEF Owes
  <2>1. PICK s, F :
              /\ flight' = [flight EXCEPT ![v] = f] /\ steps' = steps
              /\ incident[i].phase = "noticed" /\ incident[i].choice = "finish_then_respond"
              /\ incident' = [incident EXCEPT ![i] = s] /\ Write(new, F)
              /\ \/ /\ s = [incident[i] EXCEPT !.choice = "report_only", !.phase = "reported"]
                    /\ F = {<<"incident", i>>}
                 \/ /\ s = [incident[i] EXCEPT !.choice = None] /\ F = {}
    BY <2>0, Zenon
  <2>2. PICK r \in Records : r = incident[i]
    BY <1>0
  <2>3. HandoffOK(i) /\ StageOK(i) /\ PromptOK(i) /\ RecordOK(r)
    BY <2>2, ReadyFacts
  <2>4. <<"incident", i>> \notin written
    BY <2>1, <2>3, NamesAssumption DEF StageOK, Final, Options
  <2>5. /\ s.handoff = r.handoff /\ s.job = r.job /\ s.responder = r.responder
        /\ s.point = r.point
        /\ \/ s.phase = "reported" /\ F = {<<"incident", i>>}
           \/ s.phase = "noticed" /\ s.choice = None /\ F = {}
    BY <2>1, <2>2 DEF Records
  <2>6. /\ fault' = "none" /\ written' = written \cup {<<"task", j>> : j \in N} \cup F
        /\ \A j \in N : state'[j] # "unreleased"
        /\ \A j \in Jobs \ N : state'[j] = state[j]
    BY <1>2, <2>1, <2>4, <2>5
  <2>7. F \subseteq {"incident"} \X Incidents
    BY <2>5
  <2>8. HeldOK(v)' /\ \A w \in Vehicles \ {v} : flight'[w] = flight[w]
    BY <1>4, <1>5, <2>1, <2>6, <2>7
  <2>9. incident'[i] = s /\ \A o \in Incidents \ {i} : incident'[o] = incident[o]
    BY <1>0, <2>1
  <2>10. HandoffOK(i)'
    <3>1. Open(r) => r.job \in Jobs /\ r.job \notin N
      BY <1>6, <2>2, <2>3 DEF Open, RecordOK, Settled, Deal
    <3>2. <<"handoff", i>> \in written' => <<"handoff", i>> \in written
      BY <2>6, <2>7
    <3>3. Open(r) => (Wrote(r.job)' <=> Wrote(r.job)) /\ state'[r.job] = state[r.job]
      BY <1>5, <2>6, <2>7, <3>1 DEF Wrote
    <3>. QED
      BY <2>2, <2>5, <2>9, <3>2, <3>3, HandoffKept
  <2>11. StageOK(i)'
    BY <1>1, <2>4, <2>5, <2>6, <2>9 DEF StageOK, Final
  <2>12. \A o \in Incidents : /\ <<o, "response_due">> \in steps' => <<o, "response_due">> \in steps
                              /\ Awaits(o, "response_due")' => Awaits(o, "response_due")
    BY <1>1, <2>1 DEF Awaits
  <2>13. PromptOK(i)'
    BY <2>1, <2>3, <2>12 DEF PromptOK, Onward
  <2>14. WrittenKept({i}, {v}, N, F)
    <3>1. \A j \in N : \A o \in Incidents : ~Deal(o, j)
      BY <1>6
    <3>. QED
      BY <1>1, <1>6, <2>2, <2>5, <2>6, <2>7, <2>8, <2>9, <2>10, <2>11, <2>12, <2>13, <3>1 DEF WrittenKept, Waits
  <2>15. WrittenOK'
    BY <1>0, <2>14, WrittenUpdate DEF Ready
  <2>. QED
    BY <2>6, <2>15 DEF Once
<1>. QED
  BY <1>0, <1>7, <1>8, FollowUpEffect

\* A vehicle without a job follows up.
LEMMA FollowUpTurnOnce ==
    ASSUME Ready, NEW k \in DOMAIN Fleet, FollowUpTurn(k)
    PROVE  Once
<1>1. PICK v \in Vehicles, f \in Flights :
          /\ v = Fleet[k] /\ f = flight[v] /\ Turn(k) /\ turn' = k + 1
          /\ FollowsUp(v, f) /\ FollowUp(v, f, Nothing) /\ resumed' = resumed
  <2>1. Fleet[k] \in Vehicles /\ flight[Fleet[k]] \in Flights
    BY Turns, ReadyFacts DEF TypeOK, WorkTypes
  <2>. QED
    BY <2>1, Zenon DEF FollowUpTurn
<1>2. Onward /\ stage = "poll" /\ due = {}
  BY <1>1, TurnOnward, Turns DEF Ready
<1>3. f.job = None /\ f.purpose = "task" /\ Part(f) = "task"
  BY <1>1 DEF FollowsUp, Free, Part, Controlled
<1>4. DOMAIN Nothing = {} /\ {} \in SUBSET Jobs
  BY DEF Nothing
<1>. QED
  BY <1>1, <1>2, <1>3, <1>4, FollowUpOnce

\* A vehicle has its turn in the poll, and has something to do.
InTurn(v) ==
    /\ Onward /\ stage = "poll" /\ stage' = "poll" /\ due = {}
    /\ ~Turned(v) /\ Turned(v)' /\ v \notin resumed /\ ~Busy(flight[v])

\* What it has was not written.
LEMMA TurnNew ==
    ASSUME Ready, NEW v \in Vehicles, InTurn(v), NEW j \in Jobs, Has(v, j)
    PROVE  ~Wrote(j)
BY HeldNew, NamesAssumption DEF InTurn, Has

\* It flies on, and writes what it has.
LEMMA FlyOnce ==
    ASSUME Ready, NEW v \in Vehicles, InTurn(v), NEW g \in Flights, NEW new,
           NEW N \in SUBSET Jobs, DOMAIN new = N, \A j \in N : new[j] # "unreleased" /\ Has(v, j),
           N = {} \/ Part(flight[v]) # "handoff_drop", Fly(v, g, new), resumed' = resumed
    PROVE  Once
<1>1. /\ \A w \in Vehicles \ {v} : flight'[w] = flight[w]
      /\ Write(new, {}) /\ incident' = incident /\ steps' = steps
  BY FlyEffect DEF Ready, IInv
<1>2. \A j \in N : ~Wrote(j)
  BY TurnNew
<1>3. fault' = "none" /\ written' = written \cup {<<"task", j>> : j \in N} \cup {}
  BY <1>1, <1>2, WroteNew
<1>4. \A j \in Jobs : state'[j] = IF j \in N THEN new[j] ELSE state[j]
  BY <1>1 DEF Write
<1>5. HeldOK(v)'
  BY TurnedHeld DEF InTurn
<1>6. WrittenOK'
  BY <1>1, <1>3, <1>4, <1>5, JobsOnly DEF InTurn
<1>. QED
  BY <1>3, <1>6 DEF Once

\* It flies on, and writes nothing.
LEMMA FlyNothing ==
    ASSUME Ready, NEW v \in Vehicles, InTurn(v), NEW g \in Flights, Fly(v, g, Nothing),
           resumed' = resumed
    PROVE  Once
<1>1. DOMAIN Nothing = {} /\ {} \in SUBSET Jobs
  BY DEF Nothing
<1>. QED
  BY <1>1, FlyOnce

\* A vehicle moves on.
LEMMA MoveOnce ==
    ASSUME Ready, NEW v \in Vehicles, InTurn(v), Move(v), resumed' = resumed
    PROVE  Once
<1>1. PICK f \in Flights : f = flight[v]
  BY ReadyFacts DEF TypeOK, WorkTypes
<1>2. [f EXCEPT !.leg = "moving"] \in Flights /\ Fly(v, [f EXCEPT !.leg = "moving"], Nothing)
  BY <1>1 DEF Flights, Move
<1>. QED
  BY <1>2, FlyNothing

\* It goes on with its job, or completes it.
LEMMA TaskFlightOnce ==
    ASSUME Ready, NEW v \in Vehicles, InTurn(v), flight[v].purpose = "task", flight[v].job # None,
           TaskFlight(v), resumed' = resumed
    PROVE  Once
<1>0. PICK f \in Flights : f = flight[v] /\ FlightOK(f)
  BY ReadyFacts DEF TypeOK, WorkTypes
<1> DEFINE rest == [f EXCEPT !.job = f.suspended, !.suspended = None, !.resume = None, !.leg = "idle"]
           on(l) == [f EXCEPT !.leg = l]
<1>1. \/ \E l \in {"idle", "moving"} : Fly(v, on(l), To(f.job, "started"))
      \/ \E l \in {"idle", "moving"} : Fly(v, on(l), To(f.job, "picked_up"))
      \/ FollowUp(v, rest, IF f.suspended = None THEN To(f.job, "completed")
                           ELSE Both(f.job, "completed", f.suspended, f.resume))
      \/ Move(v)
  BY <1>0, Zenon DEF TaskFlight
<1>2. /\ \A l \in {"idle", "moving"} : on(l) \in Flights
      /\ rest \in Flights
  BY ZenonT(40) DEF Flights
<1>3. /\ f.job \in Jobs /\ Has(v, f.job) /\ Part(f) # "handoff_drop"
      /\ f.suspended # None => f.suspended \in Jobs /\ Has(v, f.suspended)
      /\ f.suspended # None => f.suspended # f.job /\ f.resume \in Active
  BY <1>0 DEF Flights, FlightOK, Has, Part, Controlled, Active
<1>. HIDE DEF rest, on
<1>4. ASSUME NEW l \in {"idle", "moving"}, NEW s \in {"started", "picked_up"},
             Fly(v, on(l), To(f.job, s))
      PROVE  Once
  <2>1. DOMAIN To(f.job, s) = {f.job} /\ {f.job} \in SUBSET Jobs /\ To(f.job, s)[f.job] = s
    BY <1>3 DEF To
  <2>. QED
    BY <1>0, <1>2, <1>3, <1>4, <2>1, FlyOnce
<1>5. CASE FollowUp(v, rest, IF f.suspended = None THEN To(f.job, "completed")
                             ELSE Both(f.job, "completed", f.suspended, f.resume))
  <2>1. CASE f.suspended = None
    <3>1. /\ DOMAIN To(f.job, "completed") = {f.job} /\ {f.job} \in SUBSET Jobs
          /\ To(f.job, "completed")[f.job] = "completed"
      BY <1>3 DEF To
    <3>2. ~Wrote(f.job)
      BY <1>3, TurnNew
    <3>3. FollowUp(v, rest, To(f.job, "completed"))
      BY <1>5, <2>1
    <3>. QED
      BY <1>0, <1>2, <1>3, <3>1, <3>2, <3>3, FollowUpOnce DEF InTurn
  <2>2. CASE f.suspended # None
    <3>. DEFINE new == Both(f.job, "completed", f.suspended, f.resume)
    <3>1. /\ DOMAIN new = {f.job, f.suspended} /\ {f.job, f.suspended} \in SUBSET Jobs
          /\ new[f.job] = "completed" /\ new[f.suspended] = f.resume
      BY <1>3, <2>2 DEF Both
    <3>2. ~Wrote(f.job) /\ ~Wrote(f.suspended)
      BY <1>3, <2>2, TurnNew
    <3>3. FollowUp(v, rest, new)
      BY <1>5, <2>2
    <3>. HIDE DEF new
    <3>. QED
      BY <1>0, <1>2, <1>3, <2>2, <3>1, <3>2, <3>3, FollowUpOnce DEF InTurn, Active
  <2>. QED
    BY <2>1, <2>2
<1>6. CASE Move(v)
  BY <1>6, MoveOnce
<1>. QED
  BY <1>1, <1>4, <1>5, <1>6

\* It changes, and with it an incident, and writes what nobody else has.
LEMMA TurnPut ==
    ASSUME Ready, NEW v \in Vehicles, InTurn(v), NEW i \in Incidents,
           NEW s \in Records, NEW g \in Flights, Put(i, s, v, g),
           NEW N \in SUBSET Jobs, NEW F, F \subseteq {<<"handoff", i>>, <<"incident", i>>},
           written' = written \cup {<<"task", j>> : j \in N} \cup F,
           \A j \in N : state'[j] # "unreleased", \A j \in Jobs \ N : state'[j] = state[j],
           \A j \in N : /\ \A w \in Vehicles \ {v} : ~Has(w, j)
                        /\ \A o \in Incidents \ {i} : ~Deal(o, j),
           resumed \subseteq resumed',
           steps' \subseteq steps \cup {<<i, "response_due">>},
           HandoffOK(i)', StageOK(i)', PromptOK(i)'
    PROVE  WrittenOK'
<1>1. /\ \A w \in Vehicles \ {v} : flight'[w] = flight[w]
      /\ incident'[i] = s /\ \A o \in Incidents \ {i} : incident'[o] = incident[o]
  BY PutEffect, ReadyFacts
<1>2. ASSUME NEW o \in Incidents \ {i}
      PROVE  /\ <<o, "response_due">> \in steps' => <<o, "response_due">> \in steps
             /\ Awaits(o, "response_due")' => Awaits(o, "response_due")
  <2>1. <<o, "response_due">> \in steps' => <<o, "response_due">> \in steps
    OBVIOUS
  <2>. QED
    BY <2>1 DEF Awaits, InTurn, Onward
<1>3. HeldOK(v)' /\ Waits(v, {i})
  BY TurnedHeld DEF InTurn, Waits
<1>4. WrittenKept({i}, {v}, N, F)
  BY <1>1, <1>2, <1>3 DEF WrittenKept, InTurn
<1>. QED
  BY <1>4, WrittenUpdate, ReadyFacts DEF InTurn

\* An incident that goes on as before goes on through its stages as before.
LEMMA StageKept ==
    ASSUME Ready, NEW v \in Vehicles, InTurn(v), NEW i \in Incidents,
           \A w \in Vehicles \ {v} : flight'[w] = flight[w],
           incident'[i].phase = incident[i].phase, incident'[i].choice = incident[i].choice,
           incident'[i].dwell = incident[i].dwell, incident'[i].responder = incident[i].responder,
           incident'[i].handoff # "requested", steps' = steps,
           <<"incident", i>> \in written' => <<"incident", i>> \in written
    PROVE  StageOK(i)' /\ PromptOK(i)'
<1>1. StageOK(i) /\ PromptOK(i) /\ RecordOK(incident[i]) /\ TypeOK /\ TypeOK'
  BY ReadyFacts
<1>2. incident[i].responder \in Vehicles \cup {None}
  BY <1>1 DEF TypeOK, WorkTypes, Records
<1>3. \A w : Turned(w) => Turned(w)'
  BY <1>1, TurnedFor DEF InTurn
<1>4. incident[i].phase = "responding" => incident[i].responder \in Vehicles
  BY <1>1 DEF RecordOK
<1>5. incident[i].responder = v => Turned(incident[i].responder)'
  BY DEF InTurn
<1>6. StageOK(i)'
  BY <1>1, <1>3, <1>4, <1>5 DEF StageOK, InTurn
<1>7. PromptOK(i)'
  BY <1>1, <1>3 DEF PromptOK, Awaits, InTurn, Onward
<1>. QED
  BY <1>6, <1>7

\* The parcel is left: neither its job nor the agreement was written before.
LEMMA DropOnce ==
    ASSUME Ready, NEW v \in Vehicles, InTurn(v), NEW i \in Incidents,
           incident[i].responder = v, Open(incident[i]),
           flight[v].purpose = "handoff_drop", Drop(v, i)
    PROVE  Once
<1>0. PICK f \in Flights, r \in Records :
          f = flight[v] /\ r = incident[i] /\ HandoffOK(i) /\ RecordOK(r)
  BY ReadyFacts DEF TypeOK, WorkTypes
<1> DEFINE e == [f EXCEPT !.job = None]
           s == [r EXCEPT !.handoff = "dropped"]
           F == {<<"handoff", i>>}
<1>1. /\ resumed' = resumed
      /\ \/ Move(v)
         \/ /\ f.leg = "there"
            /\ Put(i, s, v, Depart(e)) /\ requests' = requests
            /\ Write(To(r.job, "awaiting_transfer"), F)
  BY <1>0, Zenon DEF Drop, s, e
<1>2. Depart(e) \in Flights
  <2>1. e \in Flights
    BY DEF Flights
  <2>. HIDE DEF e
  <2>. QED
    BY <2>1, DepartEffect, ReadyFacts
<1>3. /\ s \in Records /\ s.responder = r.responder /\ s.choice = r.choice /\ s.job = r.job
      /\ s.phase = r.phase /\ s.handoff = "dropped" /\ s.dwell = r.dwell
  BY DEF Records
<1>4. r.job \in Jobs /\ Deal(i, r.job)
  BY <1>0 DEF RecordOK, Settled, Open, Deal
<1>. HIDE DEF e, s
<1>5. CASE Move(v)
  BY <1>1, <1>5, MoveOnce
<1>6. CASE /\ f.leg = "there" /\ Put(i, s, v, Depart(e)) /\ requests' = requests
           /\ Write(To(r.job, "awaiting_transfer"), F)
  <2>1. ~Wrote(r.job) /\ <<"handoff", i>> \notin written
    BY <1>0, <1>6 DEF HandoffOK, InTurn, Spoilt
  <2>2. fault' = "none" /\ written' = written \cup {<<"task", l>> : l \in {r.job}} \cup F
    BY <1>6, <2>1, WroteTo
  <2>3. \A j \in Jobs : state'[j] = IF j = r.job THEN "awaiting_transfer" ELSE state[j]
    BY <1>6, WriteTo, ReadyFacts DEF States
  <2>4. /\ \A w \in Vehicles \ {v} : ~Has(w, r.job)
        /\ \A o \in Incidents \ {i} : ~Deal(o, r.job)
    BY <1>0, <1>4 DEF Ready, IInv, CustodyOK, DealsOK, DealOK, OneDeal
  <2>5. steps' = steps
    BY <1>6 DEF requests
  <2>6. incident'[i] = s /\ \A w \in Vehicles \ {v} : flight'[w] = flight[w]
    BY <1>2, <1>3, <1>6, PutEffect, ReadyFacts
  <2>7. HandoffOK(i)'
    <3>1. <<"task", r.job>> \in written'
      BY <2>2
    <3>. QED
      BY <1>0, <1>3, <2>6, <3>1 DEF HandoffOK, InTurn, Onward, Wrote
  <2>8. StageOK(i)' /\ PromptOK(i)'
    BY <1>0, <1>3, <2>2, <2>5, <2>6, StageKept
  <2>9. WrittenOK'
    <3>. DEFINE N == {r.job}
    <3>1. /\ N \in SUBSET Jobs /\ \A j \in N : state'[j] # "unreleased"
          /\ \A j \in Jobs \ N : state'[j] = state[j]
      BY <1>4, <2>3
    <3>2. \A j \in N : /\ \A w \in Vehicles \ {v} : ~Has(w, j)
                     /\ \A o \in Incidents \ {i} : ~Deal(o, j)
      BY <2>4
    <3>3. /\ written' = written \cup {<<"task", j>> : j \in N} \cup F /\ steps' \subseteq steps \cup {<<i, "response_due">>}
          /\ F \subseteq {<<"handoff", i>>, <<"incident", i>>} /\ resumed \subseteq resumed'
      BY <1>1, <2>2, <2>5
    <3>. HIDE DEF N, F
    <3>. QED
      BY <1>2, <1>3, <1>6, <2>7, <2>8, <3>1, <3>2, <3>3, TurnPut
  <2>. QED
    BY <2>2, <2>9 DEF Once
<1>. QED
  BY <1>1, <1>5, <1>6

\* The parcel is picked up, when its job was not written.
LEMMA PickupOnce ==
    ASSUME Ready, NEW v \in Vehicles, InTurn(v), NEW i \in Incidents, Fetches(i, v),
           flight[v].purpose = "handoff_pickup", Pickup(v, i)
    PROVE  Once
<1>0. PICK f \in Flights, r \in Records :
          f = flight[v] /\ r = incident[i] /\ HandoffOK(i) /\ RecordOK(r)
  BY ReadyFacts DEF TypeOK, WorkTypes
<1> DEFINE g == [f EXCEPT !.job = r.job, !.purpose = "task", !.leg = "idle"]
           s == [r EXCEPT !.handoff = "transferred"]
           F == {<<"handoff", i>>}
<1>1. /\ resumed' = resumed
      /\ \/ Move(v) \/ Fly(v, f, Nothing)
         \/ /\ r.handoff = "dropped" /\ <<"task", r.job>> \notin written
            /\ Put(i, s, v, g) /\ requests' = requests
            /\ Write(To(r.job, "picked_up"), F)
  BY <1>0, Zenon DEF Pickup, s, g
<1>2. r.job \in Jobs /\ Deal(i, r.job) /\ Open(r)
  BY <1>0 DEF RecordOK, Settled, Open, Deal, Fetches
<1>3. /\ s \in Records /\ s.responder = r.responder /\ s.choice = r.choice /\ s.job = r.job
      /\ s.phase = r.phase /\ s.handoff = "transferred" /\ s.dwell = r.dwell
  BY DEF Records
<1>4. g \in Flights
  BY <1>2 DEF Flights
<1>. HIDE DEF g, s
<1>5. CASE Move(v)
  BY <1>1, <1>5, MoveOnce
<1>6. CASE Fly(v, f, Nothing)
  BY <1>1, <1>6, FlyNothing
<1>7. CASE /\ r.handoff = "dropped" /\ <<"task", r.job>> \notin written
           /\ Put(i, s, v, g) /\ requests' = requests
           /\ Write(To(r.job, "picked_up"), F)
  <2>1. ~Wrote(r.job) /\ <<"handoff", i>> \notin written
    BY <1>0, <1>2, <1>7 DEF HandoffOK, InTurn, Wrote
  <2>2. fault' = "none" /\ written' = written \cup {<<"task", l>> : l \in {r.job}} \cup F
    BY <1>7, <2>1, WroteTo
  <2>3. \A j \in Jobs : state'[j] = IF j = r.job THEN "picked_up" ELSE state[j]
    BY <1>7, WriteTo, ReadyFacts DEF States
  <2>4. /\ \A w \in Vehicles \ {v} : ~Has(w, r.job)
        /\ \A o \in Incidents \ {i} : ~Deal(o, r.job)
    BY <1>0, <1>2, <1>7, DroppedUnheld DEF Unheld, Ready, IInv, CustodyOK, OneDeal
  <2>5. steps' = steps
    BY <1>7 DEF requests
  <2>6. incident'[i] = s /\ \A w \in Vehicles \ {v} : flight'[w] = flight[w]
    BY <1>3, <1>4, <1>7, PutEffect, ReadyFacts
  <2>7. HandoffOK(i)'
    BY <1>3, <2>6 DEF HandoffOK, InTurn, Onward, Open
  <2>8. StageOK(i)' /\ PromptOK(i)'
    BY <1>0, <1>3, <2>2, <2>5, <2>6, StageKept
  <2>9. WrittenOK'
    <3>. DEFINE N == {r.job}
    <3>1. /\ N \in SUBSET Jobs /\ \A j \in N : state'[j] # "unreleased"
          /\ \A j \in Jobs \ N : state'[j] = state[j]
      BY <1>2, <2>3
    <3>2. \A j \in N : /\ \A w \in Vehicles \ {v} : ~Has(w, j)
                     /\ \A o \in Incidents \ {i} : ~Deal(o, j)
      BY <2>4
    <3>3. /\ written' = written \cup {<<"task", j>> : j \in N} \cup F /\ steps' \subseteq steps \cup {<<i, "response_due">>}
          /\ F \subseteq {<<"handoff", i>>, <<"incident", i>>} /\ resumed \subseteq resumed'
      BY <1>1, <2>2, <2>5
    <3>. HIDE DEF N, F
    <3>. QED
      BY <1>3, <1>4, <1>7, <2>7, <2>8, <3>1, <3>2, <3>3, TurnPut
  <2>. QED
    BY <2>2, <2>9 DEF Once
<1>. QED
  BY <1>1, <1>5, <1>6, <1>7

\* Nothing changes but for the steps that are due.
LEMMA NothingWritten ==
    ASSUME Ready, Onward, UNCHANGED <<work, steps, written, resumed, fault>>
    PROVE  Once
<1>1. \A o \in Incidents : Awaits(o, "response_due")' => Awaits(o, "response_due")
  BY DEF Awaits, Onward
<1>2. WrittenKept({}, {}, {}, {})
  BY <1>1 DEF WrittenKept, work
<1>. QED
  BY <1>2, WrittenUpdate, ReadyFacts DEF Once

\* v is at work for i, in its turn or because a timer of i is due.
AtWork(v, i) ==
    /\ Onward /\ ~Turned(v) /\ ~Busy(flight[v])
    /\ \/ InTurn(v)
       \/ policy.hover /\ stage' = "timers" /\ stage \in Before("timers")
       \/ /\ ~policy.hover /\ stage' = "deferred" /\ stage \in Before("deferred")
          /\ <<i, "response_due">> \notin due'
          /\ incident[i].phase = "responding" /\ incident[i].dwell = "over"

\* What v finds at i: it has nothing else to respond to, and no timer is running.
LEMMA AtWorkFacts ==
    ASSUME Ready, NEW v \in Vehicles, NEW i \in Incidents, AtWork(v, i), Responds(i, v)
    PROVE  /\ stage' \in {"timers", "deferred", "poll"}
           /\ Turned(v)' \/ (policy.hover /\ stage' = "timers")
              \/ (stage' = "deferred" /\ incident[i].phase = "responding" /\ incident[i].dwell = "over")
           /\ stage' = "poll" => Turned(v)'
           /\ ~policy.hover => <<i, "response_due">> \notin steps \cup due'
           /\ \A o \in Incidents \ {i} : incident[o].responder = v => ~Live(incident[o])
           /\ \A o \in Incidents : <<o, "decide">> \in due \/ <<o, "select">> \in due =>
                                     o # i /\ Live(incident[o])
           /\ <<"incident", i>> \in written => /\ incident[i].phase = "responding"
                                               /\ stage \in {"timers", "poll"}
                                               /\ incident[i].dwell \in {"wait", "late"}
                                               /\ flight[v].leg = "there"
           /\ flight[v].suspended # None => ~Wrote(flight[v].suspended)
<1>1. StageOK(i) /\ PromptOK(i)
  BY ReadyFacts
<1>2. ~policy.hover => <<i, "response_due">> \notin steps \cup due'
  BY <1>1 DEF AtWork, InTurn, Onward, PromptOK, Awaits, Responds
<1>3. \A o \in Incidents \ {i} : incident[o].responder = v => ~Live(incident[o])
  BY DEF Ready, IInv, Dealings, OneEngagement, Engaged, Responds, Live, Final
<1>4. \A o \in Incidents : <<o, "decide">> \in due \/ <<o, "select">> \in due =>
                              o # i /\ Live(incident[o])
  BY ReadyFacts DEF StepsOK, RecordOK, Awaits, Responds
<1>5. <<"incident", i>> \in written => /\ incident[i].phase = "responding"
                                       /\ stage \in {"timers", "poll"}
                                       /\ incident[i].dwell \in {"wait", "late"}
                                       /\ flight[v].leg = "there"
  BY <1>1 DEF AtWork, StageOK, Responds, Live, Final
<1>6. flight[v].suspended # None => ~Wrote(flight[v].suspended)
  BY HeldNew DEF AtWork
<1>. QED
  BY <1>2, <1>3, <1>4, <1>5, <1>6 DEF AtWork, InTurn, Before

\* A vehicle that is at work for an incident, which goes on.
LEMMA AtWorkPut ==
    ASSUME Ready, NEW v \in Vehicles, NEW i \in Incidents, AtWork(v, i), Responds(i, v),
           NEW s \in Records, NEW g \in Flights, Put(i, s, v, g),
           s.handoff = incident[i].handoff, s.job = incident[i].job,
           s.responder = incident[i].responder, s.point = incident[i].point,
           NEW N \in SUBSET Jobs, NEW F, F \subseteq {<<"incident", i>>},
           written' = written \cup {<<"task", j>> : j \in N} \cup F,
           \A j \in N : state'[j] # "unreleased", \A j \in Jobs \ N : state'[j] = state[j],
           \A j \in N : Has(v, j) /\ Part(flight[v]) # "handoff_drop",
           resumed \subseteq resumed', steps' \subseteq steps \cup {<<i, "response_due">>},
           HeldOK(v)', StageOK(i)', PromptOK(i)'
    PROVE  WrittenOK'
<1>1. /\ \A w \in Vehicles \ {v} : flight'[w] = flight[w]
      /\ incident'[i] = s /\ \A o \in Incidents \ {i} : incident'[o] = incident[o]
  BY PutEffect, ReadyFacts
<1>2. Onward /\ stage' # "receipts" /\ stage' \in {"timers", "deferred", "poll"}
  BY AtWorkFacts DEF AtWork
<1>3. ASSUME NEW o \in Incidents \ {i}
      PROVE  /\ <<o, "response_due">> \in steps' => <<o, "response_due">> \in steps
             /\ Awaits(o, "response_due")' => Awaits(o, "response_due")
  <2>1. <<o, "response_due">> \in steps' => <<o, "response_due">> \in steps
    OBVIOUS
  <2>. QED
    BY <1>2, <2>1 DEF Awaits, Onward
<1>4. Waits(v, {i})
  <2>1. \A o \in Incidents \ {i} : incident[o].responder = v => ~Live(incident[o])
    BY AtWorkFacts
  <2>2. \A o \in Incidents \ {i} : incident[o].responder = v => incident[o].phase # "responding"
    BY <2>1 DEF Live
  <2>. QED
    BY <2>2 DEF Waits
<1>5. \A j \in N : (\A w \in Vehicles \ {v} : ~Has(w, j)) /\ \A o \in Incidents : ~Deal(o, j)
  BY HeldAlone DEF Ready
<1>6. HandoffOK(i)'
  <2>1. Open(incident[i]) => incident[i].job \in Jobs /\ Deal(i, incident[i].job)
    BY ReadyFacts DEF RecordOK, Settled, Open, Deal
  <2>2. Open(incident[i]) => /\ Wrote(incident[i].job)' <=> Wrote(incident[i].job)
                             /\ state'[incident[i].job] = state[incident[i].job]
    <3>1. ASSUME NEW j, j \notin N PROVE Wrote(j)' <=> Wrote(j)
      BY <3>1 DEF Wrote
    <3>2. Open(incident[i]) => incident[i].job \notin N
      BY <1>5, <2>1
    <3>3. incident'[i].job = incident[i].job
      BY <1>1
    <3>. QED
      BY <2>1, <3>1, <3>2, <3>3
  <2>. QED
    BY <1>1, <1>2, <2>2, HandoffKept
<1>7. WrittenKept({i}, {v}, N, F)
  BY <1>1, <1>2, <1>3, <1>4, <1>5, <1>6 DEF WrittenKept
<1>. QED
  BY <1>2, <1>7, WrittenUpdate, ReadyFacts

\* It hovers or flies on, and what it has stays as it is.
LEMMA AtWorkHeld ==
    ASSUME Ready, NEW v \in Vehicles, NEW i \in Incidents, AtWork(v, i), Responds(i, v),
           flight[v].purpose = "incident_response", NEW g \in Flights, flight'[v] = g,
           g.job = None, g.suspended = flight[v].suspended,
           \A j \in Jobs : Wrote(j)' => Wrote(j)
    PROVE  HeldOK(v)'
<1>1. flight[v].suspended \in Jobs \cup {None}
  BY ReadyFacts DEF TypeOK, WorkTypes, Flights
<1>. QED
  BY <1>1, AtWorkFacts DEF HeldOK

\* At an incident, or on the way there.
LEMMA RespondOnce ==
    ASSUME Ready, NEW v \in Vehicles, NEW i \in Incidents, AtWork(v, i), Responds(i, v),
           flight[v].purpose = "incident_response", Respond(v, i)
    PROVE  Once
<1>0. PICK f \in Flights, r \in Records : f = flight[v] /\ r = incident[i] /\ FlightOK(f)
  BY ReadyFacts DEF TypeOK, WorkTypes
<1> DEFINE goes == [f EXCEPT !.leg = "moving"]
           home == [f EXCEPT !.purpose = "task", !.leg = "idle"]
           back == [home EXCEPT !.job = f.suspended, !.suspended = None, !.resume = None]
           before == [r EXCEPT !.dwell = "none"]
           d == IF ~policy.hover THEN "over"
                ELSE IF <<i, "response_due">> \in steps \cup due' THEN "late" ELSE "wait"
           during == [r EXCEPT !.phase = "responding", !.dwell = d]
           after == [r EXCEPT !.phase = "photographed"]
           like(s) == /\ s \in Records /\ s.responder = r.responder /\ s.choice = r.choice
                      /\ s.handoff = r.handoff /\ s.job = r.job /\ s.point = r.point
           F == {<<"incident", i>>}
           none == f.suspended = None
<1>1. \/ /\ f.leg # "there" /\ Put(i, before, v, goes) /\ Write(Nothing, {})
         /\ UNCHANGED <<steps, resumed>>
      \/ /\ f.leg = "there" /\ r.dwell = "none" /\ Put(i, during, v, f) /\ Write(Nothing, F)
         /\ steps' = (steps \cup {<<i, "response_due">>}) \ due' /\ UNCHANGED resumed
      \/ /\ f.leg = "there" /\ r.dwell = "over"
         /\ Put(i, after, v, IF none THEN home ELSE back)
         /\ Write(IF none THEN Nothing ELSE To(f.suspended, f.resume), F)
         /\ resumed' = (IF none THEN resumed ELSE resumed \cup {v}) /\ UNCHANGED steps
      \/ UNCHANGED <<work, steps, written, resumed, fault>>
  BY <1>0, Zenon DEF Respond, goes, home, back, before, d, during, after, F, none
<1>2. /\ f.job = None /\ Part(f) = "incident_response"
      /\ f.suspended # None => f.suspended \in Jobs /\ f.resume \in Active /\ Has(v, f.suspended)
  BY <1>0 DEF FlightOK, Part, Controlled, Flights, Has
<1>3. goes \in Flights /\ goes.job = None /\ goes.suspended = f.suspended
  BY <1>2 DEF Flights
<1>4. home \in Flights /\ home.job = None /\ home.suspended = f.suspended
  BY <1>2 DEF Flights
<1>5. back \in Flights /\ back.job = f.suspended /\ back.suspended = None
  BY DEF Flights
<1>6. like(before) /\ before.phase = r.phase /\ before.dwell = "none"
  BY DEF Records
<1>7. /\ d \in {"over", "late", "wait"} /\ (policy.hover => d # "over") /\ (~policy.hover => d = "over")
      /\ like(during) /\ during.phase = "responding" /\ during.dwell = d
  <2>1. d \in {"over", "late", "wait"} /\ (policy.hover => d # "over") /\ (~policy.hover => d = "over")
    OBVIOUS
  <2>2. PICK e \in {"over", "late", "wait"} : e = d
    BY <2>1
  <2>3. during = [r EXCEPT !.phase = "responding", !.dwell = e]
    BY <2>2, Zenon
  <2>. HIDE DEF d, during
  <2>4. [r EXCEPT !.phase = "responding", !.dwell = e] \in Records
    BY DEF Records
  <2>5. /\ during \in Records /\ during.responder = r.responder /\ during.choice = r.choice
        /\ during.handoff = r.handoff /\ during.job = r.job /\ during.point = r.point
        /\ during.phase = "responding" /\ during.dwell = e
    BY <2>3, <2>4 DEF Records
  <2>. QED
    BY <2>1, <2>2, <2>5
<1>8. like(after) /\ after.phase = "photographed"
  BY DEF Records
<1>9. Live(r) /\ r.choice # None /\ r.handoff # "requested" /\ r.responder = v
  BY <1>0 DEF Responds
<1>10. Onward
  BY DEF AtWork
<1>. HIDE DEF goes, home, back, before, d, during, after
<1>11. CASE UNCHANGED <<work, steps, written, resumed, fault>>
  BY <1>10, <1>11, NothingWritten
<1>12. CASE /\ f.leg # "there" /\ Put(i, before, v, goes) /\ Write(Nothing, {})
            /\ UNCHANGED <<steps, resumed>>
  <2>1. /\ fault' = "none" /\ written' = written \cup {<<"task", j>> : j \in {}} \cup {}
        /\ \A j \in Jobs : state'[j] = state[j]
    BY <1>12, WroteFacts, WriteNothing, ReadyFacts
  <2>2. incident'[i] = before /\ flight'[v] = goes
    BY <1>3, <1>6, <1>12, PutEffect, ReadyFacts
  <2>3. HeldOK(v)'
    BY <1>0, <1>3, <2>1, <2>2, AtWorkHeld DEF Wrote
  <2>4. <<"incident", i>> \notin written'
    BY <1>0, <1>12, <2>1, AtWorkFacts
  <2>5. StageOK(i)'
    BY <1>6, <1>9, <2>2, <2>4 DEF StageOK
  <2>6. PromptOK(i)'
    BY <1>10, <1>12, AtWorkFacts DEF PromptOK, Awaits, Onward
  <2>7. WrittenOK'
    <3>1. {} \in SUBSET Jobs
      OBVIOUS
    <3>. QED
      BY <1>0, <1>3, <1>6, <1>12, <2>1, <2>3, <2>5, <2>6, <3>1, AtWorkPut
  <2>. QED
    BY <2>1, <2>7 DEF Once
<1>13. CASE /\ f.leg = "there" /\ r.dwell = "none" /\ Put(i, during, v, f) /\ Write(Nothing, F)
            /\ steps' = (steps \cup {<<i, "response_due">>}) \ due' /\ UNCHANGED resumed
  <2>1. <<"incident", i>> \notin written
    BY <1>0, <1>13, AtWorkFacts
  <2>2. /\ fault' = "none" /\ written' = written \cup {<<"task", j>> : j \in {}} \cup F
        /\ \A j \in Jobs : state'[j] = state[j]
    BY <1>13, <2>1, WroteFacts, WriteNothing, ReadyFacts
  <2>3. incident'[i] = during /\ flight'[v] = f
    BY <1>7, <1>13, PutEffect, ReadyFacts
  <2>4. HeldOK(v)'
    BY <1>0, <1>2, <2>2, <2>3, AtWorkHeld DEF Wrote
  <2>5. /\ stage' \in {"timers", "poll"} /\ (stage' = "poll" => Turned(v)')
        /\ Turned(v)' \/ policy.hover
    BY <1>0, <1>13, AtWorkFacts DEF Turned
  <2>6. StageOK(i)'
    BY <1>0, <1>7, <1>9, <1>13, <2>3, <2>5 DEF StageOK
  <2>7. PromptOK(i)'
    BY <1>7, <1>9, <1>10, <2>3, <2>5 DEF PromptOK, Onward
  <2>8. WrittenOK'
    <3>1. {} \in SUBSET Jobs
      OBVIOUS
    <3>. QED
      BY <1>0, <1>7, <1>13, <2>2, <2>4, <2>6, <2>7, <3>1, AtWorkPut
  <2>. QED
    BY <2>2, <2>8 DEF Once
<1>14. CASE /\ f.leg = "there" /\ r.dwell = "over"
            /\ Put(i, after, v, IF none THEN home ELSE back)
            /\ Write(IF none THEN Nothing ELSE To(f.suspended, f.resume), F)
            /\ resumed' = (IF none THEN resumed ELSE resumed \cup {v}) /\ UNCHANGED steps
  <2>. DEFINE g == IF none THEN home ELSE back
              N == IF none THEN {} ELSE {f.suspended}
  <2>1. <<"incident", i>> \notin written
    BY <1>0, <1>14, AtWorkFacts
  <2>2. /\ fault' = "none" /\ written' = written \cup {<<"task", j>> : j \in N} \cup F
        /\ \A j \in Jobs : state'[j] = IF j \in N THEN f.resume ELSE state[j]
    <3>1. CASE none
      BY <1>14, <2>1, <3>1, WroteFacts, WriteNothing, ReadyFacts
    <3>2. CASE ~none
      <4>1. Write(To(f.suspended, f.resume), F) /\ ~Wrote(f.suspended) /\ f.resume \in States
        BY <1>0, <1>2, <1>14, <3>2, AtWorkFacts DEF Active, States
      <4>. QED
        BY <2>1, <3>2, <4>1, WroteTo, WriteTo, ReadyFacts
    <3>. QED
      BY <3>1, <3>2
  <2>3. /\ g \in Flights /\ incident'[i] = after /\ flight'[v] = g
        /\ \A o \in Incidents \ {i} : incident'[o] = incident[o]
    BY <1>4, <1>5, <1>8, <1>14, PutEffect, ReadyFacts
  <2>4. N \in SUBSET Jobs /\ \A j \in N : /\ Has(v, j) /\ Part(flight[v]) # "handoff_drop"
                                          /\ state'[j] # "unreleased"
    BY <1>0, <1>2, <2>2 DEF Active
  <2>5. ~Decides(v)'
    <3>1. ASSUME NEW o \in Incidents, incident'[o].responder = v,
                 <<o, "decide">> \in due' \/ <<o, "select">> \in due'
          PROVE  FALSE
      <4>1. o # i /\ Live(incident[o])
        BY <1>10, <3>1, AtWorkFacts DEF Onward
      <4>. QED
        BY <2>3, <3>1, <4>1, AtWorkFacts
    <3>. QED
      BY <3>1 DEF Decides
  <2>6. g.suspended = None /\ (g.job # None => v \in resumed')
    BY <1>4, <1>5, <1>14
  <2>7. HeldOK(v)'
    BY <2>3, <2>5, <2>6, AtWorkFacts DEF HeldOK
  <2>8. StageOK(i)'
    BY <1>8, <1>9, <2>3 DEF StageOK, Final
  <2>9. PromptOK(i)'
    BY <1>10, <1>14, AtWorkFacts DEF PromptOK, Awaits, Onward
  <2>10. WrittenOK'
    <3>1. resumed \subseteq resumed' /\ Put(i, after, v, g)
      BY <1>14
    <3>. HIDE DEF N, g
    <3>. QED
      BY <1>0, <1>8, <1>14, <2>2, <2>3, <2>4, <2>7, <2>8, <2>9, <3>1, AtWorkPut
  <2>. QED
    BY <2>2, <2>10 DEF Once
<1>. QED
  BY <1>1, <1>11, <1>12, <1>13, <1>14

\* Whatever _coop_flight does, in a turn or for a timer.
LEMMA CoopFlightOnce ==
    ASSUME Ready, NEW v \in Vehicles, CoopFlight(v),
           \/ InTurn(v)
           \/ /\ flight[v].purpose = "incident_response"
              /\ \A i \in Incidents : Responds(i, v) => AtWork(v, i)
    PROVE  Once
<1>1. PICK i : /\ i = Earliest(About(v, flight[v].purpose))
               /\ \/ Raise
                  \/ flight[v].purpose = "incident_response" /\ Respond(v, i)
                  \/ flight[v].purpose = "handoff_drop" /\ Drop(v, i)
                  \/ flight[v].purpose = "handoff_pickup" /\ Pickup(v, i)
  BY CoopCases, Zenon
<1>2. CASE Raise
  BY <1>2 DEF Raise, Once, WrittenOK
<1>3. CASE flight[v].purpose = "incident_response" /\ Respond(v, i)
  <2>1. i \in Incidents /\ Responds(i, v)
    BY <1>1, <1>3, RightIncident DEF Ready
  <2>2. AtWork(v, i)
    BY <2>1 DEF AtWork, InTurn
  <2>. QED
    BY <1>3, <2>1, <2>2, RespondOnce
<1>4. CASE flight[v].purpose = "handoff_drop" /\ Drop(v, i)
  <2>1. i \in Incidents /\ incident[i].responder = v /\ Open(incident[i])
    <3>1. i = Earliest(About(v, "handoff_drop"))
      BY <1>1, <1>4
    <3>2. About(v, "handoff_drop") \in SUBSET Incidents
      BY DEF About
    <3>3. About(v, "handoff_drop") # {}
          /\ \A o \in About(v, "handoff_drop") : incident[o].responder = v /\ Open(incident[o])
      BY <1>4, SomeDeal DEF Ready
    <3>4. i \in About(v, "handoff_drop")
      BY <3>1, <3>2, <3>3, EarliestIn
    <3>. QED
      BY <3>2, <3>3, <3>4
  <2>. QED
    BY <1>4, <2>1, DropOnce
<1>5. CASE flight[v].purpose = "handoff_pickup" /\ Pickup(v, i)
  <2>1. i \in Incidents /\ Fetches(i, v)
    BY <1>1, <1>5, RightIncident DEF Ready
  <2>. QED
    BY <1>5, <2>1, PickupOnce
<1>. QED
  BY <1>1, <1>2, <1>3, <1>4, <1>5

\* The turns of the loop over the flights.
LEMMA FlightTurnOnce ==
    ASSUME Ready, NEW k \in DOMAIN Fleet, FlightTurn(k)
    PROVE  Once
<1> DEFINE v == Fleet[k]
           f == flight[v]
<1>1. /\ Turn(Preempting + k) /\ Acts(v)
      /\ \/ f.purpose \in Responding /\ CoopFlight(v) /\ turn' = Preempting + k + 1
         \/ /\ \/ f.purpose = "task" /\ TaskFlight(v)
               \/ f.purpose = "control" /\ f.leg # "there" /\ Move(v)
            /\ turn' = Preempting + k + 1 /\ UNCHANGED resumed
         \/ f.purpose = "stranded" /\ Raise /\ turn' = Preempting + k + 1
         \/ /\ f.purpose = "control" /\ f.leg = "there"
            /\ \/ Fly(v, Restored(f), Nothing) /\ turn' = Preempting + k
               \/ turn' = Preempting + k + 1 /\ UNCHANGED <<work, requests, written, fault>>
            /\ UNCHANGED resumed
  BY Zenon DEF FlightTurn, v, f
<1>2. v \in Vehicles /\ f \in Flights /\ Preempting + k \in Nat
  BY Turns, ReadyFacts DEF TypeOK, WorkTypes
<1>3. turn' \in {Preempting + k, Preempting + k + 1}
  BY <1>1
<1>4. Onward /\ stage = "poll" /\ stage' = "poll" /\ due = {} /\ turn <= Preempting + k
  BY <1>1, <1>2, <1>3, TurnOnward DEF Ready
<1>5. ~Turned(v)
  BY <1>4, OneTurn, ReadyFacts
<1>6. turn' = Preempting + k + 1 => Turned(v)'
  BY <1>4, TurnTaken
<1>. HIDE DEF v, f
<1>7. v \notin resumed /\ ~Busy(flight[v]) /\ (f.purpose = "task" => f.job # None)
  BY <1>1 DEF Acts, Free, f
<1>8. turn' = Preempting + k + 1 => InTurn(v)
  BY <1>4, <1>5, <1>6, <1>7 DEF InTurn
<1>9. CASE CoopFlight(v) /\ turn' = Preempting + k + 1
  BY <1>2, <1>8, <1>9, CoopFlightOnce
<1>10. CASE f.purpose = "task" /\ TaskFlight(v) /\ turn' = Preempting + k + 1 /\ UNCHANGED resumed
  BY <1>2, <1>7, <1>8, <1>10, TaskFlightOnce DEF f
<1>11. CASE Move(v) /\ turn' = Preempting + k + 1 /\ UNCHANGED resumed
  BY <1>2, <1>8, <1>11, MoveOnce
<1>12. CASE f.purpose = "control" /\ Fly(v, Restored(f), Nothing) /\ UNCHANGED resumed
  <2>1. /\ Restored(f) \in Flights /\ Restored(f).job = f.job
        /\ Restored(f).suspended = f.suspended
    BY <1>2, ZenonT(40) DEF Restored, Flights
  <2>2. /\ flight'[v] = Restored(f) /\ \A w \in Vehicles \ {v} : flight'[w] = flight[w]
        /\ Write(Nothing, {}) /\ incident' = incident /\ steps' = steps
    BY <1>2, <1>12, <2>1, FlyEffect, ReadyFacts
  <2>3. /\ fault' = "none" /\ written' = written \cup {<<"task", j>> : j \in {}} \cup {}
        /\ \A j \in Jobs : state'[j] = state[j]
    BY <2>2, WroteFacts, WriteNothing, ReadyFacts
  <2>4. /\ f.job # None => ~Wrote(f.job)
        /\ f.suspended # None => ~Wrote(f.suspended)
    BY <1>2, <1>4, <1>5, <1>7, HeldNew DEF f
  <2>5. HeldOK(v)'
    BY <2>1, <2>2, <2>3, <2>4 DEF HeldOK, Wrote
  <2>6. flight[v].purpose # "incident_response"
    BY <1>12 DEF f
  <2>7. WrittenOK'
    <3>1. {} \in SUBSET Jobs
      OBVIOUS
    <3>. QED
      BY <1>2, <1>4, <1>12, <2>2, <2>3, <2>5, <2>6, <3>1, JobsOnly
  <2>. QED
    BY <2>3, <2>7 DEF Once
<1>13. CASE UNCHANGED <<work, requests, written, fault>> /\ UNCHANGED resumed
  BY <1>4, <1>13, NothingWritten DEF requests
<1>14. CASE Raise
  BY <1>14 DEF Raise, Once, WrittenOK
<1>. QED
  BY <1>1, <1>9, <1>10, <1>11, <1>12, <1>13, <1>14

\* A timer is due.
LEMMA DueStepOnce ==
    ASSUME Ready, NEW i \in Incidents, <<i, "response_due">> \in due,
           due' = due \ {<<i, "response_due">>},
           At(IF policy.hover THEN "timers" ELSE "deferred"), DueStep(i)
    PROVE  Once
<1> DEFINE v == incident[i].responder
<1>1. Onward /\ stage' = (IF policy.hover THEN "timers" ELSE "deferred") /\ stage \in Before(stage')
  BY AtOnward
<1>2. v \in Vehicles /\ PromptOK(i)
  BY ReadyFacts DEF StepsOK, Awaits
<1>3. ~Turned(v)
  BY <1>1 DEF Turned, Before
<1>4. ~policy.hover => incident[i].phase = "responding" /\ incident[i].dwell = "over"
  BY <1>2 DEF PromptOK, Awaits
<1>5. ASSUME NEW o \in Incidents, Responds(o, v), ~policy.hover PROVE o = i
  <2>1. Engaged(o, v) /\ Engaged(i, v)
    BY <1>4, <1>5 DEF Engaged, Responds, Live, Final
  <2>. QED
    BY <1>2, <2>1 DEF Ready, IInv, Dealings, OneEngagement
<1>6. \/ /\ flight[v].purpose = "incident_response" /\ ~Busy(flight[v]) /\ CoopFlight(v)
      \/ UNCHANGED <<work, requests, written, resumed, fault>>
  BY Zenon DEF DueStep
<1>. HIDE DEF v
<1>7. CASE flight[v].purpose = "incident_response" /\ ~Busy(flight[v]) /\ CoopFlight(v)
  <2>1. ASSUME NEW o \in Incidents, Responds(o, v) PROVE AtWork(v, o)
    BY <1>1, <1>3, <1>4, <1>5, <1>7, <2>1 DEF AtWork
  <2>. QED
    BY <1>2, <1>7, <2>1, CoopFlightOnce
<1>8. CASE UNCHANGED <<work, requests, written, resumed, fault>>
  BY <1>1, <1>8, NothingWritten DEF requests
<1>. QED
  BY <1>6, <1>7, <1>8

\* A decision about i is carried out, by an answer or in a deferred step, in a wave that has
\* written nothing about i yet.
Decisive(i) ==
    /\ Onward /\ stage' \in {"messages", "deferred"} /\ stage \in Before(stage')
    /\ \A x \in {"decide", "select", "start_helper"} : <<i, x>> \notin due'
    /\ <<"handoff", i>> \notin written /\ <<"incident", i>> \notin written
    /\ incident[i].phase = "noticed" /\ resumed' = resumed

\* Why it has written nothing.
LEMMA DecisiveFacts ==
    ASSUME Ready, Onward, stage' \in {"messages", "deferred"}, stage \in Before(stage'),
           NEW i \in Incidents, NEW r, Deciding(i, r), resumed' = resumed,
           \A x \in {"decide", "select", "start_helper"} : <<i, x>> \notin due',
           \/ stage' = "messages" /\ incident[i].handoff # "requested"
           \/ <<i, "decide">> \in due \/ <<i, "select">> \in due
    PROVE  Decisive(i) /\ r.phase = "noticed"
<1>1. HandoffOK(i) /\ StageOK(i) /\ FreshOK
  BY ReadyFacts
<1>2. incident[i].phase = "noticed" /\ r.phase = "noticed"
  BY <1>1 DEF StageOK, Deciding, Live
<1>3. <<"incident", i>> \notin written
  BY <1>1, <1>2 DEF StageOK, Final, Before
<1>4. <<"handoff", i>> \notin written
  BY <1>1 DEF HandoffOK, FreshOK, Before
<1>. QED
  BY <1>2, <1>3, <1>4 DEF Decisive

\* What a decision leaves.
LEMMA DecisionMade ==
    ASSUME Ready, NEW i \in Incidents, Decisive(i),
           NEW s \in Records, incident' = [incident EXCEPT ![i] = s],
           s.responder = incident[i].responder,
           NEW F, F \subseteq {<<"handoff", i>>, <<"incident", i>>},
           \/ s.phase = "noticed" /\ <<"incident", i>> \notin F
           \/ s.phase \in {"reported", "decision_failed"},
           \/ stage' = "deferred"
           \/ ~Open(s) /\ (<<"handoff", i>> \in F => s.handoff = "requested"),
           NEW N \in SUBSET Jobs, written' = written \cup {<<"task", j>> : j \in N} \cup F,
           \A j \in N : state'[j] # "unreleased", \A j \in Jobs \ N : state'[j] = state[j],
           \A j \in N : \A o \in Incidents : ~Deal(o, j),
           NEW B \in SUBSET Vehicles, \A v \in B : HeldOK(v)',
           \A w \in Vehicles \ B : flight'[w] = flight[w] /\ \A j \in N : ~Has(w, j),
           NEW x \in Incidents \X {"decide", "select", "start_helper"}, steps' \subseteq steps \cup {x}
    PROVE  WrittenOK'
<1>1. incident'[i] = s /\ \A o \in Incidents \ {i} : incident'[o] = incident[o]
  BY ReadyFacts DEF TypeOK, WorkTypes
<1>2. Onward /\ stage' \in {"messages", "deferred"}
  BY DEF Decisive
<1>3. \A o \in Incidents : <<o, "response_due">> \in steps' => <<o, "response_due">> \in steps
  OBVIOUS
<1>4. \A o \in Incidents : Awaits(o, "response_due")' => Awaits(o, "response_due")
  BY <1>2, <1>3 DEF Awaits, Onward
<1>5. HandoffOK(i)'
  <2>1. <<"handoff", i>> \in written' => <<"handoff", i>> \in F
    BY DEF Decisive
  <2>. QED
    BY <1>1, <1>2, <2>1 DEF HandoffOK, Decisive
<1>6. StageOK(i)'
  <2>1. <<"incident", i>> \in written' => <<"incident", i>> \in F
    BY DEF Decisive
  <2>. QED
    BY <1>1, <2>1 DEF StageOK, Final
<1>7. PromptOK(i)'
  <2>1. PromptOK(i)
    BY ReadyFacts
  <2>. QED
    BY <1>2, <1>4, <2>1 DEF PromptOK, Onward, Decisive
<1>8. \A v \in B : Waits(v, {i})
  BY DEF Waits, Decisive, Before
<1>9. WrittenKept({i}, B, N, F)
  BY <1>1, <1>2, <1>3, <1>4, <1>5, <1>6, <1>7, <1>8 DEF WrittenKept, Decisive
<1>. QED
  BY <1>2, <1>9, WrittenUpdate, ReadyFacts

\* A decision that moves nobody.
LEMMA DecidedHereOnce ==
    ASSUME Ready, NEW i \in Incidents, Decisive(i),
           NEW s \in Records, incident' = [incident EXCEPT ![i] = s],
           s.responder = incident[i].responder, flight' = flight,
           NEW F, F \subseteq {<<"handoff", i>>, <<"incident", i>>}, Write(Nothing, F),
           \/ s.phase = "noticed" /\ <<"incident", i>> \notin F
           \/ s.phase \in {"reported", "decision_failed"},
           \/ stage' = "deferred"
           \/ ~Open(s) /\ (<<"handoff", i>> \in F => s.handoff = "requested"),
           NEW x \in Incidents \X {"decide", "select", "start_helper"}, steps' \subseteq steps \cup {x}
    PROVE  Once
<1>1. /\ fault' = "none" /\ written' = written \cup {<<"task", j>> : j \in {}} \cup F
      /\ \A j \in Jobs : state'[j] = state[j]
  BY WroteFacts, WriteNothing, ReadyFacts DEF Decisive
<1>2. {} \in SUBSET Jobs /\ {} \in SUBSET Vehicles
  OBVIOUS
<1>3. WrittenOK'
  BY <1>1, <1>2, DecisionMade
<1>. QED
  BY <1>1, <1>3 DEF Once

\* The responder leaves a job that was not written.
LEMMA DepartOnce ==
    ASSUME Ready, NEW i \in Incidents, Decisive(i),
           NEW s \in Records, incident' = [incident EXCEPT ![i] = s],
           s.responder = incident[i].responder, s.phase = "noticed",
           NEW v \in Vehicles, NEW f, f = flight[v], NEW g \in Flights,
           flight' = [flight EXCEPT ![v] = g], g.job = None,
           g.suspended = None \/ Busy(g),
           NEW F, F \subseteq {<<"handoff", i>>},
           Part(f) = "task", f.job # None => ~Wrote(f.job),
           Write(IF f.job = None THEN Nothing ELSE To(f.job, "paused"), F),
           stage' = "deferred" \/ (~Open(s) /\ F = {}),
           steps' \subseteq steps \cup {<<i, "start_helper">>}
    PROVE  Once
<1> DEFINE N == IF f.job = None THEN {} ELSE {f.job}
<1>0. f.job \in Jobs \cup {None} /\ flight \in [Vehicles -> Flights]
  BY ReadyFacts DEF TypeOK, WorkTypes, Flights
<1>1. /\ fault' = "none" /\ written' = written \cup {<<"task", j>> : j \in N} \cup F
      /\ \A j \in Jobs : state'[j] = IF j \in N THEN "paused" ELSE state[j]
  <2>0. \A y \in F : y \notin written
    BY DEF Decisive
  <2>1. CASE f.job = None
    BY <2>0, <2>1, WroteFacts, WriteNothing, ReadyFacts
  <2>2. CASE f.job # None
    <3>1. Write(To(f.job, "paused"), F) /\ "paused" \in States
      BY <2>2 DEF States
    <3>. QED
      BY <2>0, <2>2, <3>1, WroteTo, WriteTo, ReadyFacts
  <2>. QED
    BY <2>1, <2>2
<1>2. flight'[v] = g /\ \A w \in Vehicles \ {v} : flight'[w] = flight[w]
  BY <1>0
<1>3. HeldOK(v)'
  BY <1>2 DEF HeldOK
<1>4. \A j \in N : (\A w \in Vehicles \ {v} : ~Has(w, j)) /\ \A o \in Incidents : ~Deal(o, j)
  <2>1. \A j \in N : j \in Jobs /\ Has(v, j)
    BY <1>0 DEF Has
  <2>. QED
    BY <2>1, HeldAlone DEF Ready
<1>5. N \in SUBSET Jobs /\ {v} \in SUBSET Vehicles /\ \A j \in N : state'[j] # "unreleased"
  BY <1>0, <1>1
<1>6. \A j \in Jobs \ N : state'[j] = state[j]
  BY <1>1
<1>. HIDE DEF N
<1>7. WrittenOK'
  <2>. DEFINE x == <<i, "start_helper">>
              B == {v}
  <2>1. x \in Incidents \X {"decide", "select", "start_helper"} /\ steps' \subseteq steps \cup {x}
    OBVIOUS
  <2>2. F \subseteq {<<"handoff", i>>, <<"incident", i>>} /\ <<"incident", i>> \notin F
    OBVIOUS
  <2>3. stage' = "deferred" \/ (~Open(s) /\ (<<"handoff", i>> \in F => s.handoff = "requested"))
    OBVIOUS
  <2>4. /\ B \in SUBSET Vehicles /\ \A w \in B : HeldOK(w)'
        /\ \A w \in Vehicles \ B : flight'[w] = flight[w] /\ \A j \in N : ~Has(w, j)
    BY <1>2, <1>3, <1>4
  <2>. HIDE DEF x, B
  <2>. QED
    BY <1>1, <1>4, <1>5, <1>6, <2>1, <2>2, <2>3, <2>4, DecisionMade
<1>. QED
  BY <1>1, <1>7 DEF Once

\* A decision writes what was not written.
LEMMA DecideOnce ==
    ASSUME Ready, NEW i \in Incidents, NEW r, Deciding(i, r), Decisive(i), r.phase = "noticed",
           NEW facts, facts = {} \/ (facts = {<<"handoff", i>>} /\ stage' = "deferred"),
           NEW v \in Vehicles, v = r.responder, NEW f \in Flights, f = flight[v],
           f.job # None => ~Wrote(f.job),
           NEW rest, NEW able, NEW c \in Allowed(r, f, able), Decide(i, r, c, facts, rest)
    PROVE  Once
<1>1. r \in Records /\ flight \in [Vehicles -> Flights] /\ r.responder = incident[i].responder
      /\ ~Open(r)
  BY ReadyFacts DEF TypeOK, WorkTypes, Deciding, Settled, Open
<1>2. /\ c \in Options
      /\ c # "report_only" => f.purpose = "task"
      /\ c \in {"respond_now", "request_handoff"} /\ f.job # None => f.suspended = None
      /\ c = "request_handoff" => f.job \in Jobs
  BY AllowedFacts
<1>3. (facts \subseteq {<<"handoff", i>>} /\ stage' = "deferred") \/ facts = {}
  OBVIOUS
<1>4. CASE c = "report_only"
  <2> DEFINE s == [r EXCEPT !.choice = c, !.phase = "reported"]
             F == facts \cup {<<"incident", i>>}
  <2>1. Put(i, s, v, f) /\ Write(Nothing, F) /\ steps' = steps
    BY <1>4, Zenon DEF Decide, F
  <2>2. /\ s \in Records /\ s.responder = r.responder /\ s.handoff = r.handoff
        /\ s.choice = c /\ s.phase = "reported"
    <3>1. c \in Options \cup {None} /\ r \in Records
      BY <1>1, <1>2
    <3>. HIDE DEF F
    <3>. QED
      BY <3>1, ReportRecord, ZenonT(40)
  <2>. HIDE DEF s
  <2>3. incident' = [incident EXCEPT ![i] = s] /\ flight' = flight
    BY <1>1, <2>1 DEF Put
  <2>4. ~Open(s) /\ F \subseteq {<<"handoff", i>>, <<"incident", i>>}
        /\ (stage' = "deferred" \/ <<"handoff", i>> \notin F)
    BY <1>1, <1>3, <2>2 DEF Open
  <2>5. <<i, "select">> \in Incidents \X {"decide", "select", "start_helper"}
        /\ steps' \subseteq steps \cup {<<i, "select">>}
    BY <2>1
  <2>. HIDE DEF F
  <2>. QED
    BY <1>1, <2>1, <2>2, <2>3, <2>4, <2>5, DecidedHereOnce
<1>5. CASE c = "respond_now"
  <2> DEFINE s == [r EXCEPT !.choice = c]
  <2>1. Put(i, s, v, Depart(f)) /\ Write(Left(f), facts) /\ steps' = steps
    BY <1>5, Zenon DEF Decide
  <2>2. /\ s \in Records /\ s.responder = r.responder /\ s.handoff = r.handoff
        /\ s.choice = c /\ s.phase = r.phase
    BY <1>1, <1>2, ChoiceRecord
  <2>. HIDE DEF s
  <2>3. incident' = [incident EXCEPT ![i] = s] /\ flight' = [flight EXCEPT ![v] = Depart(f)]
    BY <2>1 DEF Put
  <2>4. Depart(f) \in Flights /\ Depart(f).job = None /\ Busy(Depart(f)) /\ Part(f) = "task"
    BY <1>2, <1>5, DepartEffect, ReadyFacts DEF Busy, Part, Controlled
  <2>5. Write(IF f.job = None THEN Nothing ELSE To(f.job, "paused"), facts)
    BY <2>1 DEF Left
  <2>6. ~Open(s)
    BY <1>1, <2>2 DEF Open
  <2>. QED
    BY <1>1, <1>3, <2>1, <2>2, <2>3, <2>4, <2>5, <2>6, DepartOnce
<1>6. CASE c = "finish_then_respond"
  <2> DEFINE s == [r EXCEPT !.choice = c]
  <2>1. Put(i, s, v, f) /\ Write(Nothing, facts) /\ steps' = steps
    BY <1>6, Zenon DEF Decide
  <2>2. /\ s \in Records /\ s.responder = r.responder /\ s.handoff = r.handoff
        /\ s.choice = c /\ s.phase = r.phase
    BY <1>1, <1>2, ChoiceRecord
  <2>. HIDE DEF s
  <2>3. incident' = [incident EXCEPT ![i] = s] /\ flight' = flight
    BY <1>1, <2>1 DEF Put
  <2>4. ~Open(s) /\ facts \subseteq {<<"handoff", i>>, <<"incident", i>>} /\ <<"incident", i>> \notin facts
        /\ (stage' = "deferred" \/ <<"handoff", i>> \notin facts)
    BY <1>1, <1>3, <2>2 DEF Open
  <2>5. <<i, "select">> \in Incidents \X {"decide", "select", "start_helper"}
        /\ steps' \subseteq steps \cup {<<i, "select">>}
    BY <2>1
  <2>. QED
    BY <1>1, <2>1, <2>2, <2>3, <2>4, <2>5, DecidedHereOnce
<1>7. CASE c = "request_handoff"
  <2> DEFINE s == [r EXCEPT !.choice = "request_handoff", !.job = f.job, !.handoff = "requested"]
             asks(C) == [h \in C |-> "open"]
             says(C) == [h \in C |-> IF policy.always \/ (Free(flight[h]) /\ flight[h].held # "charge")
                                      THEN "yes" ELSE "no"]
             F == {<<"handoff", i>>}
  <2>1. Request(i, r, f, rest)
    BY <1>7, Zenon DEF Decide
  <2>2. PICK C \in SUBSET {h \in policy.helpers : Candidate(i, h)} :
           /\ \/ /\ incident' = [incident EXCEPT ![i] = [s EXCEPT !.offers = asks(C)]]
                 /\ steps' = steps
              \/ /\ incident' = [incident EXCEPT ![i] = [s EXCEPT !.offers = says(C)]]
                 /\ steps' = steps \cup {<<i, "select">>}
           /\ Write(Nothing, F)
           /\ flight' = flight
    BY <2>1, Zenon DEF Request, F
  <2>3. C \in SUBSET Vehicles
    BY PoliciesAssumption, ReadyFacts DEF TypeOK, WaveTypes
  <2>4. asks(C) \in [C -> Answers] /\ says(C) \in [C -> Answers]
    BY DEF Answers
  <2>5. Write(Nothing, F) /\ flight' = flight
    BY <2>2, Zenon
  <2>6. f.job \in Jobs
    BY <1>2, <1>7
  <2>7. /\ s \in Records /\ s.responder = r.responder /\ s.phase = r.phase
        /\ s.handoff = "requested"
    BY <1>1, <2>6 DEF Records, Options
  <2>. HIDE DEF s, asks, says
  <2>8. PICK a \in [C -> Answers] : incident' = [incident EXCEPT ![i] = [s EXCEPT !.offers = a]]
    BY <2>2, <2>4, Zenon
  <2>9. steps' \subseteq steps \cup {<<i, "select">>}
        /\ <<i, "select">> \in Incidents \X {"decide", "select", "start_helper"}
    BY <2>2
  <2> DEFINE t == [s EXCEPT !.offers = a]
  <2>10. t \in Records /\ t.responder = r.responder /\ t.phase = r.phase /\ t.handoff = "requested"
    BY <2>3, <2>7, OffersRecord
  <2>. HIDE DEF t
  <2>11. incident' = [incident EXCEPT ![i] = t]
    BY <2>8, Zenon DEF t
  <2>12. /\ t.responder = incident[i].responder /\ ~Open(t) /\ t.phase = "noticed"
         /\ F \subseteq {<<"handoff", i>>, <<"incident", i>>} /\ <<"incident", i>> \notin F
    BY <1>1, <2>10 DEF Open
  <2>. HIDE DEF F
  <2>. QED
    BY <2>5, <2>9, <2>10, <2>11, <2>12, DecidedHereOnce
<1>. QED
  BY <1>2, <1>4, <1>5, <1>6, <1>7 DEF Options

\* An answer of a responder's model.
LEMMA ResponderReplyOnce ==
    ASSUME Ready, At("messages"), due' = due, resumed' = resumed, NEW i \in Incidents,
           ResponderReply(i)
    PROVE  Once
<1>0. PICK r \in Records : r = incident[i]
  BY ReadyFacts DEF TypeOK, WorkTypes
<1> DEFINE rest == asked \ {<<i, r.responder, "responder">>}
           s == [r EXCEPT !.choice = None, !.phase = "decision_failed"]
           F == {<<"incident", i>>}
<1>1. /\ rest # asked
      /\ \/ \E able \in BOOLEAN : \E c \in Allowed(r, flight[r.responder], able) :
                Decide(i, r, c, {}, rest)
         \/ /\ incident' = [incident EXCEPT ![i] = s] /\ Write(Nothing, F)
            /\ UNCHANGED <<flight, steps>>
  BY <1>0, Zenon DEF ResponderReply, rest, s, F
<1>2. Onward /\ stage' = "messages" /\ stage \in Before("messages")
  BY AtOnward
<1>3. RecordOK(r) /\ StepsOK(i) /\ AskedOK(i)
  BY <1>0, ReadyFacts
<1>4. PICK v \in Vehicles : v = r.responder /\ <<i, r.responder, "responder">> \in asked
  BY <1>1, ReadyFacts DEF TypeOK, WorkTypes
<1>5. Live(r) /\ r.choice = None /\ Settled(r) /\ ~Awaits(i, "decide")
  BY <1>0, <1>3, <1>4 DEF AskedOK
<1>6. Deciding(i, r)
  BY <1>0, <1>4, <1>5 DEF Deciding
<1>7. \A x \in {"decide", "select", "start_helper"} : <<i, x>> \notin due'
  BY <1>0, <1>3, <1>5 DEF StepsOK, Settled, Open, Awaits
<1>8. Decisive(i) /\ r.phase = "noticed"
  <2>1. incident[i].handoff # "requested"
    BY <1>0, <1>5 DEF Settled
  <2>. QED
    BY <1>2, <1>6, <1>7, <2>1, DecisiveFacts
<1>9. PICK f \in Flights : f = flight[v]
  BY ReadyFacts DEF TypeOK, WorkTypes
<1>10. f.job # None => ~Wrote(f.job)
  BY <1>2, <1>9, HeldNew DEF Before
<1>11. /\ s \in Records /\ s.responder = r.responder /\ s.handoff = r.handoff
       /\ s.phase = "decision_failed"
  BY DEF Records
<1>. HIDE DEF s, rest
<1>12. ASSUME NEW able, NEW c \in Allowed(r, flight[r.responder], able),
              Decide(i, r, c, {}, rest)
       PROVE  Once
  <2>1. c \in Allowed(r, f, able)
    BY <1>4, <1>9, <1>12
  <2>. QED
    BY <1>4, <1>6, <1>8, <1>9, <1>10, <1>12, <2>1, DecideOnce
<1>13. CASE /\ incident' = [incident EXCEPT ![i] = s] /\ Write(Nothing, F)
            /\ UNCHANGED <<flight, steps>>
  <2>1. ~Open(s) /\ F \subseteq {<<"handoff", i>>, <<"incident", i>>} /\ <<"handoff", i>> \notin F
    BY <1>5, <1>11 DEF Open, Settled
  <2>2. <<i, "select">> \in Incidents \X {"decide", "select", "start_helper"}
        /\ steps' \subseteq steps \cup {<<i, "select">>}
    BY <1>13
  <2>. HIDE DEF F
  <2>. QED
    BY <1>0, <1>8, <1>11, <1>13, <2>1, <2>2, DecidedHereOnce
<1>. QED
  BY <1>1, <1>12, <1>13, Zenon

\* An answer of a candidate's model.
LEMMA HelperReplyOnce ==
    ASSUME Ready, At("messages"), due' = due, resumed' = resumed, NEW i \in Incidents,
           NEW h \in DOMAIN incident[i].offers, HelperReply(i, h)
    PROVE  Once
<1>0. PICK r \in Records : r = incident[i]
  BY ReadyFacts DEF TypeOK, WorkTypes
<1>1. PICK offers :
         /\ <<i, h, "helper">> \in asked
         /\ incident' = [incident EXCEPT ![i].offers = offers]
         /\ steps' = steps \/ steps' = steps \cup {<<i, "select">>}
         /\ UNCHANGED <<state, flight, written, fault>>
  BY <1>0, Zenon DEF HelperReply
<1>2. HandoffOK(i) /\ StageOK(i) /\ PromptOK(i) /\ AskedOK(i) /\ FreshOK
  BY ReadyFacts
<1>3. Onward /\ stage' = "messages" /\ stage \in Before("messages")
  BY AtOnward
<1>4. r.handoff = "requested"
  <2>1. h \in Vehicles
    BY <1>1, ReadyFacts DEF TypeOK, WorkTypes
  <2>. QED
    BY <1>0, <1>1, <1>2, <2>1 DEF AskedOK
<1>5. /\ \A o \in Incidents \ {i} : incident'[o] = incident[o]
      /\ incident'[i].phase = r.phase /\ incident'[i].choice = r.choice
      /\ incident'[i].dwell = r.dwell /\ incident'[i].handoff = r.handoff
      /\ incident'[i].responder = r.responder
  BY <1>0, <1>1, ReadyFacts DEF TypeOK, WorkTypes, Records
<1>6. HandoffOK(i)'
  BY <1>0, <1>1, <1>2, <1>3, <1>4, <1>5 DEF HandoffOK, Onward, Open
<1>7. StageOK(i)'
  BY <1>0, <1>1, <1>2, <1>3, <1>5 DEF StageOK, Before, Turned
<1>8. PromptOK(i)'
  <2>1. ~policy.hover => ~Awaits(i, "response_due")
    BY <1>0, <1>2, <1>4 DEF PromptOK, StageOK
  <2>2. Awaits(i, "response_due")' => Awaits(i, "response_due")
    BY <1>1 DEF Awaits
  <2>. QED
    BY <1>3, <2>1, <2>2 DEF PromptOK, Onward
<1>9. WrittenOK'
  <2>1. /\ {} \subseteq {<<"handoff", i>>, <<"incident", i>>} /\ written' = written \cup {}
        /\ <<i, "select">> \in Incidents \X {"decide", "select", "start_helper"}
        /\ steps' \subseteq steps \cup {<<i, "select">>}
        /\ \A j \in Jobs : state'[j] = state[j]
        /\ flight' = flight
    BY <1>1
  <2>. QED
    BY <1>0, <1>3, <1>5, <1>6, <1>7, <1>8, <2>1, IncidentOnly
<1>. QED
  BY <1>1, <1>9, ReadyFacts DEF Once

\* The answers that a wave brings.
LEMMA ReplyOnce ==
    ASSUME Ready, NEW i \in Incidents, Reply(i)
    PROVE  Once
<1>1. /\ At("messages") /\ UNCHANGED <<due, turn, resumed, trouble>>
      /\ ResponderReply(i) \/ \E h \in DOMAIN incident[i].offers : HelperReply(i, h)
  BY Zenon DEF Reply
<1>. QED
  BY <1>1, ResponderReplyOnce, HelperReplyOnce

\* The job of a vehicle that has a decision to make was not written.
LEMMA DecidesNew ==
    ASSUME Ready, stage \in Before("deferred"), NEW i \in Incidents, NEW v \in Vehicles,
           v = incident[i].responder, <<i, "decide">> \in due \/ <<i, "select">> \in due,
           flight[v].job # None
    PROVE  ~Wrote(flight[v].job)
<1>1. HeldOK(v) /\ Decides(v)
  BY ReadyFacts DEF Decides
<1>. QED
  BY <1>1 DEF HeldOK, Turned, Before

\* _coop_decide, deferred.
LEMMA DecideStepOnce ==
    ASSUME Ready, At("deferred"), resumed' = resumed, NEW i \in Incidents,
           <<i, "decide">> \in due, due' = due \ {<<i, "decide">>}, DecideStep(i)
    PROVE  Once
<1>0. PICK r \in Records : r = incident[i]
  BY ReadyFacts DEF TypeOK, WorkTypes
<1>1. PICK able \in BOOLEAN :
         Decide(i, r, First(Order, Allowed(r, flight[r.responder], able)), {}, asked)
  BY <1>0, Zenon DEF DecideStep
<1>2. PICK c : c = First(Order, Allowed(r, flight[r.responder], able))
  OBVIOUS
<1>3. c \in Allowed(r, flight[r.responder], able)
  <2>1. "report_only" \in Allowed(r, flight[r.responder], able)
    BY DEF Allowed
  <2>. QED
    BY <1>2, <2>1, FirstAllowed, ReadyFacts DEF TypeOK, WaveTypes
<1>4. RecordOK(r) /\ StepsOK(i)
  BY <1>0, ReadyFacts
<1>5. r.handoff = "idle" /\ r.choice = None /\ Live(r)
  BY <1>0, <1>4 DEF StepsOK, Awaits
<1>6. Deciding(i, r)
  BY <1>0, <1>4, <1>5 DEF Deciding, RecordOK, Live, Settled
<1>7. Onward /\ stage' = "deferred" /\ stage \in Before("deferred")
  BY AtOnward
<1>8. \A x \in {"decide", "select", "start_helper"} : <<i, x>> \notin due'
  BY <1>0, <1>4, <1>5 DEF StepsOK, Open, Awaits
<1>9. Decisive(i) /\ r.phase = "noticed"
  BY <1>6, <1>7, <1>8, DecisiveFacts
<1>10. PICK v \in Vehicles, f \in Flights : v = r.responder /\ f = flight[v]
  BY <1>6, ReadyFacts DEF Deciding, TypeOK, WorkTypes
<1>11. f.job # None => ~Wrote(f.job)
  BY <1>0, <1>7, <1>10, DecidesNew
<1>12. Decide(i, r, c, {}, asked) /\ c \in Allowed(r, f, able)
  BY <1>1, <1>2, <1>3, <1>10, Zenon
<1>. QED
  BY <1>6, <1>9, <1>10, <1>11, <1>12, DecideOnce

\* The responder sets out to bring a job that was not written.
LEMMA BringOnce ==
    ASSUME Ready, NEW i \in Incidents, Decisive(i), stage' = "deferred",
           NEW s \in Records, incident' = [incident EXCEPT ![i] = s],
           s.responder = incident[i].responder, s.phase = "noticed",
           NEW v \in Vehicles, NEW g \in Flights, flight' = [flight EXCEPT ![v] = g],
           g.job = flight[v].job, g.suspended = None,
           flight[v].job # None => ~Wrote(flight[v].job),
           Write(Nothing, {<<"handoff", i>>}), steps' \subseteq steps \cup {<<i, "start_helper">>}
    PROVE  Once
<1>1. /\ fault' = "none" /\ written' = written \cup {<<"task", j>> : j \in {}} \cup {<<"handoff", i>>}
      /\ \A j \in Jobs : state'[j] = state[j]
  BY WroteFacts, WriteNothing, ReadyFacts DEF Decisive
<1>2. flight'[v] = g /\ \A w \in Vehicles \ {v} : flight'[w] = flight[w]
  BY ReadyFacts DEF TypeOK, WorkTypes
<1>3. HeldOK(v)'
  BY <1>1, <1>2 DEF HeldOK, Wrote
<1> DEFINE x == <<i, "start_helper">>
           B == {v}
           N == {}
           F == {<<"handoff", i>>}
<1>4. x \in Incidents \X {"decide", "select", "start_helper"} /\ steps' \subseteq steps \cup {x}
  OBVIOUS
<1>5. F \subseteq {<<"handoff", i>>, <<"incident", i>>} /\ <<"incident", i>> \notin F
  OBVIOUS
<1>6. /\ B \in SUBSET Vehicles /\ \A w \in B : HeldOK(w)'
      /\ \A w \in Vehicles \ B : flight'[w] = flight[w] /\ \A j \in N : ~Has(w, j)
  BY <1>2, <1>3
<1>7. /\ N \in SUBSET Jobs /\ written' = written \cup {<<"task", j>> : j \in N} \cup F
      /\ \A j \in N : state'[j] # "unreleased" /\ \A o \in Incidents : ~Deal(o, j)
      /\ \A j \in Jobs \ N : state'[j] = state[j]
  BY <1>1
<1>. HIDE DEF x, B, N, F
<1>8. WrittenOK'
  BY <1>4, <1>5, <1>6, <1>7, DecisionMade
<1>. QED
  BY <1>1, <1>8 DEF Once

\* _coop_select: the candidates are refused, or one of them is agreed with.
LEMMA SelectStepOnce ==
    ASSUME Ready, At("deferred"), resumed' = resumed, NEW i \in Incidents,
           <<i, "select">> \in due, due' = due \ {<<i, "select">>}, SelectStep(i)
    PROVE  Once
<1>0. PICK r \in Records : r = incident[i]
  BY ReadyFacts DEF TypeOK, WorkTypes
<1>1. RecordOK(r) /\ StepsOK(i)
  BY <1>0, ReadyFacts
<1>2. r.handoff = "requested" /\ Live(r) /\ r.responder \in Vehicles /\ r.job \in Jobs
  BY <1>0, <1>1 DEF StepsOK, Awaits, RecordOK, Live, Settled
<1>3. PICK v \in Vehicles, f \in Flights : v = r.responder /\ f = flight[v]
  BY <1>2, ReadyFacts DEF TypeOK, WorkTypes
<1>4. Onward /\ stage' = "deferred" /\ stage \in Before("deferred")
  BY AtOnward
<1>5. f.job # None => ~Wrote(f.job)
  BY <1>0, <1>3, <1>4, DecidesNew
<1>6. PICK a \in {"failed", "declined"} : SelectsFor(i, r, f, [r EXCEPT !.handoff = a])
  BY <1>0, <1>3, SelectCases
<1> DEFINE refused == [r EXCEPT !.handoff = a]
           again == [refused EXCEPT !.choice = None]
           s(h, b) == [r EXCEPT !.helper = h, !.point = b, !.handoff = "accepted"]
           brings == [f EXCEPT !.purpose = "handoff_drop", !.leg = "braking"]
           parked == [f EXCEPT !.job = None]
           F == {<<"handoff", i>>}
<1>7. /\ refused \in Records /\ refused.responder = r.responder /\ refused.phase = r.phase
      /\ refused.handoff = a
      /\ again \in Records /\ again.responder = r.responder /\ again.phase = r.phase
  BY ZenonT(40) DEF Records
<1>8. \A h \in DOMAIN r.offers, b \in BOOLEAN :
         /\ s(h, b) \in Records /\ s(h, b).responder = r.responder /\ s(h, b).phase = r.phase
  <2>1. DOMAIN r.offers \subseteq Vehicles
    BY DEF Records
  <2>2. ASSUME NEW h \in Vehicles, NEW b \in BOOLEAN
        PROVE  LET q == [r EXCEPT !.helper = h, !.point = b, !.handoff = "accepted"] IN
               q \in Records /\ q.responder = r.responder /\ q.phase = r.phase
    BY ZenonT(40) DEF Records
  <2>. QED
    BY <2>1, <2>2, Zenon
<1>9. /\ brings \in Flights /\ brings.job = f.job /\ brings.suspended = f.suspended
      /\ parked \in Flights /\ parked.job = None /\ parked.suspended = f.suspended
  BY ZenonT(40) DEF Flights
<1>10. \/ \E able \in BOOLEAN :
             Decide(i, refused, First(AfterHandoff, Allowed(refused, f, able)), F, asked)
       \/ /\ incident' = [incident EXCEPT ![i] = again] /\ Write(Nothing, F)
          /\ UNCHANGED <<flight, steps>>
       \/ /\ f.job = r.job /\ \E able \in BOOLEAN : "request_handoff" \in Allowed(r, f, able)
          /\ \E h \in DOMAIN r.offers :
                /\ steps' = steps \cup {<<i, "start_helper">>}
                /\ \/ Put(i, s(h, TRUE), r.responder, brings) /\ Write(Nothing, F)
                   \/ /\ Put(i, s(h, FALSE), r.responder, Depart(parked))
                      /\ Write(To(r.job, "paused"), F)
  BY <1>6, Zenon DEF SelectsFor, Ask
<1>. HIDE DEF refused, again, s, brings, parked
<1>11. Deciding(i, refused)
  BY <1>0, <1>2, <1>7 DEF Deciding, Settled, Live
<1>12. \A x \in {"decide", "select", "start_helper"} : <<i, x>> \notin due'
  BY <1>0, <1>1, <1>2 DEF StepsOK, Open, Awaits
<1>13. Decisive(i) /\ r.phase = "noticed"
  BY <1>4, <1>7, <1>11, <1>12, DecisiveFacts
<1>14. F \subseteq {<<"handoff", i>>, <<"incident", i>>} /\ <<"incident", i>> \notin F
       /\ F \subseteq {<<"handoff", i>>} /\ \A y \in F : y \notin written
  BY <1>13 DEF Decisive
<1>15. /\ <<i, "start_helper">> \in Incidents \X {"decide", "select", "start_helper"}
  OBVIOUS
<1>16. CASE \E able \in BOOLEAN :
               Decide(i, refused, First(AfterHandoff, Allowed(refused, f, able)), F, asked)
  <2>1. PICK able \in BOOLEAN :
           Decide(i, refused, First(AfterHandoff, Allowed(refused, f, able)), F, asked)
    BY <1>16, Zenon
  <2>2. PICK c : c = First(AfterHandoff, Allowed(refused, f, able))
    OBVIOUS
  <2>3. c \in Allowed(refused, f, able)
    <3>1. "report_only" \in Allowed(refused, f, able)
      BY DEF Allowed
    <3>. QED
      BY <2>2, <3>1, FirstAllowed, AfterHandoffIsOrder, ReadyFacts DEF TypeOK, WaveTypes
  <2>4. Decide(i, refused, c, F, asked)
    BY <2>1, <2>2, Zenon
  <2>. QED
    BY <1>3, <1>4, <1>5, <1>7, <1>11, <1>13, <2>3, <2>4, DecideOnce
<1>17. CASE /\ incident' = [incident EXCEPT ![i] = again] /\ Write(Nothing, F)
            /\ UNCHANGED <<flight, steps>>
  <2>1. steps' \subseteq steps \cup {<<i, "start_helper">>}
    BY <1>17
  <2>. HIDE DEF F
  <2>. QED
    BY <1>0, <1>4, <1>7, <1>13, <1>14, <1>15, <1>17, <2>1, DecidedHereOnce
<1>18. ASSUME f.job = r.job, NEW able, "request_handoff" \in Allowed(r, f, able)
       PROVE  f.purpose = "task" /\ f.suspended = None /\ f.job # None /\ Part(f) = "task"
  BY <1>2, <1>18, AllowedFacts, NamesAssumption DEF Part, Controlled
<1>19. ASSUME f.job = r.job, NEW able, "request_handoff" \in Allowed(r, f, able),
              NEW h \in DOMAIN r.offers, steps' = steps \cup {<<i, "start_helper">>},
              Put(i, s(h, TRUE), r.responder, brings), Write(Nothing, F)
       PROVE  Once
  <2>1. PICK q \in Records : q = s(h, TRUE)
    BY <1>8, <1>19
  <2>2. q.responder = incident[i].responder /\ q.phase = "noticed"
    BY <1>0, <1>8, <1>13, <1>19, <2>1
  <2>3. incident' = [incident EXCEPT ![i] = q] /\ flight' = [flight EXCEPT ![v] = brings]
    BY <1>3, <1>19, <2>1, Zenon DEF Put
  <2>4. /\ brings.job = flight[v].job /\ brings.suspended = None
        /\ flight[v].job # None => ~Wrote(flight[v].job)
    BY <1>3, <1>5, <1>9, <1>18, <1>19
  <2>5. steps' \subseteq steps \cup {<<i, "start_helper">>} /\ Write(Nothing, {<<"handoff", i>>})
    BY <1>19
  <2>. HIDE DEF F
  <2>. QED
    BY <1>4, <1>9, <1>13, <2>2, <2>3, <2>4, <2>5, BringOnce
<1>20. ASSUME f.job = r.job, NEW able, "request_handoff" \in Allowed(r, f, able),
              NEW h \in DOMAIN r.offers, steps' = steps \cup {<<i, "start_helper">>},
              Put(i, s(h, FALSE), r.responder, Depart(parked)), Write(To(r.job, "paused"), F)
       PROVE  Once
  <2>1. PICK q \in Records : q = s(h, FALSE)
    BY <1>8, <1>20
  <2>2. q.responder = incident[i].responder /\ q.phase = "noticed"
    BY <1>0, <1>8, <1>13, <1>20, <2>1
  <2>3. PICK g \in Flights : g = Depart(parked) /\ g.job = None /\ g.suspended = None
    BY <1>9, <1>18, <1>20, DepartEffect, ReadyFacts
  <2>4. incident' = [incident EXCEPT ![i] = q] /\ flight' = [flight EXCEPT ![v] = g]
    BY <1>3, <1>20, <2>1, <2>3, Zenon DEF Put
  <2>5. Part(f) = "task" /\ f.job # None /\ Write(IF f.job = None THEN Nothing ELSE To(f.job, "paused"), F)
    BY <1>18, <1>20
  <2>6. steps' \subseteq steps \cup {<<i, "start_helper">>}
    BY <1>20
  <2>. HIDE DEF F
  <2>. QED
    BY <1>3, <1>4, <1>5, <1>13, <1>14, <2>2, <2>3, <2>4, <2>5, <2>6, DepartOnce
<1>. QED
  BY <1>10, <1>16, <1>17, <1>19, <1>20, Zenon

\* Who takes a job over has no decision to make.
LEMMA HelperDecidesNothing ==
    ASSUME Ready, NEW i \in Incidents, Open(incident[i]), NEW v \in Vehicles, v = incident[i].helper
    PROVE  ~Decides(v)
<1>1. SUFFICES ASSUME NEW o \in Incidents, incident[o].responder = v,
                      <<o, "decide">> \in due \/ <<o, "select">> \in due
               PROVE  FALSE
  BY DEF Decides
<1>2. RecordOK(incident[o]) /\ StepsOK(o)
  BY ReadyFacts
<1>3. Live(incident[o]) /\ ~Open(incident[o])
  BY <1>1, <1>2 DEF StepsOK, RecordOK, Awaits, Open
<1>4. Engaged(o, v) /\ Engaged(i, v)
  BY <1>1, <1>3 DEF Engaged, Live, Final, Open
<1>5. o = i
  BY <1>4 DEF Ready, IInv, Dealings, OneEngagement
<1>. QED
  BY <1>3, <1>5

\* _coop_start_helper: the helper sets out for the parcel, or takes the job over.
LEMMA HelperStepOnce ==
    ASSUME Ready, At("deferred"), resumed' = resumed, NEW i \in Incidents,
           <<i, "start_helper">> \in due, due' = due \ {<<i, "start_helper">>}, HelperStep(i)
    PROVE  Once
<1>0. PICK r \in Records : r = incident[i]
  BY ReadyFacts DEF TypeOK, WorkTypes
<1>1. /\ RecordOK(r) /\ StepsOK(i) /\ HandoffOK(i) /\ StageOK(i) /\ PromptOK(i) /\ FreshOK
      /\ TypeOK /\ IInv
  BY <1>0, ReadyFacts
<1>2. Open(r) /\ r.job \in Jobs /\ r.helper \in Vehicles
  <2>1. Open(r)
    BY <1>0, <1>1 DEF StepsOK, Awaits
  <2>. QED
    BY <1>1, <2>1 DEF RecordOK, Settled, Open
<1>3. PICK v \in Vehicles, f \in Flights : v = r.helper /\ f = flight[v]
  BY <1>1, <1>2 DEF TypeOK, WorkTypes
<1> DEFINE s == [r EXCEPT !.handoff = "transferred"]
           fetching == [f EXCEPT !.purpose = "handoff_pickup", !.leg = "idle"]
           taking == [f EXCEPT !.job = r.job, !.leg = "idle"]
           j == r.job
           F == {<<"handoff", i>>}
<1>4. \/ UNCHANGED <<work, requests, written, fault>>
      \/ /\ Available(f) /\ r.point /\ requests' = requests
         /\ Put(i, r, v, fetching) /\ Write(Nothing, {})
      \/ /\ Available(f) /\ ~r.point /\ requests' = requests
         /\ Put(i, s, v, taking) /\ Write(To(j, "assigned"), F)
  BY <1>0, <1>3, Zenon DEF HelperStep, s, fetching, taking, j, F
<1>5. /\ s \in Records /\ s.responder = r.responder /\ s.choice = r.choice /\ s.phase = r.phase
      /\ s.dwell = r.dwell /\ s.handoff = "transferred"
  BY DEF Records
<1>6. /\ fetching.job = f.job /\ fetching.suspended = f.suspended
      /\ taking.job = j /\ taking.suspended = f.suspended
  BY DEF Flights
<1>. HIDE DEF s, fetching, taking
<1>7. Onward /\ stage' = "deferred" /\ stage \in Before("deferred") /\ \A w : ~Turned(w)
  BY AtOnward DEF Turned, Before
<1>8. Available(f) => /\ f.job = None /\ f.purpose = "task"
                      /\ f.suspended # None => ~Wrote(f.suspended)
  <2>1. Available(f) => f.job = None /\ f.purpose = "task" /\ ~Busy(f)
    BY DEF Available, Free
  <2>2. ~Busy(f) /\ f.suspended # None => ~Wrote(f.suspended)
    BY <1>3, <1>7, HeldNew
  <2>. QED
    BY <2>1, <2>2
<1>9. CASE UNCHANGED <<work, requests, written, fault>>
  BY <1>7, <1>9, NothingWritten DEF requests
<1>10. CASE /\ Available(f) /\ r.point /\ requests' = requests
            /\ Put(i, r, v, fetching) /\ Write(Nothing, {})
  <2>1. incident' = incident /\ flight'[v] = fetching /\ steps' = steps
        /\ \A w \in Vehicles \ {v} : flight'[w] = flight[w]
    BY <1>0, <1>1, <1>10 DEF Put, TypeOK, WorkTypes, requests
  <2>2. fault' = "none" /\ written' = written /\ state' = state
    <3>1. \A k \in Jobs : state'[k] = state[k]
      BY <1>1, <1>10, WriteNothing
    <3>2. state' \in [Jobs -> States] /\ state \in [Jobs -> States]
      BY ReadyFacts DEF TypeOK, WorkTypes
    <3>. QED
      BY <1>10, <3>1, <3>2, WroteFacts, SMTT(30)
  <2>3. HeldOK(v)'
    BY <1>6, <1>8, <1>10, <2>1, <2>2 DEF HeldOK, Wrote
  <2>4. flight[v].purpose # "incident_response"
    BY <1>3, <1>8, <1>10
  <2>5. WrittenOK'
    BY <1>7, <2>1, <2>2, <2>3, <2>4, VehicleOnly
  <2>. QED
    BY <2>2, <2>5 DEF Once
<1>11. CASE /\ Available(f) /\ ~r.point /\ requests' = requests
            /\ Put(i, s, v, taking) /\ Write(To(j, "assigned"), F)
  <2>1. /\ incident'[i] = s /\ \A o \in Incidents \ {i} : incident'[o] = incident[o]
        /\ flight'[v] = taking /\ \A w \in Vehicles \ {v} : flight'[w] = flight[w]
        /\ steps' = steps
    BY <1>1, <1>5, <1>11 DEF Put, TypeOK, WorkTypes, requests
  <2>2. ~Wrote(j) /\ <<"handoff", i>> \notin written
    BY <1>0, <1>1, <1>2, <1>7, <1>11 DEF HandoffOK, Spoilt
  <2>3. /\ fault' = "none" /\ written' = written \cup {<<"task", k>> : k \in {j}} \cup F
        /\ \A k \in Jobs : state'[k] = IF k = j THEN "assigned" ELSE state[k]
    <3>1. \A y \in F : y \notin written
      BY <2>2
    <3>2. "assigned" \in States
      BY DEF States
    <3>. HIDE DEF F, j
    <3>. QED
      BY <1>1, <1>11, <2>2, <3>1, <3>2, WroteTo, WriteTo
  <2>4. /\ \A w \in Vehicles : ~Has(w, j)
        /\ \A o \in Incidents \ {i} : ~Deal(o, j)
    <3>1. Deal(i, j) /\ DealOK(i, j)
      BY <1>0, <1>1, <1>2 DEF IInv, CustodyOK, DealsOK, Deal
    <3>. QED
      BY <1>0, <1>1, <1>2, <1>11, <3>1 DEF DealOK, IInv, CustodyOK, OneDeal
  <2>5. \A o \in Incidents : Awaits(o, "response_due")' => Awaits(o, "response_due")
    BY <2>1 DEF Awaits
  <2>6. HandoffOK(i)'
    <3>1. \A x \in {"decide", "select", "start_helper"} : <<i, x>> \notin due'
      BY <1>0, <1>1, <1>2 DEF StepsOK, Awaits, Open
    <3>. QED
      BY <1>5, <1>7, <2>1, <3>1 DEF HandoffOK, Open
  <2>7. StageOK(i)'
    <3>1. <<"incident", i>> \in written' => <<"incident", i>> \in written
      BY <2>3
    <3>. QED
      BY <1>0, <1>1, <1>5, <1>7, <2>1, <3>1 DEF StageOK, Before
  <2>8. PromptOK(i)'
    BY <1>0, <1>1, <1>5, <1>7, <2>1, <2>5 DEF PromptOK, Onward
  <2>9. HeldOK(v)'
    <3>1. ~Decides(v)'
      <4>1. ~Decides(v)
        BY <1>0, <1>2, <1>3, HelperDecidesNothing
      <4>. QED
        BY <1>0, <1>5, <2>1, <4>1 DEF Decides
    <3>2. f.suspended # None => ~Wrote(f.suspended)'
      <4>1. f.suspended # j
        BY <1>3, <2>4 DEF Has
      <4>. QED
        BY <1>8, <1>11, <2>3, <4>1 DEF Wrote
    <3>. QED
      BY <1>6, <1>7, <2>1, <3>1, <3>2 DEF HeldOK
  <2>10. Waits(v, {i})
    BY <1>3, <1>8, <1>11 DEF Waits
  <2>11. WrittenKept({i}, {v}, {j}, F)
    <3>1. \A k \in {j} : state'[k] # "unreleased"
      BY <1>2, <2>3
    <3>2. F \subseteq {"handoff", "incident"} \X {i}
      OBVIOUS
    <3>3. \A k \in Jobs \ {j} : state'[k] = state[k]
      BY <2>3
    <3>. HIDE DEF F, j
    <3>. QED
      BY <1>0, <1>5, <1>7, <2>1, <2>3, <2>4, <2>5, <2>6, <2>7, <2>8, <2>9, <2>10, <3>1, <3>2, <3>3
      DEF WrittenKept
  <2>12. WrittenOK'
    BY <1>2, <1>7, <2>11, WrittenUpdate, ReadyFacts
  <2>. QED
    BY <2>3, <2>12 DEF Once
<1>. QED
  BY <1>4, <1>9, <1>10, <1>11

\* The steps that are due, each in its stage.
LEMMA StepOnce ==
    ASSUME Ready, NEW i \in Incidents, NEW s \in Steps, Step(i, s)
    PROVE  Once
<1>1. /\ <<i, s>> \in due /\ due' = due \ {<<i, s>>}
      /\ At(IF Clock(s) THEN "timers" ELSE "deferred")
      /\ \/ s = "decide" /\ DecideStep(i) /\ UNCHANGED resumed
         \/ s = "select" /\ SelectStep(i) /\ UNCHANGED resumed
         \/ s = "start_helper" /\ HelperStep(i) /\ UNCHANGED resumed
         \/ s = "response_due" /\ DueStep(i)
  BY Zenon DEF Step
<1>2. s # "response_due" => At("deferred")
  BY <1>1 DEF Clock
<1>3. s = "response_due" => At(IF policy.hover THEN "timers" ELSE "deferred")
  BY <1>1 DEF Clock
<1>4. CASE s = "decide" /\ DecideStep(i) /\ UNCHANGED resumed
  BY <1>1, <1>2, <1>4, DecideStepOnce
<1>5. CASE s = "select" /\ SelectStep(i) /\ UNCHANGED resumed
  BY <1>1, <1>2, <1>5, SelectStepOnce
<1>6. CASE s = "start_helper" /\ HelperStep(i) /\ UNCHANGED resumed
  BY <1>1, <1>2, <1>6, HelperStepOnce
<1>7. CASE s = "response_due" /\ DueStep(i)
  BY <1>1, <1>3, <1>7, DueStepOnce
<1>. QED
  BY <1>1, <1>4, <1>5, <1>6, <1>7

-----------------------------------------------------------------------------
(* Landings: only a receipt brings a vehicle to its goal.                  *)

\* The step brings v to no goal.
Grounded(v) == flight'[v].leg = "there" => flight[v].leg = "there"
NoLandings == \A v \in Vehicles : Grounded(v)

\* One vehicle changes.
LEMMA OneGrounded ==
    ASSUME TypeOK, NEW v, NEW g, flight' = [flight EXCEPT ![v] = g],
           g.leg = "there" => g = flight[v] \/ flight[v].leg = "there"
    PROVE  NoLandings
BY DEF TypeOK, WorkTypes, NoLandings, Grounded

\* A vehicle that departs, brakes.
LEMMA DepartGrounded ==
    ASSUME TypeOK, NEW v, NEW f \in Flights, flight' = [flight EXCEPT ![v] = Depart(f)]
    PROVE  NoLandings
BY DepartEffect, OneGrounded

\* A decision,
LEMMA DecideGrounded ==
    ASSUME TypeOK, NEW i, NEW r, r.responder \in Vehicles, NEW c, NEW facts, NEW rest,
           Decide(i, r, c, facts, rest)
    PROVE  NoLandings
<1>1. PICK f \in Flights : f = flight[r.responder]
  BY DEF TypeOK, WorkTypes
<1>2. \/ flight' = [flight EXCEPT ![r.responder] = f]
      \/ flight' = [flight EXCEPT ![r.responder] = Depart(f)]
      \/ flight' = flight
  BY <1>1, Zenon DEF Decide, Put, Request
<1>3. CASE flight' = flight
  BY <1>3 DEF NoLandings, Grounded
<1>. QED
  BY <1>1, <1>2, <1>3, OneGrounded, DepartGrounded

\* what a vehicle follows up,
LEMMA FollowUpGrounded ==
    ASSUME TypeOK, NEW v \in Vehicles, NEW f \in Flights, f.leg # "there" \/ f = flight[v],
           NEW new, FollowUp(v, f, new)
    PROVE  NoLandings
<1>1. \/ flight' = [flight EXCEPT ![v] = f] \/ flight' = [flight EXCEPT ![v] = Depart(f)]
  BY Zenon DEF FollowUp, Fly, Put
<1>. QED
  BY <1>1, OneGrounded, DepartGrounded

\* a flight about an incident,
LEMMA CoopGrounded ==
    ASSUME TypeOK, NEW v \in Vehicles, CoopFlight(v)
    PROVE  NoLandings
<1>1. PICK f \in Flights : f = flight[v]
  BY DEF TypeOK, WorkTypes
<1>2. PICK i : Raise \/ Respond(v, i) \/ Drop(v, i) \/ Pickup(v, i)
  BY CoopCases, Zenon
<1>3. \/ flight' = flight
      \/ flight' = [flight EXCEPT ![v] = f]
      \/ flight' = [flight EXCEPT ![v] = [f EXCEPT !.leg = "moving"]]
      \/ flight' = [flight EXCEPT ![v] = Depart([f EXCEPT !.job = None])]
      \/ \E j : flight' = [flight EXCEPT ![v] =
                   [f EXCEPT !.job = j, !.purpose = "task", !.leg = "idle"]]
      \/ flight' = [flight EXCEPT ![v] = [f EXCEPT !.purpose = "task", !.leg = "idle"]]
      \/ flight' = [flight EXCEPT ![v] =
                   [[f EXCEPT !.purpose = "task", !.leg = "idle"] EXCEPT
                        !.job = f.suspended, !.suspended = None, !.resume = None]]
  BY <1>1, <1>2, Zenon DEF Raise, work, Respond, Drop, Pickup, Put, Move, Fly
<1>4. /\ [f EXCEPT !.leg = "moving"].leg = "moving"
      /\ [f EXCEPT !.job = None] \in Flights
      /\ \A j : [f EXCEPT !.job = j, !.purpose = "task", !.leg = "idle"].leg = "idle"
      /\ [f EXCEPT !.purpose = "task", !.leg = "idle"].leg = "idle"
      /\ [[f EXCEPT !.purpose = "task", !.leg = "idle"] EXCEPT
             !.job = f.suspended, !.suspended = None, !.resume = None].leg = "idle"
  BY DEF Flights
<1>5. CASE flight' = flight
  BY <1>5 DEF NoLandings, Grounded
<1>. QED
  BY <1>1, <1>3, <1>4, <1>5, OneGrounded, DepartGrounded

\* and one with a job, bring no vehicle to its goal.
LEMMA TaskGrounded ==
    ASSUME TypeOK, NEW v \in Vehicles, TaskFlight(v)
    PROVE  NoLandings
<1>1. PICK f \in Flights : f = flight[v]
  BY DEF TypeOK, WorkTypes
<1> DEFINE next == [f EXCEPT !.job = f.suspended, !.suspended = None, !.resume = None, !.leg = "idle"]
<1>2. \/ \E l \in {"idle", "moving"} : flight' = [flight EXCEPT ![v] = [f EXCEPT !.leg = l]]
      \/ \E new : FollowUp(v, next, new)
  BY <1>1, Zenon DEF TaskFlight, Fly, Move, next
<1>3. /\ \A l \in {"idle", "moving"} : [f EXCEPT !.leg = l].leg = l
      /\ next \in Flights /\ next.leg = "idle"
  BY DEF Flights
<1>. HIDE DEF next
<1>. QED
  BY <1>2, <1>3, OneGrounded, FollowUpGrounded

\* Nor does a step that is due.
LEMMA StepGrounded ==
    ASSUME IInv, NEW i \in Incidents, NEW s \in Steps, Step(i, s)
    PROVE  NoLandings
<1>0. /\ TypeOK /\ RecordOK(incident[i]) /\ StepsOK(i) /\ <<i, s>> \in due
      /\ \/ s = "decide" /\ DecideStep(i)
         \/ s = "select" /\ SelectStep(i)
         \/ s = "start_helper" /\ HelperStep(i)
         \/ s = "response_due" /\ DueStep(i)
  <2>1. TypeOK /\ RecordOK(incident[i]) /\ StepsOK(i)
    BY DEF IInv, Dealings, IncidentsOK
  <2>. QED
    BY <2>1, Zenon DEF Step
<1>1. PICK r \in Records : r = incident[i]
  BY <1>0 DEF TypeOK, WorkTypes
<1>2. CASE flight' = flight
  BY <1>2 DEF NoLandings, Grounded
<1>3. ASSUME s = "decide", DecideStep(i) PROVE NoLandings
  <2>1. r.responder \in Vehicles
    BY <1>0, <1>1, <1>3 DEF StepsOK, Awaits, RecordOK, Live
  <2>2. \E c : Decide(i, r, c, {}, asked)
    BY <1>1, <1>3, Zenon DEF DecideStep
  <2>. QED
    BY <1>0, <2>1, <2>2, DecideGrounded
<1>4. ASSUME s = "select", SelectStep(i) PROVE NoLandings
  <2>1. PICK v \in Vehicles, f \in Flights : v = r.responder /\ f = flight[v]
    BY <1>0, <1>1, <1>4 DEF StepsOK, Awaits, RecordOK, Live, TypeOK, WorkTypes
  <2>2. \/ \E h, c, rest : Decide(i, [r EXCEPT !.handoff = h], c, {<<"handoff", i>>}, rest)
        \/ flight' = flight
        \/ flight' = [flight EXCEPT ![v] = [f EXCEPT !.purpose = "handoff_drop", !.leg = "braking"]]
        \/ flight' = [flight EXCEPT ![v] = Depart([f EXCEPT !.job = None])]
    BY <1>1, <1>4, <2>1, Zenon DEF SelectStep, Ask, Put
  <2>3. /\ \A h : [r EXCEPT !.handoff = h].responder = v
        /\ [f EXCEPT !.purpose = "handoff_drop", !.leg = "braking"].leg = "braking"
        /\ [f EXCEPT !.job = None] \in Flights
    BY <2>1 DEF Records, Flights
  <2>. QED
    BY <1>0, <1>2, <2>2, <2>3, OneGrounded, DepartGrounded, DecideGrounded
<1>5. ASSUME HelperStep(i) PROVE NoLandings
  <2>1. PICK f : f = flight[r.helper]
    OBVIOUS
  <2>2. \/ flight' = flight
        \/ flight' = [flight EXCEPT ![r.helper] = [f EXCEPT !.purpose = "handoff_pickup", !.leg = "idle"]]
        \/ \E j : flight' = [flight EXCEPT ![r.helper] = [f EXCEPT !.job = j, !.leg = "idle"]]
    BY <1>1, <1>5, <2>1, Zenon DEF HelperStep, Put, work
  <2>3. r.helper \in Vehicles => f \in Flights
    BY <1>0, <2>1 DEF TypeOK, WorkTypes
  <2>4. s = "start_helper" => r.helper \in Vehicles
    BY <1>0, <1>1 DEF StepsOK, Awaits, RecordOK
  <2>5. f \in Flights =>
           /\ [f EXCEPT !.purpose = "handoff_pickup", !.leg = "idle"].leg = "idle"
           /\ \A j : [f EXCEPT !.job = j, !.leg = "idle"].leg = "idle"
    BY DEF Flights
  <2>6. r.helper \notin Vehicles => \A g : [flight EXCEPT ![r.helper] = g] = flight
    BY <1>0 DEF TypeOK, WorkTypes
  <2>. QED
    BY <1>0, <1>2, <2>2, <2>3, <2>5, <2>6, OneGrounded
<1>6. ASSUME s = "response_due", DueStep(i) PROVE NoLandings
  <2>1. flight' = flight \/ CoopFlight(r.responder)
    BY <1>1, <1>6, Zenon DEF DueStep, work
  <2>2. s = "response_due" => r.responder \in Vehicles
    BY <1>0, <1>1 DEF StepsOK, Awaits
  <2>. QED
    BY <1>0, <1>2, <1>6, <2>1, <2>2, CoopGrounded
<1>. QED
  BY <1>0, <1>3, <1>4, <1>5, <1>6

\* Once something is wrong, nothing more is done.
LEMMA NextWhileFine ==
    ASSUME Next
    PROVE  fault = "none"
<1>1. CASE Poll \/ Commit
  BY <1>1 DEF Poll, Commit
<1>2. CASE \E k \in DOMAIN Fleet : FollowUpTurn(k) \/ FlightTurn(k)
  BY <1>2, Zenon DEF FollowUpTurn, FlightTurn, Turn, Past
<1>3. CASE \E k \in DOMAIN Scene : Notice(k)
  BY <1>3, Zenon DEF Notice, Turn, Past
<1>4. CASE \E v \in Vehicles : Receipt(v) \/ TripFails(v) \/ Control(v) \/ Charged(v)
                               \/ Hold(v) \/ Unhold(v)
  BY <1>4, Zenon DEF Receipt, TripFails, Control, Charged, Hold, Unhold, At
<1>5. CASE \E i \in Incidents : Reply(i) \/ Elapse(i) \/ Occur(i)
  BY <1>5, Zenon DEF Reply, Elapse, Occur, At
<1>6. CASE \E i \in Incidents, s \in Steps : Step(i, s)
  BY <1>6, Zenon DEF Step, At
<1>7. CASE \E j \in Jobs, v \in Vehicles : Preempt(j, v) \/ Assign(j, v)
  BY <1>7, Zenon DEF Preempt, Assign, Turn, Past
<1>. QED
  BY <1>1, <1>2, <1>3, <1>4, <1>5, <1>6, <1>7 DEF Next

\* Only a receipt brings a vehicle to its goal.
LEMMA NextLands ==
    ASSUME IInv, Next
    PROVE  Landings
<1>0. TypeOK /\ IncidentsOK /\ flight \in [Vehicles -> Flights]
  BY DEF IInv, TypeOK, WorkTypes, Dealings
<1>1. SUFFICES ASSUME ~\E v \in Vehicles : Receipt(v) \/ TripFails(v)
      PROVE  NoLandings /\ stage' # "receipts"
  <2>1. NoLandings /\ stage' # "receipts" => Landings
    BY DEF NoLandings, Grounded, Landings, Lands
  <2>2. ASSUME NEW v \in Vehicles, Receipt(v) \/ TripFails(v) PROVE Landings
    <3>1. /\ Busy(flight[v]) /\ stage' = "receipts"
          /\ \A w \in Vehicles \ {v} : flight'[w] = flight[w]
      <4>1. At("receipts") /\ Busy(flight[v]) /\ \E g : flight' = [flight EXCEPT ![v] = g]
        BY <2>2, Zenon DEF Receipt, TripFails, Fly, Busy
      <4>. QED
        BY <1>0, <4>1 DEF At
    <3>. QED
      BY <3>1 DEF Landings, Lands
  <2>. QED
    BY <2>1, <2>2
<1>2. flight' = flight => NoLandings
  BY DEF NoLandings, Grounded
<1>3. CASE Poll \/ Commit
  BY <1>2, <1>3, Zenon DEF Poll, Commit, work
<1>4. ASSUME NEW k \in DOMAIN Fleet, FollowUpTurn(k) \/ FlightTurn(k)
      PROVE  NoLandings /\ stage' # "receipts"
  <2>1. PICK v \in Vehicles, f \in Flights : v = Fleet[k] /\ f = flight[v]
    BY <1>0, Turns
  <2>2. stage' = "poll"
    BY <1>4, TurnEffect, Zenon DEF FollowUpTurn, FlightTurn
  <2>3. CASE FollowUpTurn(k)
    BY <1>0, <2>1, <2>2, <2>3, FollowUpGrounded, Zenon DEF FollowUpTurn
  <2>4. CASE FlightTurn(k)
    <3>1. \/ CoopFlight(v) \/ TaskFlight(v) \/ flight' = flight
          \/ flight' = [flight EXCEPT ![v] = [f EXCEPT !.leg = "moving"]]
          \/ flight' = [flight EXCEPT ![v] = Restored(f)]
      BY <2>1, <2>4, Zenon DEF FlightTurn, Raise, work, Move, Fly
    <3>2. [f EXCEPT !.leg = "moving"].leg # "there" /\ Restored(f).leg # "there"
      BY DEF Flights, Restored
    <3>. QED
      BY <1>0, <1>2, <2>2, <3>1, <3>2, CoopGrounded, TaskGrounded, OneGrounded
  <2>. QED
    BY <1>4, <2>3, <2>4
<1>5. ASSUME NEW k \in DOMAIN Scene, Notice(k) PROVE NoLandings /\ stage' # "receipts"
  <2>1. stage' = "poll"
    BY <1>5, TurnEffect, Zenon DEF Notice
  <2>2. flight' = flight \/ \E v : flight' = [flight EXCEPT ![v] = flight[v]]
    BY <1>5, Zenon DEF Notice, Ask, Put
  <2>. QED
    BY <1>0, <1>2, <2>1, <2>2, OneGrounded
<1>6. ASSUME NEW v \in Vehicles, Control(v) \/ Charged(v) \/ Hold(v) \/ Unhold(v)
      PROVE  NoLandings /\ stage' # "receipts"
  <2>1. PICK f \in Flights : f = flight[v]
    BY <1>0
  <2>2. stage' # "receipts"
    BY <1>6, Zenon DEF Control, Charged, Hold, Unhold, At, wave
  <2>3. \/ \E g \in Orders(f) : flight' = [flight EXCEPT ![v] = g]
        \/ flight' = [flight EXCEPT ![v] = Restored(f)]
        \/ \E h : flight' = [flight EXCEPT ![v].held = h]
    BY <1>6, <2>1, Zenon DEF Control, Charged, Hold, Unhold
  <2>4. Restored(f).leg # "there" /\ \A g \in Orders(f) : g.leg = "there" => f.leg = "there"
    <3>1. Restored(f).leg \in {"braking", "idle"}
      BY DEF Restored, Flights
    <3>2. ASSUME NEW g \in Orders(f) PROVE g.leg \in {"braking", "hovering", "idle", f.leg}
      BY <3>2 DEF Orders, Flights
    <3>. QED
      BY <3>1, <3>2
  <2>5. \A h : [f EXCEPT !.held = h].leg = f.leg
    BY DEF Flights
  <2>6. \A h : [flight EXCEPT ![v].held = h] = [flight EXCEPT ![v] = [f EXCEPT !.held = h]]
    BY <1>0, <2>1
  <2>7. ASSUME NEW g, flight' = [flight EXCEPT ![v] = g], g.leg = "there" => f.leg = "there"
        PROVE  NoLandings
    BY <1>0, <2>1, <2>7, OneGrounded
  <2>8. CASE \E h : flight' = [flight EXCEPT ![v].held = h]
    <3>1. PICK h : flight' = [flight EXCEPT ![v].held = h]
      BY <2>8
    <3>2. flight' = [flight EXCEPT ![v] = [f EXCEPT !.held = h]]
      BY <2>6, <3>1, Zenon
    <3>3. PICK g : g = [f EXCEPT !.held = h]
      OBVIOUS
    <3>4. g.leg = f.leg /\ flight' = [flight EXCEPT ![v] = g]
      BY <2>5, <3>2, <3>3
    <3>. QED
      BY <2>2, <2>7, <3>4
  <2>. QED
    BY <2>2, <2>3, <2>4, <2>7, <2>8
<1>7. ASSUME NEW i \in Incidents, Reply(i) \/ Elapse(i) \/ Occur(i)
      PROVE  NoLandings /\ stage' # "receipts"
  <2>1. stage' # "receipts"
    BY <1>7, Zenon DEF Reply, Elapse, Occur, At
  <2>2. flight' = flight \/ (ResponderReply(i) /\ incident[i].responder \in Vehicles)
    <3>1. flight' = flight \/ ResponderReply(i)
      BY <1>7, Zenon DEF Reply, Elapse, Occur, HelperReply
    <3>2. ResponderReply(i) => <<i, incident[i].responder, "responder">> \in asked
      BY Zenon DEF ResponderReply
    <3>. QED
      BY <1>0, <3>1, <3>2 DEF TypeOK, WorkTypes
  <2>3. ResponderReply(i) => flight' = flight \/ \E c, rest : Decide(i, incident[i], c, {}, rest)
    BY Zenon DEF ResponderReply
  <2>. QED
    BY <1>0, <1>2, <2>1, <2>2, <2>3, DecideGrounded
<1>8. ASSUME NEW i \in Incidents, NEW s \in Steps, Step(i, s)
      PROVE  NoLandings /\ stage' # "receipts"
  BY <1>8, StepGrounded, Zenon DEF Step, At
<1>9. ASSUME NEW j \in Jobs, NEW v \in Vehicles, Preempt(j, v) \/ Assign(j, v)
      PROVE  NoLandings /\ stage' # "receipts"
  <2>1. PICK f \in Flights : f = flight[v]
    BY <1>0
  <2>2. stage' = "poll"
    BY <1>9, TurnEffect, Zenon DEF Preempt, Assign
  <2>3. \/ flight' = [flight EXCEPT ![v] = [f EXCEPT !.job = j, !.leg = "idle"]]
        \/ flight' = [flight EXCEPT ![v] =
               [f EXCEPT !.suspended = f.job, !.resume = state[f.job], !.job = j, !.leg = "braking"]]
    BY <1>9, <2>1, Zenon DEF Preempt, Assign, Fly
  <2>4. \A x : /\ [f EXCEPT !.job = j, !.leg = "idle"].leg = "idle"
               /\ [f EXCEPT !.suspended = f.job, !.resume = x, !.job = j, !.leg = "braking"].leg = "braking"
    BY DEF Flights
  <2>. QED
    BY <1>0, <2>1, <2>2, <2>3, <2>4, OneGrounded
<1>. QED
  BY <1>1, <1>3, <1>4, <1>5, <1>6, <1>7, <1>8, <1>9 DEF Next

\* Every action writes what its wave has not written, but for the one preemption.
LEMMA NextOnce ==
    ASSUME IInv, WrittenOK, Next
    PROVE  WrittenOK' /\ DuplicateByPreemption'
<1>0. Ready
  BY NextKeeps, NextWhileFine, NextLands DEF Ready
<1>1. SUFFICES Once \/ (WrittenOK' /\ DuplicateByPreemption')
  BY DEF Once, DuplicateByPreemption
<1>2. CASE Poll \/ Commit
  BY <1>0, <1>2, PollOnce, CommitOnce
<1>3. CASE \E k \in DOMAIN Fleet : FollowUpTurn(k) \/ FlightTurn(k)
  BY <1>0, <1>3, FollowUpTurnOnce, FlightTurnOnce
<1>4. CASE \E k \in DOMAIN Scene : Notice(k)
  BY <1>0, <1>4, NoticeOnce
<1>5. CASE \E v \in Vehicles : Receipt(v) \/ TripFails(v) \/ Control(v) \/ Charged(v)
                               \/ Hold(v) \/ Unhold(v)
  BY <1>0, <1>5, ReceiptOnce, TripFailsOnce, ControlOnce, ChargedOnce, HoldOnce
<1>6. CASE \E i \in Incidents : Reply(i) \/ Elapse(i) \/ Occur(i)
  BY <1>0, <1>6, ReplyOnce, ElapseOnce, OccurOnce
<1>7. CASE \E i \in Incidents, s \in Steps : Step(i, s)
  BY <1>0, <1>7, StepOnce
<1>8. CASE \E j \in Jobs, v \in Vehicles : Preempt(j, v) \/ Assign(j, v)
  BY <1>0, <1>8, PreemptOnce, AssignOnce
<1>. QED
  BY <1>2, <1>3, <1>4, <1>5, <1>6, <1>7, <1>8 DEF Next

\* Nothing has been written to begin with.
LEMMA InitWritten ==
    ASSUME Init
    PROVE  WrittenOK /\ DuplicateByPreemption
<1>1. /\ written = {} /\ resumed = {} /\ fault = "none" /\ steps = {} /\ due = {}
      /\ \A i \in Incidents : incident[i].phase = "pending"
  BY DEF Init, Pending
<1>2. \A i \in Incidents : ~Awaits(i, "response_due")
  BY <1>1 DEF Awaits
<1>3. \A i \in Incidents : HandoffOK(i) /\ StageOK(i) /\ PromptOK(i)
  BY <1>1, <1>2 DEF HandoffOK, StageOK, PromptOK, Wrote
<1>. QED
  BY <1>1, <1>3 DEF WrittenOK, FreshOK, HeldOK, Wrote, DuplicateByPreemption

\* No wave of the engine writes a fact twice, whatever the order of its inputs, but for the
\* one case: a job that the wave itself has given back to a vehicle is preempted in its poll.
THEOREM NothingWrittenTwice == Spec => []DuplicateByPreemption
<1> DEFINE WInv == WrittenOK /\ DuplicateByPreemption
<1>1. Init => WInv
  BY InitWritten
<1>2. IInv /\ WInv /\ [Next]_vars => WInv'
  <2>1. ASSUME IInv, WInv, Next PROVE WInv'
    BY <2>1, NextOnce
  <2>2. ASSUME WInv, UNCHANGED vars PROVE WInv'
    <3>1. UNCHANGED <<policy, state, flight, incident, asked, steps, due, stage, turn,
                      written, resumed, fault, trouble>>
      BY <2>2 DEF vars, work, requests, wave
    <3>2. DuplicateByPreemption'
      BY <2>2, <3>1 DEF DuplicateByPreemption
    <3>3. FreshOK => FreshOK'
      BY <3>1 DEF FreshOK, Wrote
    <3>4. \A v \in Vehicles : (Turned(v)' <=> Turned(v)) /\ (Decides(v)' <=> Decides(v))
      BY <3>1 DEF Turned, Decides
    <3>5. \A v \in Vehicles : HeldOK(v) => HeldOK(v)'
      BY <3>1, <3>4 DEF HeldOK, Wrote
    <3>6. \A i \in Incidents : (HandoffOK(i) => HandoffOK(i)') /\ (StageOK(i) => StageOK(i)')
                               /\ (PromptOK(i) => PromptOK(i)')
      BY <3>1 DEF HandoffOK, StageOK, PromptOK, Wrote, Turned, Awaits, Spoilt
    <3>. QED
      BY <2>2, <3>1, <3>2, <3>3, <3>5, <3>6 DEF WrittenOK
  <2>. QED
    BY <2>1, <2>2
<1>3. Spec => []WInv
  <2>. HIDE DEF WInv
  <2>. QED
    BY <1>1, <1>2, CooperationInvariant, PTL DEF Spec
<1>4. WInv => DuplicateByPreemption
  OBVIOUS
<1>. QED
  BY <1>3, <1>4, PTL

\* The run stops for these reasons only, as long as jobs are allocated by an algorithm.
THEOREM StopsForKnownReasons == Spec => []KnownFaults
<1>1. DuplicateByPreemption /\ RaisedForReason => KnownFaults
  BY DEF KnownFaults
<1>. QED
  BY <1>1, NothingWrittenTwice, RaisesForTwoReasons, PTL
-----------------------------------------------------------------------------
(* Custody: every step is one of the abstract specification's.             *)

\* Where a job is, and who is to get it, in terms of the invariant.
Ended(j) == IF \E i \in Incidents : Deal(i, j) THEN "spoilt" ELSE "over"
Whereabouts == \A j \in Jobs :
    /\ \A v \in Vehicles : Has(v, j) => Place(j) = v /\ state[j] \notin Loose
    /\ Unheld(j) => Place(j) = IF state[j] \in {"unreleased", "queued"} THEN "queue"
                               ELSE IF state[j] \in {"completed", "failed"} THEN Ended(j)
                               ELSE "between"
    /\ \A i \in Incidents : Deal(i, j) =>
           /\ Taker(j) = incident[i].helper /\ incident[i].helper \in Vehicles
           /\ state[j] \notin {"unreleased", "queued", "completed"}
    /\ (\A i \in Incidents : ~Deal(i, j)) => Taker(j) = None

\* The abstract variables, in terms of the invariant.
LEMMA InvWhereabouts ==
    ASSUME IInv
    PROVE  Whereabouts
<1>1. ASSUME NEW j \in Jobs
      PROVE  Deals(j) = {i \in Incidents : Deal(i, j)}
  BY DEF Deals, Deal, Open
<1>2. ASSUME NEW j \in Jobs, NEW v \in Vehicles, Has(v, j)
      PROVE  Place(j) = v /\ state[j] \notin Loose
  <2> DEFINE doing == {w \in Vehicles : flight[w].job = j}
             keeping == {w \in Vehicles : flight[w].suspended = j}
  <2>1. state[j] \notin Loose /\ \A w \in Vehicles : Has(w, j) => w = v
    BY <1>2, HeldJob DEF Active, Loose
  <2>2. doing \cup keeping = {v}
    BY <1>2, <2>1 DEF Has
  <2>3. doing \cap keeping = {}
    <3>1. ASSUME NEW w \in Vehicles, flight[w].job = j, flight[w].suspended = j PROVE FALSE
      <4>1. FlightOK(flight[w]) /\ j # None
        BY NamesAssumption DEF IInv, CustodyOK, FlightsOK
      <4>. QED
        BY <3>1, <4>1 DEF FlightOK, Active
    <3>. QED
      BY <3>1
  <2>4. Cardinality(doing \cup keeping) = 1
    BY <2>2, FS_Singleton
  <2>5. (CHOOSE w \in doing \cup keeping : TRUE) = v
    BY <2>2
  <2>6. Place(j) = IF \/ doing \cap keeping # {} \/ Cardinality(doing \cup keeping) > 1
                      \/ state[j] \in {"unreleased", "queued", "completed", "failed"}
                   THEN "twice" ELSE CHOOSE w \in doing \cup keeping : TRUE
    <3>1. doing \cup keeping # {}
      BY <2>2
    <3>. QED
      BY <3>1, Zenon DEF Place
  <2>. HIDE DEF doing, keeping
  <2>. QED
    BY <2>1, <2>3, <2>4, <2>5, <2>6 DEF Loose
<1>3. ASSUME NEW j \in Jobs, Unheld(j)
      PROVE  Place(j) = IF state[j] \in {"unreleased", "queued"} THEN "queue"
                        ELSE IF state[j] \in {"completed", "failed"} THEN Ended(j)
                        ELSE "between"
  <2>1. {w \in Vehicles : flight[w].job = j} \cup {w \in Vehicles : flight[w].suspended = j} = {}
    BY <1>3 DEF Unheld, Has
  <2>2. state[j] \in Loose \/ Deals(j) # {}
    BY <1>1, <1>3 DEF Unheld, IInv, CustodyOK, NotLost
  <2>3. state[j] = "completed" => \A i \in Incidents : ~Deal(i, j)
    BY DEF IInv, CustodyOK, DealsOK, DealOK, Goes, Loose
  <2>4. Ended(j) = IF Deals(j) = {} THEN "over" ELSE "spoilt"
    BY <1>1 DEF Ended
  <2>. QED
    BY <1>1, <2>1, <2>2, <2>3, <2>4 DEF Place, Ended, Loose
<1>4. ASSUME NEW j \in Jobs, NEW i \in Incidents, Deal(i, j)
      PROVE  /\ Taker(j) = incident[i].helper /\ incident[i].helper \in Vehicles
             /\ state[j] \notin {"unreleased", "queued", "completed"}
  <2>1. Deals(j) = {i}
    BY <1>1, <1>4 DEF IInv, CustodyOK, OneDeal
  <2>2. Earliest(Deals(j)) = i
    BY <2>1, EarliestIn
  <2>3. RecordOK(incident[i]) /\ Goes(i, j)
    BY <1>4 DEF IInv, Dealings, IncidentsOK, CustodyOK, DealsOK, DealOK
  <2>. QED
    BY <1>4, <2>1, <2>2, <2>3 DEF Taker, RecordOK, Deal, Goes, Loose
<1>5. ASSUME NEW j \in Jobs, \A i \in Incidents : ~Deal(i, j)
      PROVE  Taker(j) = None
  BY <1>1, <1>5 DEF Taker
<1>. QED
  BY <1>2, <1>3, <1>4, <1>5 DEF Whereabouts

Unmoved(j) == Place(j)' = Place(j) /\ Taker(j)' = Taker(j)

\* A job that stays does not move in the abstract.
LEMMA StaysUnmoved ==
    ASSUME Whereabouts, Whereabouts', NEW j \in Jobs, Stays(j)
    PROVE  Unmoved(j)
<1>1. PICK p, q : p = Place(j)' /\ q = Taker(j)'
  OBVIOUS
<1>2. p = Place(j)
  <2>1. CASE \E v \in Vehicles : Has(v, j)
    <3>1. PICK v \in Vehicles : Has(v, j)
      BY <2>1
    <3>2. Has(v, j)'
      BY <3>1 DEF Stays
    <3>3. p = v
      BY <1>1, <3>2 DEF Whereabouts
    <3>. QED
      BY <3>1, <3>3 DEF Whereabouts
  <2>2. CASE Unheld(j)
    <3>1. Unheld(j)'
      BY <2>2 DEF Stays, Unheld
    <3>2. p = IF state'[j] \in {"unreleased", "queued"} THEN "queue"
              ELSE IF state'[j] \in {"completed", "failed"} THEN Ended(j)'
              ELSE "between"
      BY <1>1, <3>1 DEF Whereabouts
    <3>3. Place(j) = IF state[j] \in {"unreleased", "queued"} THEN "queue"
                     ELSE IF state[j] \in {"completed", "failed"} THEN Ended(j)
                     ELSE "between"
      BY <2>2 DEF Whereabouts
    <3>4. Ended(j)' = Ended(j)
      BY DEF Stays, Ended
    <3>. QED
      BY <3>2, <3>3, <3>4 DEF Stays
  <2>. QED
    BY <2>1, <2>2 DEF Unheld
<1>3. q = Taker(j)
  <2>1. CASE \E i \in Incidents : Deal(i, j)
    <3>1. PICK i \in Incidents : Deal(i, j)
      BY <2>1
    <3>2. Deal(i, j)' /\ incident'[i].helper = incident[i].helper
      BY <3>1 DEF Stays
    <3>3. q = incident'[i].helper
      BY <1>1, <3>2 DEF Whereabouts
    <3>. QED
      BY <3>1, <3>2, <3>3 DEF Whereabouts
  <2>2. CASE \A i \in Incidents : ~Deal(i, j)
    <3>1. \A i \in Incidents : ~Deal(i, j)'
      BY <2>2 DEF Stays
    <3>2. q = None
      BY <1>1, <3>1 DEF Whereabouts
    <3>. QED
      BY <2>2, <3>2 DEF Whereabouts
  <2>. QED
    BY <2>1, <2>2
<1>. QED
  BY <1>1, <1>2, <1>3 DEF Unmoved

\* The abstract variables.
Places == [j \in Jobs |-> Place(j)]
Takers == [j \in Jobs |-> Taker(j)]

\* The ways in which a job moves are the actions of Custody.
LEMMA BeginsAssigns ==
    ASSUME Whereabouts, Whereabouts', NEW j \in Jobs, Begins(j)
    PROVE  \E v \in Vehicles : Place(j) = "queue" /\ Place(j)' = v /\ Taker(j)' = Taker(j)
<1>1. PICK v \in Vehicles : Has(v, j)'
  BY DEF Begins
<1>2. Unheld(j) /\ \A i \in Incidents : ~Deal(i, j)
  BY DEF Whereabouts, Begins, Loose, Unheld
<1>3. \A i \in Incidents : ~Deal(i, j)'
  BY <1>2 DEF Begins, DealsSame
<1>4. Place(j) = "queue" /\ Taker(j) = None
  BY <1>2 DEF Whereabouts, Begins
<1>5. Place(j)' = v
  BY <1>1 DEF Whereabouts
<1>6. Taker(j)' = None
  BY <1>3 DEF Whereabouts
<1>. QED
  BY <1>4, <1>5, <1>6

LEMMA EndsIt ==
    ASSUME Whereabouts, Whereabouts', NEW j \in Jobs, Ends(j)
    PROVE  /\ Place(j) \in Vehicles /\ Taker(j) = None
           /\ Place(j)' = "over" /\ Taker(j)' = Taker(j)
<1>1. Place(j) \in Vehicles /\ Taker(j) = None
  BY DEF Whereabouts, Ends
<1>2. Unheld(j)'
  BY DEF Whereabouts, Ends, Loose, Unheld
<1>3. \A i \in Incidents : ~Deal(i, j)'
  BY DEF Ends, DealsSame
<1>4. Place(j)' = "over"
  <2>1. Ended(j)' = "over"
    BY <1>3 DEF Ended
  <2>. QED
    BY <1>2, <2>1 DEF Whereabouts, Ends
<1>5. Taker(j)' = None
  BY <1>3 DEF Whereabouts
<1>. QED
  BY <1>1, <1>4, <1>5

LEMMA AgreesToTake ==
    ASSUME Whereabouts, Whereabouts', NEW j \in Jobs, Agrees(j)
    PROVE  \E h \in Vehicles :
              /\ Place(j) \in Vehicles \ {h} /\ Taker(j) = None
              /\ Place(j)' \in {Place(j), "between"} /\ Taker(j)' = h
<1>1. PICK v \in Vehicles, i \in Incidents :
         /\ Has(v, j) /\ Deal(i, j)' /\ incident'[i].helper # v
         /\ \A o \in Incidents : ~Deal(o, j)
         /\ (Has(v, j)' \/ Unheld(j)') /\ state'[j] # "failed"
  BY DEF Agrees
<1>2. PICK h : h = incident'[i].helper
  OBVIOUS
<1>3. Place(j) = v /\ Taker(j) = None
  BY <1>1 DEF Whereabouts
<1>4. Taker(j)' = h /\ h \in Vehicles /\ state'[j] \notin Loose
  BY <1>1, <1>2 DEF Whereabouts, Loose
<1>5. CASE Has(v, j)'
  <2>1. Place(j)' = v
    BY <1>5 DEF Whereabouts
  <2>. QED
    BY <1>1, <1>2, <1>3, <1>4, <2>1
<1>6. CASE Unheld(j)'
  <2>1. Place(j)' = "between"
    BY <1>4, <1>6 DEF Whereabouts, Loose
  <2>. QED
    BY <1>1, <1>2, <1>3, <1>4, <2>1
<1>. QED
  BY <1>1, <1>5, <1>6

LEMMA LeavesIt ==
    ASSUME Whereabouts, Whereabouts', NEW j \in Jobs, Leaves(j) \/ Spoils(j)
    PROVE  /\ Place(j) \in Vehicles \cup {"spoilt"} /\ Taker(j) # None
           /\ Spoils(j) => Place(j) \in Vehicles
           /\ Place(j)' = (IF Spoils(j) THEN "spoilt" ELSE "between") /\ Taker(j)' = Taker(j)
<1>1. PICK i \in Incidents : Deal(i, j)
  BY DEF Leaves, Spoils
<1>2. Deal(i, j)' /\ incident'[i].helper = incident[i].helper /\ Unheld(j)'
  BY <1>1 DEF Leaves, Spoils, DealsSame
<1>3. Taker(j) = incident[i].helper /\ incident[i].helper \in Vehicles
  BY <1>1 DEF Whereabouts
<1>4. /\ Taker(j)' = incident'[i].helper
      /\ state'[j] \notin {"unreleased", "queued", "completed"}
  BY <1>2 DEF Whereabouts
<1>5. Place(j) \in Vehicles \cup {"spoilt"} /\ (Spoils(j) => Place(j) \in Vehicles)
  <2>1. CASE \E v \in Vehicles : Has(v, j)
    BY <2>1 DEF Whereabouts
  <2>2. CASE Unheld(j) /\ state[j] = "failed"
    <3>1. Ended(j) = "spoilt"
      BY <1>1 DEF Ended
    <3>. QED
      BY <2>2, <3>1 DEF Whereabouts, Spoils, Unheld
  <2>. QED
    BY <2>1, <2>2 DEF Leaves, Spoils, Unheld
<1>6. Ended(j)' = "spoilt"
  BY <1>2 DEF Ended
<1>7. Place(j)' = IF Spoils(j) THEN "spoilt" ELSE "between"
  BY <1>2, <1>4, <1>6 DEF Whereabouts, Leaves, Spoils
<1>. QED
  BY <1>2, <1>3, <1>4, <1>5, <1>7, NamesAssumption

LEMMA TakesIt ==
    ASSUME Whereabouts, Whereabouts', NEW j \in Jobs, Takes(j)
    PROVE  Place(j) = "between" /\ Place(j)' = Taker(j) /\ Taker(j)' = None
<1>1. PICK i \in Incidents, v \in Vehicles :
         /\ Deal(i, j) /\ v = incident[i].helper /\ Unheld(j) /\ Has(v, j)'
         /\ \A o \in Incidents : ~Deal(o, j)'
  BY DEF Takes
<1>2. Taker(j) = v /\ state[j] \notin Loose
  BY <1>1 DEF Whereabouts, Takes, Loose
<1>3. Place(j) = "between"
  BY <1>1, <1>2 DEF Whereabouts, Loose
<1>4. Place(j)' = v /\ Taker(j)' = None
  BY <1>1 DEF Whereabouts
<1>. QED
  BY <1>2, <1>3, <1>4

\* A step that moves a job is a step of Custody.
LEMMA PromiseStep ==
    ASSUME Whereabouts, Whereabouts', NEW j \in Jobs, \A k \in Jobs \ {j} : Stays(k),
           Begins(j) \/ Ends(j) \/ Agrees(j) \/ Spoils(j) \/ Takes(j)
    PROVE  Promise!Next
<1>1. \A k \in Jobs \ {j} : Unmoved(k)
  BY StaysUnmoved
<1>2. \A k \in Jobs \ {j} : Places'[k] = Places[k] /\ Takers'[k] = Takers[k]
  BY <1>1 DEF Unmoved, Places, Takers
<1>3. Places[j] = Place(j) /\ Takers[j] = Taker(j) /\ Places'[j] = Place(j)' /\ Takers'[j] = Taker(j)'
  BY DEF Places, Takers
<1>4. CASE Begins(j)
  <2>1. PICK v \in Vehicles : Place(j) = "queue" /\ Place(j)' = v /\ Taker(j)' = Taker(j)
    BY <1>4, BeginsAssigns
  <2>2. Places[j] = "queue" /\ Places' = [Places EXCEPT ![j] = v] /\ Takers' = Takers
    BY <1>2, <1>3, <2>1 DEF Places, Takers
  <2>3. Promise!Assign(j, v)
    BY <2>2 DEF Promise!Assign, Places, Takers
  <2>. QED
    BY <2>3 DEF Promise!Next
<1>5. CASE Ends(j)
  <2>1. /\ Place(j) \in Vehicles /\ Taker(j) = None
        /\ Place(j)' = "over" /\ Taker(j)' = Taker(j)
    BY <1>5, EndsIt
  <2>2. /\ Places[j] \in Vehicles /\ Takers[j] = None
        /\ Places' = [Places EXCEPT ![j] = "over"] /\ Takers' = Takers
    BY <1>2, <1>3, <2>1 DEF Places, Takers
  <2>3. Promise!End(j)
    BY <2>2 DEF Promise!End, Places, Takers
  <2>. QED
    BY <2>3 DEF Promise!Next
<1>6. CASE Agrees(j)
  <2>1. PICK h \in Vehicles : /\ Place(j) \in Vehicles \ {h} /\ Taker(j) = None
                              /\ Place(j)' \in {Place(j), "between"} /\ Taker(j)' = h
    BY <1>6, AgreesToTake
  <2>2. /\ Places[j] \in Vehicles \ {h} /\ Takers[j] = None
        /\ Takers' = [Takers EXCEPT ![j] = h]
        /\ Places' = Places \/ Places' = [Places EXCEPT ![j] = "between"]
    BY <1>2, <1>3, <2>1 DEF Places, Takers
  <2>3. Promise!Agree(j, h)
    BY <2>2 DEF Promise!Agree, Places, Takers
  <2>. QED
    BY <2>3 DEF Promise!Next
<1>7. CASE Spoils(j)
  <2>1. /\ Place(j) \in Vehicles /\ Taker(j) # None
        /\ Place(j)' = "spoilt" /\ Taker(j)' = Taker(j)
    BY <1>7, LeavesIt
  <2>2. /\ Places[j] \in Vehicles /\ Takers[j] # None
        /\ Places' = [Places EXCEPT ![j] = "spoilt"] /\ Takers' = Takers
    BY <1>2, <1>3, <2>1 DEF Places, Takers
  <2>3. Promise!Spoil(j)
    BY <2>2 DEF Promise!Spoil, Places, Takers
  <2>. QED
    BY <2>3 DEF Promise!Next
<1>8. CASE Takes(j)
  <2>1. Place(j) = "between" /\ Place(j)' = Taker(j) /\ Taker(j)' = None
    BY <1>8, TakesIt
  <2>2. /\ Places[j] = "between"
        /\ Places' = [Places EXCEPT ![j] = Takers[j]] /\ Takers' = [Takers EXCEPT ![j] = None]
    BY <1>2, <1>3, <2>1 DEF Places, Takers
  <2>3. Promise!Take(j)
    BY <2>2 DEF Promise!Take, Places, Takers
  <2>. QED
    BY <2>3 DEF Promise!Next
<1>. QED
  BY <1>4, <1>5, <1>6, <1>7, <1>8

\* So is a step that leaves jobs which are agreed upon, or that moves none.
LEMMA PromiseLeaves ==
    ASSUME Whereabouts, Whereabouts', \A j \in Jobs : Stays(j) \/ Leaves(j)
    PROVE  Promise!Next
<1> DEFINE S == {j \in Jobs : Leaves(j)}
<1>1. \A j \in S : Places[j] \in Vehicles \cup {"spoilt"} /\ Takers[j] # None
  BY LeavesIt DEF Places, Takers
<1>2. \A j \in Jobs : /\ Place(j)' = (IF j \in S THEN "between" ELSE Place(j))
                     /\ Taker(j)' = Taker(j)
  <2>1. ASSUME NEW j \in Jobs, Leaves(j) PROVE Place(j)' = "between" /\ Taker(j)' = Taker(j)
    BY <2>1, LeavesIt DEF Leaves, Spoils
  <2>2. ASSUME NEW j \in Jobs, ~Leaves(j) PROVE Place(j)' = Place(j) /\ Taker(j)' = Taker(j)
    BY <2>2, StaysUnmoved DEF Unmoved
  <2>. QED
    BY <2>1, <2>2
<1>3. /\ Places' = [j \in Jobs |-> IF j \in S THEN "between" ELSE Places[j]] /\ Takers' = Takers
  BY <1>2 DEF Places, Takers
<1>4. S \in SUBSET Jobs
  OBVIOUS
<1>. HIDE DEF S
<1>5. Promise!Leave(S)
  BY <1>1, <1>3 DEF Promise!Leave, Places, Takers
<1>. QED
  BY <1>4, <1>5 DEF Promise!Next

\* All jobs are in the queue at first.
LEMMA PromiseInit ==
    ASSUME Init
    PROVE  Promise!Init
<1>1. Whereabouts
  BY InitHolds, InvWhereabouts
<1>2. ASSUME NEW j \in Jobs PROVE Place(j) = "queue" /\ Taker(j) = None
  <2>1. state[j] = "unreleased" /\ (\A v \in Vehicles : ~Has(v, j)) /\ \A i \in Incidents : ~Deal(i, j)
    BY NamesAssumption DEF Init, Has, Deal, Open, Parked, Pending
  <2>. QED
    BY <1>1, <2>1 DEF Whereabouts, Unheld
<1>. QED
  BY <1>2 DEF Promise!Init

\* Cooperation implements Custody: a job is in one place at a time, and leaves a vehicle only
\* because it is over, or has failed, or because another vehicle has agreed to take it, which
\* then is the one that gets it, whatever trips fail and whatever control intervenes; for any
\* fleet, incidents, jobs and configuration.
THEOREM CustodyIsKept == Spec => CustodyKept
<1>1. Init => Promise!Init
  BY PromiseInit
<1>2. IInv => Whereabouts
  BY InvWhereabouts
<1>3. Whereabouts /\ Whereabouts' /\ Moved => [Promise!Next]_(Promise!vars)
  <2> SUFFICES ASSUME Whereabouts, Whereabouts', Moved PROVE [Promise!Next]_(Promise!vars)
    OBVIOUS
  <2>1. CASE \A j \in Jobs : Stays(j) \/ Leaves(j)
    BY <2>1, PromiseLeaves
  <2>2. CASE \E j \in Jobs : /\ \A k \in Jobs \ {j} : Stays(k)
                             /\ Begins(j) \/ Ends(j) \/ Agrees(j) \/ Spoils(j) \/ Takes(j)
    BY <2>2, PromiseStep
  <2>. QED
    BY <2>1, <2>2 DEF Moved
<1>4. IInv /\ [Next]_vars => Moved
  BY NextKeeps, StutterKeeps
<1>5. Spec => [](IInv)
  BY CooperationInvariant
<1>. QED
  BY <1>1, <1>2, <1>3, <1>4, <1>5, PTL DEF Spec, CustodyKept, Promise!Spec
=============================================================================
