------------------------- MODULE CooperationProofs -------------------------
(***************************************************************************)
(* Proofs about the task engine, for every fleet, scene, set of jobs and   *)
(* configuration: IInv (CooperationInv) is an invariant, and every step    *)
(* moves at most one job, in one of five ways, or leaves jobs that are     *)
(* agreed upon (Moved).  First what a step may change without disturbing   *)
(* the invariant, which is a statement about one incident and one vehicle; *)
(* then every action, in the order of the specification; then the theorems *)
(* that follow from the invariant alone.                                   *)
(***************************************************************************)
EXTENDS CooperationInv, TLAPS, WellFoundedInduction, FiniteSetTheorems

\* A set of naturals has a least element.
LEMMA LeastNatural ==
    ASSUME NEW S \in SUBSET Nat, S # {}
    PROVE  \E k \in S : \A l \in S : k <= l
<1> DEFINE less == OpToRel(<, Nat)
<1>1. IsWellFoundedOn(less, Nat)
  BY NatLessThanWellFounded
<1>2. \A k, l \in Nat : <<l, k>> \in less <=> l < k
  BY DEF OpToRel
<1>. HIDE DEF less
<1>3. S \subseteq Nat
  OBVIOUS
<1>4. \E k \in S : \A l \in S : ~ (<<l, k>> \in less)
  BY <1>1, <1>3, WFMin, Zenon
<1>5. PICK k \in S : \A l \in S : ~ (<<l, k>> \in less)
  BY <1>4, Zenon
<1>6. \A l \in S : ~ (l < k)
  BY <1>2, <1>3, <1>5, Zenon
<1>. QED
  BY <1>3, <1>6

\* The incident that is taken is one of those that are looked for.
LEMMA EarliestIn ==
    ASSUME NEW S \in SUBSET Incidents, S # {}
    PROVE  Earliest(S) \in S
<1> DEFINE K == {k \in DOMAIN Scene : Scene[k] \in S}
<1>1. K # {} /\ K \in SUBSET Nat
  BY NamesAssumption DEF Incidents
<1>2. PICK k \in K : \A l \in K : k <= l
  BY <1>1, LeastNatural
<1>3. k \in DOMAIN Scene /\ Scene[k] \in S /\ \A l \in DOMAIN Scene : Scene[l] \in S => k <= l
  BY <1>2
<1>. HIDE DEF K
<1>. QED
  BY <1>3 DEF Earliest

\* What is preferred is allowed.
LEMMA FirstAllowed ==
    ASSUME policy \in Policies, NEW P \in SUBSET Order, NEW A, "report_only" \in A
    PROVE  First(P, A) \in A
<1> DEFINE good == {k \in P : policy.order[k] \in A}
<1>1. good \in SUBSET Nat
  BY PoliciesAssumption DEF Order
<1>2. CASE good = {}
  BY <1>2 DEF First
<1>3. CASE good # {}
  <2>1. PICK k \in good : \A l \in good : k <= l
    BY <1>1, <1>3, LeastNatural
  <2>2. (CHOOSE m \in good : \A l \in good : m <= l) \in good
    BY <2>1
  <2>3. First(P, A) = policy.order[CHOOSE m \in good : \A l \in good : m <= l]
    BY <1>3 DEF First
  <2>. QED
    BY <2>2, <2>3
<1>. QED
  BY <1>2, <1>3

\* What is left of the order after request_handoff is part of the order.
LEMMA AfterHandoffIsOrder == AfterHandoff \in SUBSET Order
BY DEF AfterHandoff
-----------------------------------------------------------------------------
(* Types.                                                                  *)

\* What Write does to the states of tasks: in general, for no task, for one, and for two.
LEMMA WriteEffect ==
    ASSUME TypeOK, NEW new, NEW facts, Write(new, facts),
           \A j \in DOMAIN new : new[j] \in States
    PROVE  /\ state' \in [Jobs -> States] /\ fault' \in {"none", "duplicate", "raised"}
           /\ \A j \in Jobs : state'[j] = IF j \in DOMAIN new THEN new[j] ELSE state[j]
BY DEF Write, TypeOK, WorkTypes

LEMMA WriteNothing ==
    ASSUME TypeOK, NEW facts, Write(Nothing, facts)
    PROVE  /\ state' \in [Jobs -> States] /\ fault' \in {"none", "duplicate", "raised"}
           /\ \A j \in Jobs : state'[j] = state[j]
<1>1. DOMAIN Nothing = {}
  BY DEF Nothing
<1>. QED
  BY <1>1, WriteEffect

LEMMA WriteTo ==
    ASSUME TypeOK, NEW k, NEW s \in States, NEW facts, Write(To(k, s), facts)
    PROVE  /\ state' \in [Jobs -> States] /\ fault' \in {"none", "duplicate", "raised"}
           /\ \A j \in Jobs : state'[j] = IF j = k THEN s ELSE state[j]
<1>1. DOMAIN To(k, s) = {k} /\ To(k, s)[k] = s
  BY DEF To
<1>. QED
  BY <1>1, WriteEffect

LEMMA WriteBoth ==
    ASSUME TypeOK, NEW k \in Jobs, NEW s \in States, NEW l \in Jobs, NEW t \in States, NEW facts,
           Write(Both(k, s, l, t), facts)
    PROVE  /\ state' \in [Jobs -> States] /\ fault' \in {"none", "duplicate", "raised"}
           /\ \A j \in Jobs : state'[j] = IF j = k THEN s ELSE IF j = l THEN t ELSE state[j]
<1>1. /\ DOMAIN Both(k, s, l, t) = {k, l} /\ Both(k, s, l, t)[k] = s
      /\ l # k => Both(k, s, l, t)[l] = t
  BY DEF Both
<1>. QED
  BY <1>1, WriteEffect

\* A vehicle that sets out keeps its job as the suspended one.
LEMMA DepartEffect ==
    ASSUME TypeOK, NEW f \in Flights
    PROVE  LET g == Depart(f) IN
           /\ g \in Flights /\ g.job = None /\ g.purpose = "incident_response"
           /\ Part(g) = "incident_response" /\ g.back = f.back /\ g.held = f.held
           /\ g.leg = "braking"
           /\ f.job = None => g.suspended = f.suspended /\ g.resume = f.resume
           /\ f.job # None => g.suspended = f.job /\ g.resume = state[f.job]
<1>1. Depart(f) \in Flights
  BY DEF Depart, Flights, TypeOK, WorkTypes
<1>2. \A x \in {"job", "suspended", "resume", "purpose", "back", "held", "leg"} : x \in DOMAIN f
  BY DEF Flights
<1>. QED
  BY <1>1, <1>2 DEF Depart, Part, Controlled
-----------------------------------------------------------------------------
(* What a step may change without disturbing the invariant: it changes at  *)
(* most one incident (A) and at most one vehicle (B).                      *)

Keeps(w) ==
    /\ flight'[w].job = flight[w].job /\ flight'[w].suspended = flight[w].suspended
    /\ flight'[w].resume = flight[w].resume /\ Part(flight'[w]) = Part(flight[w])

AtMostOne(S) == \A x, y \in S : x = y

DealingsKept(A, B) ==
    /\ AtMostOne(A)
    /\ \A o \in Incidents \ A : incident'[o] = incident[o]
    /\ \A w \in Vehicles \ B : Part(flight'[w]) = Part(flight[w])
    /\ \A o \in Incidents \ A, s \in Steps : Awaits(o, s)' => Awaits(o, s)
    /\ \A o \in Incidents \ A, w \in Vehicles, x \in {"responder", "helper"} :
           <<o, w, x>> \in asked' => <<o, w, x>> \in asked
    /\ \A i \in A : /\ RecordOK(incident'[i]) /\ StepsOK(i)' /\ AskedOK(i)'
                    /\ \A w \in Vehicles : Engaged(i, w)' =>
                           Engaged(i, w) \/ \A o \in Incidents \ {i} : ~Engaged(o, w)
                    /\ \A w \in Vehicles \ B : /\ Responds(i, w) => Responds(i, w)'
                                               /\ Drops(i, w) => Drops(i, w)'
                                               /\ Fetches(i, w) => Fetches(i, w)'
    /\ \A v \in B : MissionOK(v)'

\* A step that changes incident A and vehicle B as DealingsKept says keeps Dealings.
LEMMA DealingsUpdate ==
    ASSUME TypeOK, TypeOK', Dealings, WaveOK',
           NEW A \in SUBSET Incidents, NEW B \in SUBSET Vehicles, DealingsKept(A, B)
    PROVE  Dealings'
<1> USE DEF DealingsKept
<1>1. OneEngagement'
  <2>1. \A o \in Incidents \ A, w \in Vehicles : Engaged(o, w)' <=> Engaged(o, w)
    BY DEF Engaged
  <2>. QED
    BY <2>1 DEF Dealings, OneEngagement, AtMostOne
<1>2. IncidentsOK'
  <2>1. ASSUME NEW o \in Incidents \ A PROVE RecordOK(incident'[o]) /\ StepsOK(o)' /\ AskedOK(o)'
    <3>1. RecordOK(incident[o]) /\ StepsOK(o) /\ AskedOK(o) /\ incident'[o] = incident[o]
      BY DEF Dealings, IncidentsOK
    <3>2. \A s \in Steps : Awaits(o, s)' => Awaits(o, s)
      OBVIOUS
    <3>3. StepsOK(o)'
      BY <3>1, <3>2 DEF StepsOK, Steps
    <3>4. AskedOK(o)'
      BY <3>1, <3>2 DEF AskedOK, Steps
    <3>. QED
      BY <3>1, <3>3, <3>4
  <2>. QED
    BY <2>1 DEF IncidentsOK
<1>3. Missions'
  <2>1. ASSUME NEW w \in Vehicles \ B PROVE MissionOK(w)'
    <3>1. MissionOK(w) /\ Part(flight'[w]) = Part(flight[w])
      BY DEF Dealings, Missions
    <3>2. ASSUME NEW i \in Incidents
          PROVE  /\ Responds(i, w) => Responds(i, w)'
                 /\ Drops(i, w) => Drops(i, w)'
                 /\ Fetches(i, w) => Fetches(i, w)'
      BY DEF Responds, Drops, Fetches, Steps
    <3>3. (\E i \in Incidents : Responds(i, w)) => \E i \in Incidents : Responds(i, w)'
      BY <3>2
    <3>4. (\E i \in Incidents : Drops(i, w)) => \E i \in Incidents : Drops(i, w)'
      BY <3>2
    <3>5. (\E i \in Incidents : Fetches(i, w)) => \E i \in Incidents : Fetches(i, w)'
      BY <3>2
    <3>. QED
      BY <3>1, <3>3, <3>4, <3>5 DEF MissionOK, Part
  <2>. QED
    BY <2>1 DEF Missions
<1>. QED
  BY <1>1, <1>2, <1>3 DEF Dealings

JobsKept(A, B) ==
    /\ AtMostOne(A) /\ AtMostOne(B)
    /\ \A o \in Incidents \ A : incident'[o] = incident[o]
    /\ \A w \in Vehicles \ B : Keeps(w)
    /\ \A j \in Jobs : (\E w \in Vehicles \ B : Has(w, j)) => state'[j] = state[j]
    /\ \A v \in B : FlightOK(flight[v])'
    /\ \A v \in B, j \in Jobs : Has(v, j)' => Has(v, j) \/ \A w \in Vehicles : ~Has(w, j)
    /\ \A j \in Jobs :
           \/ state'[j] \in Loose \/ (\E v \in B : Has(v, j)') \/ \E i \in A : Deal(i, j)'
           \/ /\ state[j] \notin Loose /\ \A v \in B : ~Has(v, j)
              /\ \A i \in A : ~Deal(i, j)
           \/ \E o \in Incidents \ A : Deal(o, j)
    /\ \A o \in Incidents \ A, j \in Jobs : Deal(o, j) =>
           /\ Goes(o, j)'
           /\ \A v \in B : Has(v, j)' => Has(v, j) /\ Part(flight'[v]) = Part(flight[v])
    /\ \A i \in A, j \in Jobs : Deal(i, j)' =>
           DealOK(i, j)' /\ (Deal(i, j) \/ \A o \in Incidents : ~Deal(o, j))
    /\ \A i \in Incidents, w \in Vehicles : i \in A \/ w \in B =>
           (Drops(i, w)' /\ Part(flight'[w]) = "handoff_drop" =>
               flight'[w].job \in {incident'[i].job, None})

\* A step that changes incident A and vehicle B as JobsKept says keeps CustodyOK.
LEMMA CustodyUpdate ==
    ASSUME TypeOK, TypeOK', CustodyOK,
           NEW A \in SUBSET Incidents, NEW B \in SUBSET Vehicles, JobsKept(A, B)
    PROVE  CustodyOK'
<1> USE DEF JobsKept
<1> USE DEF Keeps
<1>1. FlightsOK'
  <2>1. ASSUME NEW w \in Vehicles \ B PROVE FlightOK(flight[w])'
    <3>1. FlightOK(flight[w]) /\ flight[w] \in Flights /\ flight'[w] \in Flights
      BY DEF CustodyOK, FlightsOK, TypeOK, WorkTypes
    <3>2. \A j \in Jobs : Has(w, j) => state'[j] = state[j]
      OBVIOUS
    <3>. QED
      BY <3>1, <3>2 DEF FlightOK, Has, Flights, Part
  <2>. QED
    BY <2>1 DEF FlightsOK
<1>2. \A w \in Vehicles \ B, j \in Jobs : Has(w, j)' <=> Has(w, j)
  BY DEF Has
<1>3. OneHolder'
  BY <1>2 DEF CustodyOK, OneHolder, AtMostOne
<1>4. \A o \in Incidents \ A, j \in Jobs : Deal(o, j)' <=> Deal(o, j)
  BY DEF Deal, Open
<1>5. NotLost'
  <2>1. ASSUME NEW j \in Jobs
        PROVE  \/ state'[j] \in Loose \/ (\E v \in Vehicles : Has(v, j)')
               \/ \E i \in Incidents : Deal(i, j)'
    <3>1. CASE state[j] \notin Loose /\ (\A v \in B : ~Has(v, j)) /\ \A i \in A : ~Deal(i, j)
      BY <1>2, <1>4, <3>1 DEF CustodyOK, NotLost
    <3>2. CASE \E o \in Incidents \ A : Deal(o, j)
      BY <1>4, <3>2
    <3>. QED
      BY <3>1, <3>2
  <2>. QED
    BY <2>1 DEF NotLost
<1>6. DealsOK'
  <2>1. ASSUME NEW o \in Incidents \ A, NEW j \in Jobs, Deal(o, j)' PROVE DealOK(o, j)'
    <3>1. Deal(o, j) /\ DealOK(o, j)
      BY <1>4, <2>1 DEF CustodyOK, DealsOK
    <3>2. Goes(o, j)'
      BY <3>1
    <3>3. ASSUME NEW v \in Vehicles, Has(v, j)'
          PROVE  v = incident'[o].responder /\ Part(flight'[v]) = "handoff_drop" /\ incident'[o].point
      <4>1. Has(v, j) /\ Part(flight'[v]) = Part(flight[v])
        BY <1>2, <3>1, <3>3
      <4>. QED
        BY <3>1, <4>1 DEF DealOK
    <3>. QED
      BY <3>2, <3>3 DEF DealOK, Part
  <2>. QED
    BY <2>1 DEF DealsOK
<1>7. OneDeal'
  BY <1>4 DEF CustodyOK, OneDeal, AtMostOne
<1>8. Parcels'
  <2>1. ASSUME NEW i \in Incidents \ A, NEW w \in Vehicles \ B,
               Drops(i, w)', Part(flight'[w]) = "handoff_drop"
        PROVE  flight'[w].job \in {incident'[i].job, None}
    <3>1. Drops(i, w) /\ Part(flight[w]) = "handoff_drop"
      BY <2>1 DEF Drops, Live
    <3>. QED
      BY <3>1 DEF CustodyOK, Parcels
  <2>. QED
    BY <2>1 DEF Parcels, Part
<1>. QED
  BY <1>1, <1>3, <1>5, <1>6, <1>7, <1>8 DEF CustodyOK

\* Where j is does not change.
Stays(j) ==
    /\ \A v \in Vehicles : Has(v, j)' <=> Has(v, j)
    /\ \A i \in Incidents :
           (Deal(i, j)' <=> Deal(i, j)) /\ (Deal(i, j) => incident'[i].helper = incident[i].helper)
    /\ state'[j] \in {"unreleased", "queued"} <=> state[j] \in {"unreleased", "queued"}
    /\ state'[j] \in {"completed", "failed"} <=> state[j] \in {"completed", "failed"}

\* No incident and no task changes, and every vehicle keeps its part.
LEMMA Quiet ==
    ASSUME IInv, TypeOK', WaveOK', incident' = incident, asked' \subseteq asked, state' = state,
           steps' \cup due' \subseteq steps \cup due, \A w \in Vehicles : Keeps(w)
    PROVE  IInv' /\ \A j \in Jobs : Stays(j)
<1>1. DealingsKept({}, {})
  BY DEF DealingsKept, AtMostOne, Keeps, Awaits
<1>2. JobsKept({}, {})
  BY DEF JobsKept, AtMostOne, CustodyOK, DealsOK, DealOK, Goes, IInv
<1>3. Dealings'
  BY <1>1, DealingsUpdate DEF IInv
<1>4. CustodyOK'
  BY <1>2, CustodyUpdate DEF IInv
<1>5. \A j \in Jobs : Stays(j)
  BY DEF Stays, Keeps, Has, Deal, Open
<1>. QED
  BY <1>3, <1>4, <1>5 DEF IInv

\* What is agreed upon in incident o does not change.
SameDeal(o) ==
    LET r == incident[o]
        s == incident'[o]
    IN Open(r) \/ Open(s) =>
           /\ s.handoff = r.handoff /\ s.job = r.job /\ s.helper = r.helper /\ s.point = r.point
           /\ s.responder = r.responder /\ (Live(s) => Live(r))

\* Nothing happens to the jobs.
LEMMA JobsSame ==
    ASSUME IInv, TypeOK', \A j \in Jobs : state'[j] = state[j], \A w \in Vehicles : Keeps(w),
           \A o \in Incidents : SameDeal(o)
    PROVE  CustodyOK' /\ \A j \in Jobs : Stays(j)
<1>1. \A w \in Vehicles, j \in Jobs : Has(w, j)' <=> Has(w, j)
  BY DEF Has, Keeps
<1>2. \A i \in Incidents, j \in Jobs : Deal(i, j)' <=> Deal(i, j)
  BY DEF SameDeal, Deal, Open
<1>3. \A j \in Jobs : Stays(j)
  BY <1>1, <1>2 DEF Stays, SameDeal, Deal, Open
<1>4. FlightsOK'
  <2>1. ASSUME NEW w \in Vehicles PROVE FlightOK(flight[w])'
    <3>1. FlightOK(flight[w]) /\ flight[w] \in Flights
      BY DEF IInv, CustodyOK, FlightsOK, TypeOK, WorkTypes
    <3>. QED
      BY <3>1 DEF FlightOK, Keeps, Flights, Part
  <2>. QED
    BY <2>1 DEF FlightsOK
<1>5. OneHolder' /\ NotLost' /\ OneDeal'
  BY <1>1, <1>2 DEF IInv, CustodyOK, OneHolder, NotLost, OneDeal
<1>6. DealsOK'
  <2>1. ASSUME NEW i \in Incidents, NEW j \in Jobs, Deal(i, j) PROVE DealOK(i, j)'
    BY <1>1, <2>1 DEF IInv, CustodyOK, DealsOK, DealOK, Goes, SameDeal, Deal, Open, Keeps, Part
  <2>. QED
    BY <1>2, <2>1 DEF DealsOK
<1>7. Parcels'
  BY DEF IInv, CustodyOK, Parcels, Drops, SameDeal, Keeps, Part, Open
<1>. QED
  BY <1>3, <1>4, <1>5, <1>6, <1>7 DEF CustodyOK

-----------------------------------------------------------------------------
(* Steps about one incident.                                               *)

\* Nothing is promised, asked or deferred about the others.
OthersKept(i) ==
    /\ \A o \in Incidents \ {i} : incident'[o] = incident[o]
    /\ \A o \in Incidents \ {i}, s \in Steps : Awaits(o, s)' => Awaits(o, s)
    /\ \A o \in Incidents \ {i}, w \in Vehicles, x \in {"responder", "helper"} :
           <<o, w, x>> \in asked' => <<o, w, x>> \in asked

\* Whoever takes part in i now did so before, or took part in nothing else.
FairlyEngaged(i) == \A w \in Vehicles : Engaged(i, w)' =>
    Engaged(i, w) \/ \A o \in Incidents \ {i} : ~Engaged(o, w)

SoundIncident(i) == RecordOK(incident'[i]) /\ StepsOK(i)' /\ AskedOK(i)' /\ FairlyEngaged(i)

\* Only the record of i changes, and nothing is agreed upon in it.
LEMMA IncidentStep ==
    ASSUME IInv, TypeOK', WaveOK', NEW i \in Incidents, OthersKept(i), SoundIncident(i),
           flight' = flight, \A j \in Jobs : state'[j] = state[j],
           ~Open(incident[i]), ~Open(incident'[i]),
           \A w \in Vehicles : Responds(i, w) => Responds(i, w)'
    PROVE  IInv' /\ \A j \in Jobs : Stays(j)
<1>1. DealingsKept({i}, {})
  BY DEF DealingsKept, OthersKept, SoundIncident, FairlyEngaged, AtMostOne, Drops, Fetches, Open
<1>2. Dealings'
  BY <1>1, DealingsUpdate DEF IInv
<1>3. \A w \in Vehicles : Keeps(w)
  BY DEF Keeps
<1>4. \A o \in Incidents : SameDeal(o)
  BY DEF SameDeal, OthersKept, Open
<1>5. CustodyOK' /\ \A j \in Jobs : Stays(j)
  BY <1>3, <1>4, JobsSame
<1>. QED
  BY <1>2, <1>5 DEF IInv

\* The same, and v sets out for i.
LEMMA SetsOut ==
    ASSUME IInv, TypeOK', WaveOK', NEW i \in Incidents, OthersKept(i), SoundIncident(i),
           NEW v \in Vehicles, flight[v].purpose = "task", Responds(i, v)',
           flight[v].job # None => flight[v].suspended = None,
           flight' = [flight EXCEPT ![v] = Depart(flight[v])],
           \A j \in Jobs : state'[j] = IF j = flight[v].job THEN "paused" ELSE state[j],
           ~Open(incident[i]), ~Open(incident'[i]),
           \A w \in Vehicles \ {v} : Responds(i, w) => Responds(i, w)'
    PROVE  IInv' /\ \A j \in Jobs : Stays(j)
<1> DEFINE f == flight[v]
           g == Depart(f)
<1>1. f \in Flights /\ flight'[v] = g /\ \A w \in Vehicles \ {v} : flight'[w] = flight[w]
  BY DEF IInv, TypeOK, WorkTypes
<1>2. /\ g.job = None /\ Part(g) = "incident_response"
      /\ f.job = None => g.suspended = f.suspended /\ g.resume = f.resume
      /\ f.job # None => g.suspended = f.job /\ g.resume = state[f.job]
  BY <1>1, DepartEffect DEF IInv
<1>3. FlightOK(f) /\ f.job \in Jobs \cup {None} /\ f.suspended \in Jobs \cup {None}
      /\ Part(f) = "task"
  BY <1>1 DEF IInv, CustodyOK, FlightsOK, Flights, Part, Controlled
<1>. HIDE DEF f, g
<1>4. \A w \in Vehicles, j \in Jobs : Has(w, j)' <=> Has(w, j)
  <2>1. \A j \in Jobs : Has(v, j)' <=> Has(v, j)
    BY <1>1, <1>2, <1>3, NamesAssumption DEF Has, f
  <2>. QED
    BY <1>1, <2>1 DEF Has
<1>5. \A j \in Jobs : \A w \in Vehicles \ {v} : Has(w, j) => state'[j] = state[j]
  BY <1>3 DEF IInv, CustodyOK, OneHolder, Has, f
<1>6. \A o \in Incidents, j \in Jobs : Deal(o, j) => ~Has(v, j)
  BY <1>3 DEF IInv, CustodyOK, DealsOK, DealOK, f
<1>7. \A o \in Incidents, j \in Jobs : Deal(o, j) => state'[j] = state[j] /\ Goes(o, j)
  BY <1>6 DEF IInv, CustodyOK, DealsOK, DealOK, Has
<1>8. FlightOK(flight[v])'
  <2>1. CASE f.job = None
    BY <1>1, <1>2, <1>3, <2>1, NamesAssumption DEF FlightOK, f, Active
  <2>2. CASE f.job # None
    BY <1>1, <1>2, <1>3, <2>2 DEF FlightOK, f, Active
  <2>. QED
    BY <2>1, <2>2
<1>9. JobsKept({i}, {v})
  <2>1. \A w \in Vehicles \ {v} : Keeps(w)
    BY <1>1 DEF Keeps
  <2>2. \A j \in Jobs : state'[j] \in Loose \/ Has(v, j)' \/ (state[j] \notin Loose /\ ~Has(v, j))
    BY <1>4 DEF Has, f
  <2>3. \A w \in Vehicles, o \in Incidents : (o = i \/ w = v) /\ Drops(o, w)' => w = v /\ o # i
    BY DEF Drops, Open
  <2>. QED
    BY <1>1, <1>2, <1>4, <1>5, <1>6, <1>7, <1>8, <2>1, <2>2, <2>3
    DEF JobsKept, AtMostOne, OthersKept, Deal, Goes, Part
<1>10. CustodyOK'
  BY <1>9, CustodyUpdate DEF IInv
<1>11. MissionOK(v)'
  BY <1>1, <1>2 DEF MissionOK, Part
<1>12. DealingsKept({i}, {v})
  BY <1>1, <1>11 DEF DealingsKept, OthersKept, SoundIncident, FairlyEngaged, AtMostOne, Drops, Fetches, Open
<1>13. Dealings'
  BY <1>12, DealingsUpdate DEF IInv
<1>14. \A j \in Jobs : Stays(j)
  <2>1. \A o \in Incidents, j \in Jobs : (Deal(o, j)' <=> Deal(o, j))
                                        /\ (Deal(o, j) => incident'[o].helper = incident[o].helper)
    BY DEF Deal, OthersKept
  <2>2. \A j \in Jobs : j = f.job => state[j] \in Active
    BY <1>3, NamesAssumption DEF FlightOK
  <2>. QED
    BY <1>4, <2>1, <2>2 DEF Stays, Active, f
<1>. QED
  BY <1>10, <1>13, <1>14 DEF IInv
-----------------------------------------------------------------------------
(* Decisions.                                                              *)

\* What is true when a responder's decision is carried out: r is what the record of i has
\* become, and nobody has begun to act upon it.
Deciding(i, r) ==
    /\ r \in Records /\ r.responder = incident[i].responder /\ r.phase = incident[i].phase
    /\ Live(r) /\ Settled(r) /\ r.responder \in Vehicles
    /\ \/ incident[i].handoff = "requested"
       \/ Settled(incident[i]) /\ incident[i].choice = None

\* The request that leads to it has been dealt with.
Dealt(i, rest) ==
    /\ rest \subseteq asked /\ \A w, x : <<i, w, x>> \notin rest
    /\ due' \subseteq due /\ (stage' = "poll" => due' = {})
    /\ \A s \in {"decide", "select", "start_helper"} : <<i, s>> \notin steps \cup due'

\* What an allowed option tells of the responder's flight.
LEMMA AllowedFacts ==
    ASSUME NEW r, NEW f \in Flights, NEW able, NEW c \in Allowed(r, f, able)
    PROVE  /\ c \in Options
           /\ c # "report_only" => f.purpose = "task"
           /\ c \in {"respond_now", "request_handoff"} /\ f.job # None => f.suspended = None
           /\ c = "request_handoff" => f.job \in Jobs /\ r.handoff \notin {"declined", "failed"}
BY DEF Allowed, Options, Flights

\* A decision that moves nobody: to report, to respond later, or a model's failure.
LEMMA DecidedHere ==
    ASSUME IInv, WaveTypes', NEW i \in Incidents, NEW r, Deciding(i, r), NEW facts,
           NEW rest, Dealt(i, rest), NEW s \in Records,
           s.responder = r.responder, s.handoff = r.handoff, s.choice # "request_handoff",
           s.phase \in {r.phase, "reported", "decision_failed"},
           incident' = [incident EXCEPT ![i] = s],
           flight' = flight, Write(Nothing, facts), asked' = rest, steps' = steps
    PROVE  IInv' /\ \A j \in Jobs : Stays(j)
<1>1. incident[i] \in Records
  BY DEF IInv, TypeOK, WorkTypes
<1>2. incident'[i] = s /\ \A o \in Incidents \ {i} : incident'[o] = incident[o]
  BY DEF IInv, TypeOK, WorkTypes
<1>3. /\ state' \in [Jobs -> States] /\ fault' \in {"none", "duplicate", "raised"}
      /\ \A j \in Jobs : state'[j] = state[j]
  BY WriteNothing DEF IInv
<1>4. TypeOK'
  BY <1>3 DEF IInv, TypeOK, WorkTypes, Dealt
<1>5. WaveOK'
  BY DEF IInv, Dealings, WaveOK, Dealt
<1>6. SoundIncident(i)
  <2>1. RecordOK(s)
    BY DEF RecordOK, Deciding, Settled, Live, Open
  <2>2. StepsOK(i)
    BY DEF IInv, Dealings, IncidentsOK
  <2>3. StepsOK(i)' /\ AskedOK(i)'
    BY <1>2, <2>2 DEF StepsOK, AskedOK, Awaits, Dealt, Deciding
  <2>4. FairlyEngaged(i)
    BY <1>2 DEF FairlyEngaged, Engaged, Deciding, Settled, Final, Live
  <2>. QED
    BY <1>2, <2>1, <2>3, <2>4 DEF SoundIncident
<1>7. OthersKept(i)
  BY <1>2 DEF OthersKept, Awaits, Dealt
<1>8. /\ ~Open(incident[i]) /\ ~Open(incident'[i])
      /\ \A w \in Vehicles : ~Responds(i, w)
  BY <1>2 DEF Open, Deciding, Settled, Responds
<1>. QED
  BY <1>3, <1>4, <1>5, <1>6, <1>7, <1>8, IncidentStep

\* The responder sets out at once, and suspends its job.
LEMMA DecidedToRespond ==
    ASSUME IInv, WaveTypes', NEW i \in Incidents, NEW r, Deciding(i, r), NEW facts,
           NEW rest, Dealt(i, rest), NEW s \in Records,
           s.responder = r.responder, s.handoff = r.handoff, s.choice = "respond_now",
           s.phase = r.phase,
           flight[r.responder].purpose = "task",
           flight[r.responder].job # None => flight[r.responder].suspended = None,
           flight' = [flight EXCEPT ![r.responder] = Depart(flight[r.responder])],
           Write(Left(flight[r.responder]), facts),
           incident' = [incident EXCEPT ![i] = s], asked' = rest, steps' = steps
    PROVE  IInv' /\ \A j \in Jobs : Stays(j)
<1> DEFINE v == r.responder
           f == flight[v]
<1>1. incident[i] \in Records /\ v \in Vehicles /\ f \in Flights
  BY DEF IInv, TypeOK, WorkTypes, Deciding
<1>2. incident'[i] = s /\ \A o \in Incidents \ {i} : incident'[o] = incident[o]
  BY DEF IInv, TypeOK, WorkTypes
<1>3. /\ state' \in [Jobs -> States] /\ fault' \in {"none", "duplicate", "raised"}
      /\ \A j \in Jobs : state'[j] = IF j = f.job THEN "paused" ELSE state[j]
  <2>1. CASE f.job = None
    <3>1. Write(Nothing, facts)
      BY <2>1 DEF Left
    <3>. QED
      BY <2>1, <3>1, WriteNothing, NamesAssumption DEF IInv
  <2>2. CASE f.job # None
    <3>1. Write(To(f.job, "paused"), facts)
      BY <2>2 DEF Left
    <3>. QED
      BY <3>1, WriteTo DEF IInv, States
  <2>. QED
    BY <2>1, <2>2
<1>4. TypeOK'
  BY <1>1, <1>3, DepartEffect DEF IInv, TypeOK, WorkTypes, Dealt
<1>5. WaveOK'
  BY DEF IInv, Dealings, WaveOK, Dealt
<1>6. SoundIncident(i)
  <2>1. RecordOK(s)
    BY DEF RecordOK, Deciding, Settled, Live, Open
  <2>2. StepsOK(i)
    BY DEF IInv, Dealings, IncidentsOK
  <2>3. StepsOK(i)' /\ AskedOK(i)'
    BY <1>2, <2>2 DEF StepsOK, AskedOK, Awaits, Dealt, Deciding
  <2>4. FairlyEngaged(i)
    BY <1>2 DEF FairlyEngaged, Engaged, Deciding, Settled, Final, Live
  <2>. QED
    BY <1>2, <2>1, <2>3, <2>4 DEF SoundIncident
<1>7. OthersKept(i)
  BY <1>2 DEF OthersKept, Awaits, Dealt
<1>8. /\ ~Open(incident[i]) /\ ~Open(incident'[i]) /\ Responds(i, v)'
      /\ \A w \in Vehicles : ~Responds(i, w)
  BY <1>2, NamesAssumption DEF Open, Deciding, Settled, Responds, Live, Options
<1>. QED
  BY <1>1, <1>3, <1>4, <1>5, <1>6, <1>7, <1>8, SetsOut

\* The helpers in C are asked, or have answered.
Asking(i, C, offers, rest) ==
    \/ /\ asked' = rest \cup {<<i, h, "helper">> : h \in C} /\ steps' = steps
       /\ \A h \in C : offers[h] = "open"
    \/ /\ asked' = rest /\ steps' = steps \cup {<<i, "select">>}
       /\ \A h \in C : offers[h] # "open"

\* Helpers are asked, or have decided by rule.
LEMMA DecidedToAsk ==
    ASSUME IInv, WaveTypes', NEW i \in Incidents, NEW r, Deciding(i, r), NEW facts,
           NEW rest, Dealt(i, rest), NEW C, C \subseteq Vehicles, \A h \in C : Candidate(i, h),
           NEW s \in Records, s.responder = r.responder, s.phase = r.phase,
           s.choice = "request_handoff", s.handoff = "requested", s.job \in Jobs,
           DOMAIN s.offers = C,
           incident' = [incident EXCEPT ![i] = s], flight' = flight, Write(Nothing, facts),
           Asking(i, C, s.offers, rest)
    PROVE  IInv' /\ \A j \in Jobs : Stays(j)
<1> USE DEF Asking
<1>1. incident[i] \in Records
  BY DEF IInv, TypeOK, WorkTypes
<1>2. incident'[i] = s /\ \A o \in Incidents \ {i} : incident'[o] = incident[o]
  BY DEF IInv, TypeOK, WorkTypes
<1>3. /\ state' \in [Jobs -> States] /\ fault' \in {"none", "duplicate", "raised"}
      /\ \A j \in Jobs : state'[j] = state[j]
  BY WriteNothing DEF IInv
<1>4. TypeOK'
  <2>1. asked' \subseteq Incidents \X Vehicles \X {"responder", "helper"}
    BY DEF IInv, TypeOK, WorkTypes, Dealt
  <2>2. steps' \subseteq Incidents \X Steps
    BY DEF IInv, TypeOK, WorkTypes, Steps
  <2>. QED
    BY <1>3, <2>1, <2>2 DEF IInv, TypeOK, WorkTypes
<1>5. WaveOK'
  BY DEF IInv, Dealings, WaveOK, Dealt
<1>6. SoundIncident(i)
  <2>1. RecordOK(s)
    BY DEF RecordOK, Deciding, Settled, Live, Open
  <2>2. StepsOK(i)
    BY DEF IInv, Dealings, IncidentsOK
  <2>3. StepsOK(i)'
    BY <1>2, <2>2 DEF StepsOK, Awaits, Dealt, Deciding, Live
  <2>4. AskedOK(i)'
    <3>1. ASSUME NEW w \in Vehicles, <<i, w, "responder">> \in asked' PROVE FALSE
      BY <3>1 DEF Dealt
    <3>2. ASSUME NEW w \in Vehicles, <<i, w, "helper">> \in asked'
          PROVE  w \in C /\ s.offers[w] = "open"
      BY <3>2 DEF Dealt
    <3>. QED
      BY <1>2, <3>1, <3>2 DEF AskedOK
  <2>5. FairlyEngaged(i)
    BY <1>2 DEF FairlyEngaged, Engaged, Deciding, Candidate
  <2>. QED
    BY <1>2, <2>1, <2>3, <2>4, <2>5 DEF SoundIncident
<1>7. OthersKept(i)
  BY <1>2 DEF OthersKept, Awaits, Dealt
<1>8. /\ ~Open(incident[i]) /\ ~Open(incident'[i])
      /\ \A w \in Vehicles : ~Responds(i, w)
  BY <1>2 DEF Open, Deciding, Settled, Responds
<1>. QED
  BY <1>3, <1>4, <1>5, <1>6, <1>7, <1>8, IncidentStep

\* The records that decisions make.
LEMMA ChoiceRecord ==
    ASSUME NEW r \in Records, NEW c \in Options \cup {None}
    PROVE  LET s == [r EXCEPT !.choice = c]
           IN /\ s \in Records /\ s.responder = r.responder /\ s.handoff = r.handoff
              /\ s.choice = c /\ s.phase = r.phase
<1>1. [r EXCEPT !.choice = c] \in Records
  BY DEF Records
<1>. QED
  BY <1>1 DEF Records

\* The record of an incident that is reported.
LEMMA ReportRecord ==
    ASSUME NEW r \in Records, NEW c \in Options \cup {None}, NEW p \in {"reported", "decision_failed"}
    PROVE  LET s == [r EXCEPT !.choice = c, !.phase = p]
           IN /\ s \in Records /\ s.responder = r.responder /\ s.handoff = r.handoff
              /\ s.choice = c /\ s.phase = p
<1>1. [r EXCEPT !.choice = c, !.phase = p] \in Records
  BY DEF Records
<1>. QED
  BY <1>1 DEF Records

\* The record of an incident whose candidates are asked.
LEMMA OffersRecord ==
    ASSUME NEW s \in Records, NEW C \in SUBSET Vehicles, NEW a \in [C -> Answers]
    PROVE  LET t == [s EXCEPT !.offers = a]
           IN /\ t \in Records /\ t.responder = s.responder /\ t.phase = s.phase
              /\ t.choice = s.choice /\ t.handoff = s.handoff /\ t.job = s.job /\ t.offers = a
              /\ t.helper = s.helper /\ t.point = s.point
<1>1. a \in UNION {[D -> Answers] : D \in SUBSET Vehicles}
  OBVIOUS
<1>2. [s EXCEPT !.offers = a] \in Records
  BY <1>1 DEF Records
<1>. QED
  BY <1>2 DEF Records

\* A decision keeps the invariant, and moves no job.
LEMMA Decided ==
    ASSUME IInv, WaveTypes', NEW i \in Incidents, NEW r, Deciding(i, r), NEW facts,
           NEW rest, Dealt(i, rest), NEW able, NEW c \in Allowed(r, flight[r.responder], able),
           Decide(i, r, c, facts, rest)
    PROVE  IInv' /\ \A j \in Jobs : Stays(j)
<1> DEFINE v == r.responder
           f == flight[v]
           done == IInv' /\ \A j \in Jobs : Stays(j)
<1>1. r \in Records /\ v \in Vehicles /\ f \in Flights /\ flight \in [Vehicles -> Flights]
  BY DEF IInv, TypeOK, WorkTypes, Deciding
<1>2. /\ c \in Options
      /\ c # "report_only" => f.purpose = "task"
      /\ c \in {"respond_now", "request_handoff"} /\ f.job # None => f.suspended = None
      /\ c = "request_handoff" => f.job \in Jobs /\ r.handoff \notin {"declined", "failed"}
  BY <1>1, AllowedFacts
<1>. HIDE DEF f, v, done
<1>3. CASE c = "report_only"
  <2> DEFINE s == [r EXCEPT !.choice = c, !.phase = "reported"]
  <2>1. /\ Put(i, s, v, f) /\ Write(Nothing, facts \cup {<<"incident", i>>})
        /\ asked' = rest /\ steps' = steps
    BY <1>3, Zenon DEF Decide, v, f
  <2>2. /\ s \in Records /\ s.responder = r.responder /\ s.handoff = r.handoff
        /\ s.choice = c /\ s.phase = "reported"
    BY <1>1, <1>2, ReportRecord
  <2>. HIDE DEF s
  <2>3. incident' = [incident EXCEPT ![i] = s] /\ flight' = flight
    BY <1>1, <2>1 DEF Put, f
  <2>. QED
    BY <1>3, <2>1, <2>2, <2>3, DecidedHere DEF done
<1>4. CASE c = "respond_now"
  <2> DEFINE s == [r EXCEPT !.choice = c]
  <2>1. Put(i, s, v, Depart(f)) /\ Write(Left(f), facts) /\ asked' = rest /\ steps' = steps
    BY <1>4, Zenon DEF Decide, v, f
  <2>2. /\ s \in Records /\ s.responder = r.responder /\ s.handoff = r.handoff
        /\ s.choice = c /\ s.phase = r.phase
    BY <1>1, <1>2, ChoiceRecord
  <2>. HIDE DEF s
  <2>3. incident' = [incident EXCEPT ![i] = s] /\ flight' = [flight EXCEPT ![v] = Depart(f)]
    BY <2>1 DEF Put
  <2>. QED
    BY <1>2, <1>4, <2>1, <2>2, <2>3, DecidedToRespond DEF done, v, f
<1>5. CASE c = "finish_then_respond"
  <2> DEFINE s == [r EXCEPT !.choice = c]
  <2>1. Put(i, s, v, f) /\ Write(Nothing, facts) /\ asked' = rest /\ steps' = steps
    BY <1>5, Zenon DEF Decide, v, f
  <2>2. /\ s \in Records /\ s.responder = r.responder /\ s.handoff = r.handoff
        /\ s.choice = c /\ s.phase = r.phase
    BY <1>1, <1>2, ChoiceRecord
  <2>. HIDE DEF s
  <2>3. incident' = [incident EXCEPT ![i] = s] /\ flight' = flight
    BY <1>1, <2>1 DEF Put, f
  <2>. QED
    BY <1>5, <2>1, <2>2, <2>3, DecidedHere DEF done
<1>6. CASE c = "request_handoff"
  <2> DEFINE s == [r EXCEPT !.choice = "request_handoff", !.job = f.job, !.handoff = "requested"]
             asks(C) == [h \in C |-> "open"]
             says(C) == [h \in C |-> IF policy.always \/ (Free(flight[h]) /\ flight[h].held # "charge")
                                      THEN "yes" ELSE "no"]
  <2>1. Request(i, r, f, rest)
    BY <1>6, Zenon DEF Decide, v, f
  <2>2. PICK C \in SUBSET {h \in policy.helpers : Candidate(i, h)} :
           /\ \/ /\ incident' = [incident EXCEPT ![i] = [s EXCEPT !.offers = asks(C)]]
                 /\ asked' = rest \cup {<<i, h, "helper">> : h \in C} /\ steps' = steps
              \/ /\ incident' = [incident EXCEPT ![i] = [s EXCEPT !.offers = says(C)]]
                 /\ asked' = rest /\ steps' = steps \cup {<<i, "select">>}
           /\ Write(Nothing, {<<"handoff", i>>})
           /\ flight' = flight
    BY <2>1, Zenon DEF Request
  <2>3. C \subseteq Vehicles /\ \A h \in C : Candidate(i, h)
    BY PoliciesAssumption DEF IInv, TypeOK, WaveTypes
  <2>4. asks(C) \in [C -> Answers] /\ says(C) \in [C -> Answers]
    BY DEF Answers
  <2>5. (\A h \in C : asks(C)[h] = "open") /\ (\A h \in C : says(C)[h] # "open")
    OBVIOUS
  <2>7. f.job \in Jobs /\ C \in SUBSET Vehicles
    BY <1>2, <1>6, <2>3
  <2>8. Write(Nothing, {<<"handoff", i>>}) /\ flight' = flight
    BY <2>2, Zenon
  <2>9. /\ s \in Records /\ s.responder = r.responder /\ s.phase = r.phase
        /\ s.choice = "request_handoff" /\ s.handoff = "requested" /\ s.job = f.job
    BY <1>1, <2>7 DEF Records, Options
  <2>. HIDE DEF s, asks, says
  <2>6. ASSUME NEW a \in [C -> Answers], incident' = [incident EXCEPT ![i] = [s EXCEPT !.offers = a]],
               Asking(i, C, a, rest)
        PROVE  done
    <3> DEFINE t == [s EXCEPT !.offers = a]
    <3>1. /\ t \in Records /\ t.responder = r.responder /\ t.phase = r.phase
          /\ t.choice = "request_handoff" /\ t.handoff = "requested" /\ t.job = f.job /\ t.offers = a
      BY <2>9, <2>7, OffersRecord
    <3>. HIDE DEF t
    <3>2. incident' = [incident EXCEPT ![i] = t]
      BY <2>6, Zenon DEF t
    <3>3. DOMAIN t.offers = C /\ t.job \in Jobs
      BY <2>7, <3>1
    <3>4. Asking(i, C, t.offers, rest)
      BY <2>6, <3>1, Zenon
    <3>. QED
      BY <2>3, <2>8, <3>1, <3>2, <3>3, <3>4, DecidedToAsk, Zenon DEF done
  <2>. QED
    BY <2>2, <2>4, <2>5, <2>6, Zenon DEF done, Asking
<1>. QED
  BY <1>2, <1>3, <1>4, <1>5, <1>6 DEF done, Options
-----------------------------------------------------------------------------
(* Where jobs go.                                                          *)

Unheld(j) == \A w \in Vehicles : ~Has(w, j)
DealsSame(j) == \A i \in Incidents :
    (Deal(i, j)' <=> Deal(i, j)) /\ (Deal(i, j) => incident'[i].helper = incident[i].helper)

\* A vehicle gets a new job.
Begins(j) == /\ state[j] = "queued" /\ state'[j] \notin Loose /\ DealsSame(j)
             /\ \E v \in Vehicles : Has(v, j)'

\* A job that nobody else is to get is completed or fails.
Ends(j) == /\ \E v \in Vehicles : Has(v, j)
           /\ DealsSame(j) /\ \A i \in Incidents : ~Deal(i, j)
           /\ state'[j] \in {"completed", "failed"}

\* A helper agrees to take a job, which its vehicle leaves at once, or is to bring.
Agrees(j) ==
    \E v \in Vehicles, i \in Incidents :
        /\ Has(v, j) /\ Deal(i, j)' /\ incident'[i].helper # v
        /\ \A o \in Incidents : ~Deal(o, j)
        /\ (Has(v, j)' \/ Unheld(j)') /\ state'[j] # "failed"

\* A vehicle leaves a job that is agreed upon, or left it when it failed.
Leaves(j) == /\ (\E v \in Vehicles : Has(v, j)) \/ state[j] = "failed"
             /\ \E i \in Incidents : Deal(i, j)
             /\ DealsSame(j) /\ Unheld(j)' /\ state'[j] # "failed"

\* A job that is agreed upon fails.
Spoils(j) == /\ \E v \in Vehicles : Has(v, j)
             /\ \E i \in Incidents : Deal(i, j)
             /\ DealsSame(j) /\ Unheld(j)' /\ state'[j] = "failed"

\* The helper gets the job.
Takes(j) ==
    \E i \in Incidents, v \in Vehicles :
        /\ Deal(i, j) /\ v = incident[i].helper /\ Unheld(j) /\ Has(v, j)'
        /\ state[j] # "failed"
        /\ \A o \in Incidents : ~Deal(o, j)'

\* At most one job moves in a step, unless several that are agreed upon are left.
Moved ==
    \/ \A j \in Jobs : Stays(j) \/ Leaves(j)
    \/ \E j \in Jobs : /\ \A k \in Jobs \ {j} : Stays(k)
                       /\ Begins(j) \/ Ends(j) \/ Agrees(j) \/ Spoils(j) \/ Takes(j)

\* What v may do with the jobs that it has, or gets, of its own.
JobsOf(v) == \A j \in Jobs :
    \/ state'[j] = state[j] /\ (Has(v, j)' <=> Has(v, j))
    \/ Has(v, j) /\ (Has(v, j)' \/ state'[j] \in Loose)
    \/ state[j] \in {"unreleased", "queued"} /\ (Has(v, j)' \/ state'[j] \in Loose)

\* A job that a vehicle has is being done, or paused.
LEMMA HeldJob ==
    ASSUME IInv, NEW v \in Vehicles, NEW j \in Jobs, Has(v, j)
    PROVE  /\ state[j] \in Active \cup {"paused"} /\ j # None
           /\ \A w \in Vehicles : Has(w, j) => w = v
<1>1. FlightOK(flight[v])
  BY DEF IInv, CustodyOK, FlightsOK
<1>2. j # None
  BY NamesAssumption
<1>3. \A w \in Vehicles : Has(w, j) => w = v
  BY DEF IInv, CustodyOK, OneHolder
<1>. QED
  BY <1>1, <1>2, <1>3 DEF FlightOK, Has

\* v does something else than to bring a parcel, and nothing is agreed upon.
LEMMA OwnJobs ==
    ASSUME IInv, TypeOK', NEW v \in Vehicles, \A w \in Vehicles \ {v} : Keeps(w),
           \A o \in Incidents : SameDeal(o), FlightOK(flight[v])', JobsOf(v),
           Part(flight[v]) # "handoff_drop", Part(flight'[v]) # "handoff_drop"
    PROVE  CustodyOK'
<1>1. \A w \in Vehicles \ {v}, j \in Jobs : Has(w, j)' <=> Has(w, j)
  BY DEF Has, Keeps
<1>2. \A i \in Incidents, j \in Jobs : Deal(i, j)' <=> Deal(i, j)
  BY DEF SameDeal, Deal, Open
<1>3. \A i \in Incidents, j \in Jobs : Deal(i, j) => Goes(i, j) /\ ~Has(v, j)
  BY DEF IInv, CustodyOK, DealsOK, DealOK
<1>4. \A w \in Vehicles \ {v}, j \in Jobs : Has(w, j) => state'[j] = state[j] /\ ~Has(v, j) /\ ~Has(v, j)'
  <2>1. ASSUME NEW w \in Vehicles \ {v}, NEW j \in Jobs, Has(w, j)
        PROVE  ~Has(v, j) /\ state[j] \notin {"unreleased", "queued"}
    BY <2>1, HeldJob DEF Active
  <2>. QED
    BY <2>1 DEF JobsOf
<1>5. \A i \in Incidents, j \in Jobs : Deal(i, j) => state'[j] = state[j] /\ ~Has(v, j)'
  BY <1>3 DEF JobsOf, Goes, Loose
<1>6. FlightsOK'
  <2>1. ASSUME NEW w \in Vehicles \ {v} PROVE FlightOK(flight[w])'
    <3>1. FlightOK(flight[w]) /\ flight[w] \in Flights
      BY DEF IInv, CustodyOK, FlightsOK, TypeOK, WorkTypes
    <3>2. \A j \in Jobs : Has(w, j) => state'[j] = state[j]
      BY <1>4
    <3>. QED
      BY <3>1, <3>2 DEF FlightOK, Has, Keeps, Flights, Part
  <2>. QED
    BY <2>1 DEF FlightsOK
<1>7. OneHolder'
  BY <1>1, <1>4 DEF IInv, CustodyOK, OneHolder
<1>8. OneDeal'
  BY <1>2 DEF IInv, CustodyOK, OneDeal
<1>9. NotLost'
  <2>1. ASSUME NEW j \in Jobs
        PROVE  state'[j] \in Loose \/ (\E w \in Vehicles : Has(w, j)') \/ \E i \in Incidents : Deal(i, j)
    <3>1. state[j] \in Loose \/ (\E w \in Vehicles : Has(w, j)) \/ \E i \in Incidents : Deal(i, j)
      BY DEF IInv, CustodyOK, NotLost
    <3>. QED
      BY <1>1, <3>1 DEF JobsOf
  <2>. QED
    BY <1>2, <2>1 DEF NotLost
<1>10. DealsOK'
  <2>1. ASSUME NEW i \in Incidents, NEW j \in Jobs, Deal(i, j) PROVE DealOK(i, j)'
    <3>1. ASSUME NEW w \in Vehicles, Has(w, j)'
          PROVE  /\ w = incident'[i].responder /\ Part(flight'[w]) = "handoff_drop"
                 /\ incident'[i].point
      <4>1. w # v /\ Has(w, j)
        BY <1>1, <1>5, <2>1, <3>1
      <4>2. w = incident[i].responder /\ Part(flight[w]) = "handoff_drop" /\ incident[i].point
        BY <2>1, <4>1 DEF IInv, CustodyOK, DealsOK, DealOK
      <4>. QED
        BY <2>1, <4>1, <4>2 DEF Keeps, SameDeal, Deal
    <3>2. Goes(i, j)'
      BY <1>3, <1>5, <2>1 DEF Goes, SameDeal, Deal
    <3>. QED
      BY <3>1, <3>2 DEF DealOK, Part
  <2>. QED
    BY <1>2, <2>1 DEF DealsOK
<1>11. Parcels'
  <2>1. ASSUME NEW i \in Incidents, NEW w \in Vehicles, Drops(i, w)', Part(flight'[w]) = "handoff_drop"
        PROVE  flight'[w].job \in {incident'[i].job, None}
    <3>1. w # v /\ Part(flight[w]) = "handoff_drop" /\ flight'[w].job = flight[w].job
      BY <2>1 DEF Keeps
    <3>2. Drops(i, w) /\ incident'[i].job = incident[i].job
      BY <2>1 DEF Drops, SameDeal, Open
    <3>. QED
      BY <3>1, <3>2 DEF IInv, CustodyOK, Parcels
  <2>. QED
    BY <2>1 DEF Parcels, Part
<1>. QED
  BY <1>6, <1>7, <1>8, <1>9, <1>10, <1>11 DEF CustodyOK

\* The effects of the parts that actions are made of.
LEMMA FlyEffect ==
    ASSUME TypeOK, NEW v \in Vehicles, NEW g \in Flights, NEW new, Fly(v, g, new)
    PROVE  /\ flight' \in [Vehicles -> Flights] /\ flight'[v] = g
           /\ \A w \in Vehicles \ {v} : flight'[w] = flight[w]
           /\ Write(new, {}) /\ incident' = incident /\ asked' = asked /\ steps' = steps
BY DEF Fly, TypeOK, WorkTypes, requests

\* What Put does to the flights and the incidents.
LEMMA PutEffect ==
    ASSUME TypeOK, NEW i \in Incidents, NEW r \in Records, NEW v \in Vehicles, NEW g \in Flights,
           Put(i, r, v, g)
    PROVE  /\ flight' \in [Vehicles -> Flights] /\ flight'[v] = g
           /\ \A w \in Vehicles \ {v} : flight'[w] = flight[w]
           /\ incident' \in [Incidents -> Records] /\ incident'[i] = r
           /\ \A o \in Incidents \ {i} : incident'[o] = incident[o]
BY DEF Put, TypeOK, WorkTypes

\* The positions of vehicles and incidents, and the turns of a poll.
LEMMA Turns ==
    /\ Fleets \in Nat /\ Preempting \in Nat /\ Assigning \in Nat
    /\ \A k \in DOMAIN Fleet : k \in Nat /\ Fleet[k] \in Vehicles
    /\ \A k \in DOMAIN Scene : k \in Nat /\ Scene[k] \in Incidents
BY NamesAssumption DEF Fleets, Preempting, Assigning, Vehicles, Incidents

\* A turn of a poll changes neither the policy nor the stage, and no step is due.
LEMMA TurnEffect ==
    ASSUME IInv, NEW t, Turn(t)
    PROVE  /\ policy' = policy /\ due' = due /\ stage' = stage /\ trouble' = trouble
           /\ due = {} /\ due' = {} /\ stage = "poll" /\ fault = "none"
BY DEF Turn, Past, IInv, Dealings, WaveOK

\* An action of another stage than the poll.
LEMMA AtEffect ==
    ASSUME NEW s \in {"receipts", "messages", "timers", "deferred"}, At(s)
    PROVE  policy' = policy /\ stage' = s /\ stage' # "poll" /\ fault = "none"
BY DEF At

\* v flies, or gets or ends a job, and no incident changes.
LEMMA FlightStep ==
    ASSUME IInv, TypeOK', WaveOK', NEW v \in Vehicles, incident' = incident,
           asked' \subseteq asked, steps' \cup due' \subseteq steps \cup due,
           \A w \in Vehicles \ {v} : flight'[w] = flight[w],
           MissionOK(v)', FlightOK(flight[v])', JobsOf(v),
           Part(flight[v]) # "handoff_drop", Part(flight'[v]) # "handoff_drop"
    PROVE  IInv'
<1>1. DealingsKept({}, {v})
  BY DEF DealingsKept, AtMostOne, Awaits
<1>2. Dealings'
  BY <1>1, DealingsUpdate DEF IInv
<1>3. (\A w \in Vehicles \ {v} : Keeps(w)) /\ \A o \in Incidents : SameDeal(o)
  BY DEF Keeps, SameDeal
<1>4. CustodyOK'
  BY <1>3, OwnJobs
<1>. QED
  BY <1>2, <1>4 DEF IInv

\* _assign: a queued job begins.
LEMMA AssignStep ==
    ASSUME IInv, NEW j \in Jobs, NEW v \in Vehicles, Assign(j, v)
    PROVE  IInv' /\ Moved
<1> DEFINE f == flight[v]
           g == [f EXCEPT !.job = j, !.leg = "idle"]
<1>1. /\ Turn(Assigning) /\ turn' = Assigning /\ Queued(j) /\ Free(f)
      /\ Fly(v, g, To(j, "assigned")) /\ resumed' = resumed
  BY Zenon DEF Assign, f, g
<1>2. f \in Flights /\ FlightOK(f)
  BY DEF IInv, TypeOK, WorkTypes, CustodyOK, FlightsOK
<1>. HIDE DEF f
<1>3. /\ g \in Flights /\ g.job = j /\ g.suspended = f.suspended /\ g.resume = f.resume
      /\ g.purpose = f.purpose
  BY <1>2 DEF Flights
<1>. HIDE DEF g
<1>4. /\ flight' \in [Vehicles -> Flights] /\ flight'[v] = g
      /\ \A w \in Vehicles \ {v} : flight'[w] = flight[w]
      /\ Write(To(j, "assigned"), {}) /\ incident' = incident /\ asked' = asked /\ steps' = steps
  BY <1>1, <1>3, FlyEffect DEF IInv
<1>5. /\ policy' = policy /\ due' = due /\ stage' = stage /\ trouble' = trouble
  BY <1>1, TurnEffect
<1>6. /\ state' \in [Jobs -> States] /\ fault' \in {"none", "duplicate", "raised"}
      /\ \A k \in Jobs : state'[k] = IF k = j THEN "assigned" ELSE state[k]
  BY <1>4, WriteTo DEF IInv, States
<1>7. TypeOK' /\ WaveOK'
  BY <1>1, <1>4, <1>5, <1>6, Turns DEF IInv, TypeOK, WorkTypes, WaveTypes, Dealings, WaveOK
<1>8. state[j] = "queued" /\ f.job = None /\ f.purpose = "task" /\ Part(f) = "task" /\ Part(g) = "task"
  BY <1>1, <1>3 DEF Queued, Free, Part, Controlled
<1>9. Unheld(j)
  BY <1>8, HeldJob DEF Unheld, Active
<1>10. \A k \in Jobs : Has(v, k)' <=> (Has(v, k) \/ k = j)
  BY <1>3, <1>4, <1>8, NamesAssumption DEF Has, f
<1>11. FlightOK(flight[v])'
  BY <1>2, <1>3, <1>4, <1>6, <1>8, NamesAssumption DEF FlightOK, Flights, Active
<1>12. JobsOf(v)
  BY <1>6, <1>8, <1>10 DEF JobsOf
<1>13. MissionOK(v)'
  BY <1>4, <1>8 DEF MissionOK, Part
<1>14. IInv'
  BY <1>4, <1>5, <1>7, <1>8, <1>11, <1>12, <1>13, FlightStep DEF f
<1>15. \A k \in Jobs : DealsSame(k)
  BY <1>4 DEF DealsSame, Deal
<1>16. \A w \in Vehicles \ {v}, k \in Jobs : Has(w, k)' <=> Has(w, k)
  BY <1>4 DEF Has
<1>17. \A k \in Jobs \ {j} : Stays(k)
  BY <1>6, <1>10, <1>15, <1>16 DEF Stays, DealsSame
<1>18. Begins(j)
  BY <1>6, <1>8, <1>10, <1>15 DEF Begins, Loose
<1>. QED
  BY <1>14, <1>17, <1>18 DEF Moved

\* _preempt: a queued job begins, and the job of the vehicle is suspended.
LEMMA PreemptStep ==
    ASSUME IInv, NEW j \in Jobs, NEW v \in Vehicles, Preempt(j, v)
    PROVE  IInv' /\ Moved
<1> DEFINE f == flight[v]
           g == [f EXCEPT !.suspended = f.job, !.resume = state[f.job], !.job = j, !.leg = "braking"]
<1>1. /\ Turn(Preempting) /\ turn' = Preempting /\ Queued(j) /\ resumed' = resumed
      /\ f.job \in Jobs \ policy.urgent /\ f.suspended = None /\ f.purpose = "task"
      /\ Fly(v, g, Both(f.job, "paused", j, "assigned"))
  BY Zenon DEF Preempt, f, g
<1>2. f \in Flights /\ FlightOK(f)
  BY DEF IInv, TypeOK, WorkTypes, CustodyOK, FlightsOK
<1>. HIDE DEF f
<1>3. state[f.job] \in Active /\ f.job \in Jobs /\ f.job # None
  BY <1>1, <1>2, NamesAssumption DEF FlightOK
<1>4. /\ g \in Flights /\ g.job = j /\ g.suspended = f.job /\ g.resume = state[f.job]
      /\ g.purpose = f.purpose
  BY <1>2, <1>3 DEF Flights, Active, States
<1>. HIDE DEF g
<1>5. /\ flight' \in [Vehicles -> Flights] /\ flight'[v] = g
      /\ \A w \in Vehicles \ {v} : flight'[w] = flight[w]
      /\ Write(Both(f.job, "paused", j, "assigned"), {})
      /\ incident' = incident /\ asked' = asked /\ steps' = steps
  BY <1>1, <1>4, FlyEffect DEF IInv
<1>6. /\ policy' = policy /\ due' = due /\ stage' = stage /\ trouble' = trouble
  BY <1>1, TurnEffect
<1>7. /\ state' \in [Jobs -> States] /\ fault' \in {"none", "duplicate", "raised"}
      /\ \A k \in Jobs : state'[k] = IF k = f.job THEN "paused" ELSE IF k = j THEN "assigned" ELSE state[k]
  <2>1. "paused" \in States /\ "assigned" \in States /\ TypeOK
    BY DEF IInv, States
  <2>. QED
    BY <1>1, <1>5, <2>1, WriteBoth
<1>8. TypeOK' /\ WaveOK'
  BY <1>1, <1>5, <1>6, <1>7, Turns DEF IInv, TypeOK, WorkTypes, WaveTypes, Dealings, WaveOK
<1>9. state[j] = "queued" /\ f.purpose = "task" /\ Part(f) = "task" /\ Part(g) = "task" /\ f.job # j
  BY <1>1, <1>3, <1>4 DEF Queued, Part, Controlled, Active
<1>10. Unheld(j)
  BY <1>9, HeldJob DEF Unheld, Active
<1>11. \A k \in Jobs : Has(v, k)' <=> (Has(v, k) \/ k = j)
  BY <1>1, <1>4, <1>5, NamesAssumption DEF Has, f
<1>12. FlightOK(flight[v])'
  BY <1>3, <1>4, <1>5, <1>7, <1>9, NamesAssumption DEF FlightOK, Active
<1>13. JobsOf(v)
  BY <1>7, <1>9, <1>11 DEF JobsOf, Has, f
<1>14. MissionOK(v)'
  BY <1>5, <1>9 DEF MissionOK, Part
<1>15. IInv'
  BY <1>5, <1>6, <1>8, <1>9, <1>12, <1>13, <1>14, FlightStep DEF f
<1>16. \A k \in Jobs : DealsSame(k)
  BY <1>5 DEF DealsSame, Deal
<1>17. \A w \in Vehicles \ {v}, k \in Jobs : Has(w, k)' <=> Has(w, k)
  BY <1>5 DEF Has
<1>18. \A k \in Jobs \ {j} : Stays(k)
  BY <1>3, <1>7, <1>11, <1>16, <1>17 DEF Stays, DealsSame, Active
<1>19. Begins(j)
  BY <1>7, <1>9, <1>11, <1>16 DEF Begins, Loose
<1>. QED
  BY <1>15, <1>18, <1>19 DEF Moved

\* v fails on the way to a point, under control, with the parcel f.job that it brings there.
LEMMA ParcelFails ==
    ASSUME IInv, TypeOK', WaveOK', NEW v \in Vehicles,
           NEW j, j = flight[v].job, j # None,
           Part(flight[v]) = "handoff_drop", Part(flight'[v]) = "handoff_drop",
           flight'[v].job = None, flight'[v].suspended = flight[v].suspended,
           \A w \in Vehicles \ {v} : flight'[w] = flight[w],
           incident' = incident, asked' = asked, steps' = steps, due' = due,
           \A k \in Jobs : state'[k] = IF k = j THEN "failed" ELSE state[k]
    PROVE  IInv' /\ Moved
<1>1. PICK i \in Incidents : Drops(i, v) /\ incident[i].job = j
  BY DEF IInv, Dealings, Missions, MissionOK, CustodyOK, Parcels
<1>2. j \in Jobs /\ Has(v, j) /\ flight[v].suspended = None /\ state[j] \notin Loose
  <2>1. flight[v] \in Flights /\ FlightOK(flight[v])
    BY DEF IInv, TypeOK, WorkTypes, CustodyOK, FlightsOK
  <2>. QED
    BY <2>1 DEF Flights, FlightOK, Has, Active, Loose
<1>3. Deal(i, j) /\ incident[i].handoff = "accepted" /\ incident[i].point
  BY <1>1 DEF Drops, Deal, Open
<1>4. \A o \in Incidents : Deal(o, j) => o = i
  BY <1>2, <1>3 DEF IInv, CustodyOK, OneDeal
<1>5. \A w \in Vehicles \ {v} : ~Has(w, j)
  BY <1>2, HeldJob
<1>6. \A k \in Jobs : ~Has(v, k)' /\ (Has(v, k) => k = j)
  BY <1>2, NamesAssumption DEF Has
<1>7. \A k \in Jobs : state'[k] = IF k = j THEN "failed" ELSE state[k]
  OBVIOUS
<1>8. \A w \in Vehicles \ {v}, k \in Jobs : Has(w, k)' <=> Has(w, k)
  BY DEF Has
<1>9. \A o \in Incidents, k \in Jobs : Deal(o, k)' <=> Deal(o, k)
  BY DEF Deal
<1>10. JobsKept({}, {v})
  <2>1. \A w \in Vehicles \ {v} : Keeps(w)
    BY DEF Keeps
  <2>2. \A k \in Jobs : (\E w \in Vehicles \ {v} : Has(w, k)) => state'[k] = state[k]
    BY <1>5, <1>7
  <2>3. FlightOK(flight[v])'
    BY <1>2 DEF FlightOK, Part
  <2>4. \A k \in Jobs : state'[k] \in Loose \/ (state[k] \notin Loose /\ ~Has(v, k))
    BY <1>6, <1>7 DEF Loose
  <2>5. \A o \in Incidents, k \in Jobs : Deal(o, k) => Goes(o, k)'
    <3>1. ASSUME NEW o \in Incidents, NEW k \in Jobs, Deal(o, k), k # j PROVE Goes(o, k)'
      BY <1>7, <3>1 DEF IInv, CustodyOK, DealsOK, DealOK, Goes
    <3>2. Goes(i, j)'
      BY <1>2, <1>3, <1>7 DEF Goes, Loose
    <3>. QED
      BY <1>4, <3>1, <3>2 DEF Deal
  <2>. QED
    BY <1>6, <2>1, <2>2, <2>3, <2>4, <2>5 DEF JobsKept, AtMostOne
<1>11. CustodyOK'
  BY <1>10, CustodyUpdate DEF IInv
<1>12. MissionOK(v)'
  BY <1>1 DEF MissionOK, Part, Drops, Live
<1>13. DealingsKept({}, {v})
  BY <1>12 DEF DealingsKept, AtMostOne, Awaits
<1>14. Dealings'
  BY <1>13, DealingsUpdate DEF IInv
<1>15. \A k \in Jobs \ {j} : Stays(k)
  BY <1>6, <1>7, <1>8, <1>9 DEF Stays
<1>16. Spoils(j)
  <2>1. Unheld(j)'
    BY <1>2, <1>5, <1>6, <1>8 DEF Unheld
  <2>2. DealsSame(j)
    BY DEF DealsSame, Deal
  <2>. QED
    BY <1>2, <1>3, <1>7, <2>1, <2>2 DEF Spoils
<1>. QED
  BY <1>2, <1>11, <1>14, <1>15, <1>16 DEF IInv, Moved

\* A trip fails: a job ends, or the vehicle plans again.
LEMMA TripFailsStep ==
    ASSUME IInv, NEW v \in Vehicles, TripFails(v)
    PROVE  IInv' /\ Moved
<1> DEFINE f == flight[v]
           over == f.purpose \notin Responding /\ f.job # None
           g == [f EXCEPT !.leg = "idle", !.job = IF over THEN None ELSE @,
                          !.purpose = IF @ = "control" THEN "stranded" ELSE @]
<1>1. /\ At("receipts") /\ Fly(v, g, IF over THEN To(f.job, "failed") ELSE Nothing)
      /\ due' = due /\ turn' = turn /\ resumed' = resumed /\ trouble' = trouble + 1
  BY Zenon DEF TripFails, f, g, over
<1>2. f \in Flights /\ FlightOK(f)
  BY DEF IInv, TypeOK, WorkTypes, CustodyOK, FlightsOK
<1>. HIDE DEF f
<1>3. /\ g \in Flights /\ g.job = (IF over THEN None ELSE f.job) /\ g.suspended = f.suspended
      /\ g.resume = f.resume /\ Part(g) = Part(f)
  <2>1. /\ g \in Flights /\ g.job = (IF over THEN None ELSE f.job) /\ g.suspended = f.suspended
        /\ g.resume = f.resume /\ g.back = f.back
        /\ g.purpose = IF f.purpose = "control" THEN "stranded" ELSE f.purpose
    BY <1>2 DEF Flights
  <2>. QED
    BY <2>1 DEF Part, Controlled
<1>. HIDE DEF g
<1>4. /\ flight' \in [Vehicles -> Flights] /\ flight'[v] = g
      /\ \A w \in Vehicles \ {v} : flight'[w] = flight[w]
      /\ Write(IF over THEN To(f.job, "failed") ELSE Nothing, {})
      /\ incident' = incident /\ asked' = asked /\ steps' = steps
  BY <1>1, <1>3, FlyEffect DEF IInv
<1>5. policy' = policy /\ stage' = "receipts"
  BY <1>1, AtEffect
<1>6. /\ state' \in [Jobs -> States] /\ fault' \in {"none", "duplicate", "raised"}
      /\ \A k \in Jobs : state'[k] = IF over /\ k = f.job THEN "failed" ELSE state[k]
  <2>1. CASE over
    BY <1>4, <2>1, WriteTo DEF IInv, States
  <2>2. CASE ~over
    BY <1>4, <2>2, WriteNothing DEF IInv
  <2>. QED
    BY <2>1, <2>2
<1>7. TypeOK' /\ WaveOK'
  BY <1>1, <1>4, <1>5, <1>6 DEF IInv, TypeOK, WorkTypes, WaveTypes, Dealings, WaveOK
<1>8. CASE over /\ Part(f) # "handoff_drop"
  <2>1. Part(f) = "task" /\ Part(g) = "task" /\ f.job \in Jobs /\ f.job # None /\ state[f.job] \in Active
    BY <1>2, <1>3, <1>8 DEF Part, Controlled, Responding, FlightOK, Flights
  <2>2. f.suspended # f.job
    BY <1>2, <2>1 DEF FlightOK, Active
  <2>3. \A k \in Jobs : Has(v, k)' <=> (Has(v, k) /\ k # f.job)
    BY <1>3, <1>4, <1>8, <2>1, <2>2, NamesAssumption DEF Has, f
  <2>4. FlightOK(flight[v])'
    <3>1. f.suspended # None => state'[f.suspended] = "paused" /\ f.resume \in Active
      BY <1>2, <1>6, <2>2 DEF FlightOK, Flights
    <3>. QED
      BY <1>3, <1>4, <1>8, <2>1, <3>1 DEF FlightOK
  <2>5. JobsOf(v)
    <3>1. Has(v, f.job) /\ state'[f.job] = "failed"
      BY <1>6, <1>8, <2>1 DEF Has, f
    <3>. QED
      BY <1>6, <2>3, <3>1 DEF JobsOf, Loose
  <2>6. MissionOK(v)'
    BY <1>4, <2>1 DEF MissionOK, Part
  <2>7. IInv'
    BY <1>1, <1>4, <1>7, <2>1, <2>4, <2>5, <2>6, FlightStep DEF f
  <2>8. \A k \in Jobs \ {f.job} : Stays(k)
    BY <1>4, <1>6, <2>3 DEF Stays, Has, Deal
  <2>9. \A j \in Jobs : j = f.job => Ends(j)
    <3>. SUFFICES ASSUME NEW j \in Jobs, j = f.job PROVE Ends(j)
      OBVIOUS
    <3>1. Has(v, j)
      BY DEF Has, f
    <3>2. \A i \in Incidents : ~Deal(i, j)
      BY <2>1, <3>1 DEF IInv, CustodyOK, DealsOK, DealOK, f
    <3>3. DealsSame(j)
      BY <1>4 DEF DealsSame, Deal
    <3>. QED
      BY <1>6, <1>8, <3>1, <3>2, <3>3 DEF Ends
  <2>. QED
    BY <2>1, <2>7, <2>8, <2>9 DEF Moved
<1>9. CASE over /\ Part(f) = "handoff_drop"
  <2>1. Part(flight[v]) = "handoff_drop" /\ Part(flight'[v]) = "handoff_drop" /\ flight'[v].job = None
    BY <1>3, <1>4, <1>9 DEF f
  <2>2. flight[v].job # None /\ flight'[v].suspended = flight[v].suspended
    BY <1>3, <1>4, <1>9 DEF f
  <2>3. \A k \in Jobs : state'[k] = IF k = flight[v].job THEN "failed" ELSE state[k]
    BY <1>6, <1>9 DEF f
  <2>. QED
    BY <1>1, <1>4, <1>7, <2>1, <2>2, <2>3, ParcelFails
<1>10. CASE ~over
  <2>1. \A w \in Vehicles : Keeps(w)
    BY <1>3, <1>4, <1>10 DEF Keeps, f
  <2>2. state' = state
    BY <1>6, <1>10 DEF IInv, TypeOK, WorkTypes
  <2>. QED
    BY <1>1, <1>4, <1>7, <2>1, <2>2, Quiet DEF Moved
<1>. QED
  BY <1>8, <1>9, <1>10

-----------------------------------------------------------------------------
(* What a vehicle does after a job.                                        *)

\* v has what f has, and is on a task or sets out, which it does without a job.
FlownAs(v, f) ==
    /\ flight' \in [Vehicles -> Flights] /\ \A w \in Vehicles \ {v} : flight'[w] = flight[w]
    /\ flight'[v].job = f.job /\ flight'[v].suspended = f.suspended /\ flight'[v].resume = f.resume
    /\ \/ Part(flight'[v]) = "task"
       \/ Part(flight'[v]) = "incident_response" /\ f.job = None

\* _coop_followup writes the tasks that it is given.
LEMMA FollowUpWrites ==
    ASSUME NEW v, NEW f, NEW new, FollowUp(v, f, new)
    PROVE  \E facts : Write(new, facts)
BY Zenon DEF FollowUp, Fly

\* What it does about i, the first incident that it is to help with or to respond to.
FollowsIt(v, f, new, i) ==
    \/ Fly(v, f, new)
    \/ /\ FollowsUp(v, f) /\ i \in Helps(v)
       /\ flight' = [flight EXCEPT ![v] = f] /\ incident' = incident /\ asked' = asked
       /\ steps' = IF Busy(f) THEN steps ELSE steps \cup {<<i, "start_helper">>}
    \/ /\ FollowsUp(v, f) /\ i \notin Helps(v)
       /\ \/ Put(i, incident[i], v, Depart(f)) /\ requests' = requests
          \/ /\ Put(i, [incident[i] EXCEPT !.choice = "report_only", !.phase = "reported"], v, f)
             /\ requests' = requests
          \/ /\ Put(i, [incident[i] EXCEPT !.choice = None], v, f)
             /\ asked' = asked \cup {<<i, v, "responder">>} /\ steps' = steps

\* What _coop_followup does, apart from flying on.
LEMMA FollowUpCases ==
    ASSUME NEW v, NEW f, NEW new, FollowUp(v, f, new)
    PROVE  \E i : i = Earliest(Helps(v) \cup Owes(v)) /\ FollowsIt(v, f, new, i)
<1>1. FollowsIt(v, f, new, Earliest(Helps(v) \cup Owes(v)))
  BY Zenon DEF FollowUp, FollowsIt
<1>. QED
  BY <1>1, Zenon

\* _coop_followup disturbs no incident and agrees upon nothing.
LEMMA FollowUpKeeps ==
    ASSUME IInv, WaveTypes', state' \in [Jobs -> States], fault' \in {"none", "duplicate", "raised"},
           due = {}, due' = {}, NEW v \in Vehicles, NEW f \in Flights, f.purpose = "task",
           NEW new, FollowUp(v, f, new)
    PROVE  TypeOK' /\ Dealings' /\ FlownAs(v, f) /\ \A o \in Incidents : SameDeal(o)
<1>0. PICK i : i = Earliest(Helps(v) \cup Owes(v)) /\ FollowsIt(v, f, new, i)
  BY FollowUpCases, Zenon
<1> DEFINE r == incident[i]
           told == [r EXCEPT !.choice = "report_only", !.phase = "reported"]
           open == [r EXCEPT !.choice = None]
<1>1. \/ Fly(v, f, new)
      \/ /\ FollowsUp(v, f) /\ i \in Helps(v)
         /\ flight' = [flight EXCEPT ![v] = f] /\ incident' = incident /\ asked' = asked
         /\ steps' = IF Busy(f) THEN steps ELSE steps \cup {<<i, "start_helper">>}
      \/ /\ FollowsUp(v, f) /\ i \notin Helps(v)
         /\ \/ Put(i, r, v, Depart(f)) /\ requests' = requests
            \/ Put(i, told, v, f) /\ requests' = requests
            \/ Put(i, open, v, f) /\ asked' = asked \cup {<<i, v, "responder">>} /\ steps' = steps
  BY <1>0, Zenon DEF FollowsIt, r, told, open
<1>2. WaveOK'
  BY DEF WaveOK
<1>3. FollowsUp(v, f) => f.job = None /\ i \in Helps(v) \cup Owes(v) /\ i \in Incidents
  BY <1>0, EarliestIn DEF FollowsUp, Free, Helps, Owes
<1>4. Part(f) = "task"
  BY DEF Part, Controlled
<1>5. i \in Incidents => r \in Records /\ RecordOK(r) /\ StepsOK(i) /\ AskedOK(i)
  BY DEF IInv, TypeOK, WorkTypes, Dealings, IncidentsOK
<1>6. i \in Owes(v) => r.responder = v /\ r.phase = "noticed" /\ r.choice = "finish_then_respond"
  BY DEF Owes
<1>7. i \in Helps(v) => r.helper = v /\ Open(r)
  BY DEF Helps, Open
<1>. HIDE DEF r
<1>8. i \in Owes(v) /\ i \in Incidents => Settled(r) /\ Live(r) /\ ~Open(r)
  BY <1>5, <1>6 DEF RecordOK, Live, Settled, Open
<1>9. CASE Fly(v, f, new)
  <2>1. /\ flight' \in [Vehicles -> Flights] /\ flight'[v] = f
        /\ \A w \in Vehicles \ {v} : flight'[w] = flight[w]
        /\ incident' = incident /\ asked' = asked /\ steps' = steps
    BY <1>9, FlyEffect DEF IInv
  <2>2. TypeOK'
    BY <2>1 DEF IInv, TypeOK, WorkTypes
  <2>3. DealingsKept({}, {v})
    BY <1>4, <2>1 DEF DealingsKept, AtMostOne, Awaits, MissionOK, Part
  <2>4. Dealings'
    BY <1>2, <2>2, <2>3, DealingsUpdate DEF IInv
  <2>. QED
    BY <1>4, <2>1, <2>2, <2>4 DEF FlownAs, SameDeal
<1>10. CASE /\ FollowsUp(v, f) /\ i \in Helps(v)
            /\ flight' = [flight EXCEPT ![v] = f] /\ incident' = incident /\ asked' = asked
            /\ steps' = IF Busy(f) THEN steps ELSE steps \cup {<<i, "start_helper">>}
  <2>1. /\ flight' \in [Vehicles -> Flights] /\ flight'[v] = f
        /\ \A w \in Vehicles \ {v} : flight'[w] = flight[w]
    BY <1>10 DEF IInv, TypeOK, WorkTypes
  <2>2. TypeOK'
    BY <1>3, <1>10, <2>1 DEF IInv, TypeOK, WorkTypes, Steps
  <2>3. \A o \in Incidents, s \in Steps : Awaits(o, s)' => Awaits(o, s) \/ (o = i /\ s = "start_helper")
    <3>1. steps' \subseteq steps \cup {<<i, "start_helper">>}
      BY <1>10
    <3>2. ASSUME NEW o \in Incidents, NEW s \in Steps, Awaits(o, s)', ~Awaits(o, s)
          PROVE  o = i /\ s = "start_helper"
      BY <3>1, <3>2 DEF Awaits
    <3>. QED
      BY <3>2
  <2>4. RecordOK(incident'[i]) /\ StepsOK(i)' /\ AskedOK(i)'
    <3>1. RecordOK(r) /\ StepsOK(i) /\ AskedOK(i) /\ Open(r) /\ incident'[i] = r
      BY <1>3, <1>5, <1>7, <1>10 DEF r
    <3>2. StepsOK(i)'
      BY <1>3, <1>10, <2>3, <3>1 DEF StepsOK, Steps, r
    <3>3. AskedOK(i)'
      BY <1>3, <1>10, <2>3, <3>1 DEF AskedOK, Steps
    <3>. QED
      BY <3>1, <3>2, <3>3
  <2>5. \A w \in Vehicles \ {v} : ~Fetches(i, w)
    BY <1>7, <1>10 DEF Fetches, r
  <2>6. DealingsKept({i}, {v})
    <3>1. MissionOK(v)'
      BY <1>4, <2>1 DEF MissionOK, Part
    <3>2. \A w \in Vehicles : /\ Engaged(i, w)' => Engaged(i, w)
                              /\ Responds(i, w) => Responds(i, w)'
                              /\ Drops(i, w) => Drops(i, w)'
      BY <1>10 DEF Engaged, Responds, Drops
    <3>3. OthersKept(i)
      BY <1>10, <2>3 DEF OthersKept
    <3>. QED
      BY <2>1, <2>4, <2>5, <3>1, <3>2, <3>3 DEF DealingsKept, OthersKept, AtMostOne
  <2>7. Dealings'
    BY <1>2, <1>3, <1>10, <2>2, <2>6, DealingsUpdate DEF IInv
  <2>. QED
    BY <1>4, <1>10, <2>1, <2>2, <2>7 DEF FlownAs, SameDeal
<1>11. ASSUME FollowsUp(v, f), i \notin Helps(v), NEW s \in Records, NEW g \in Flights,
              s.responder = r.responder, s.handoff = r.handoff,
              s.phase \in {r.phase, "reported"}, s.choice # "request_handoff",
              Put(i, s, v, g), steps' = steps,
              g.job = f.job, g.suspended = f.suspended, g.resume = f.resume,
              \/ Part(g) = "task"
              \/ Part(g) = "incident_response" /\ s.phase = r.phase /\ s.choice # None,
              \/ asked' = asked /\ r.choice # None
              \/ asked' = asked \cup {<<i, v, "responder">>} /\ s.phase = r.phase /\ s.choice = None
       PROVE  TypeOK' /\ Dealings' /\ FlownAs(v, f) /\ \A o \in Incidents : SameDeal(o)
  <2>1. /\ i \in Incidents /\ f.job = None /\ i \in Owes(v) /\ r.responder = v /\ r.phase = "noticed"
        /\ r.choice = "finish_then_respond" /\ Settled(r) /\ Live(r) /\ ~Open(r) /\ r.choice # None
    BY <1>3, <1>6, <1>8, <1>11, NamesAssumption DEF Options
  <2>2. /\ flight' \in [Vehicles -> Flights] /\ flight'[v] = g
        /\ \A w \in Vehicles \ {v} : flight'[w] = flight[w]
        /\ incident' \in [Incidents -> Records] /\ incident'[i] = s
        /\ \A o \in Incidents \ {i} : incident'[o] = incident[o]
    BY <1>11, <2>1, PutEffect DEF IInv
  <2>3. asked' \subseteq asked \cup {<<i, v, "responder">>}
    BY <1>11
  <2>4. TypeOK'
    BY <1>11, <2>1, <2>2, <2>3 DEF IInv, TypeOK, WorkTypes
  <2>5. RecordOK(s)
    BY <1>5, <1>11, <2>1 DEF RecordOK, Settled, Live, Open
  <2>6. Awaits(i, "response_due")' => Awaits(i, "response_due")
    BY <1>11 DEF Awaits
  <2>7. \A x \in {"decide", "select", "start_helper"} : ~Awaits(i, x) /\ ~Awaits(i, x)'
    BY <1>5, <1>11, <2>1 DEF StepsOK, Settled, Open, Awaits, r
  <2>8. StepsOK(i)'
    BY <1>5, <1>11, <2>1, <2>2, <2>6, <2>7 DEF StepsOK
  <2>9. AskedOK(i)'
    <3>1. \A w \in Vehicles : <<i, w, "responder">> \notin asked /\ <<i, w, "helper">> \notin asked
      BY <1>5, <2>1 DEF AskedOK, Settled, r
    <3>2. \A w \in Vehicles : <<i, w, "helper">> \notin asked'
      BY <2>3, <3>1
    <3>3. ASSUME NEW w \in Vehicles, <<i, w, "responder">> \in asked'
          PROVE  w = v /\ s.phase = r.phase /\ s.choice = None
      <4>1. asked' # asked
        BY <3>1, <3>3
      <4>2. s.phase = r.phase /\ s.choice = None
        BY <1>11, <4>1
      <4>. QED
        BY <2>3, <3>1, <3>3, <4>2
    <3>4. Settled(s)
      BY <1>11, <2>1 DEF Settled
    <3>. QED
      BY <1>11, <2>1, <2>2, <2>7, <3>2, <3>3, <3>4 DEF AskedOK, Live
  <2>10. \A w \in Vehicles : Engaged(i, w)' => Engaged(i, w)
    BY <1>11, <2>1, <2>2 DEF Engaged, Settled, Final, r
  <2>11. ~Open(s) /\ \A w \in Vehicles \ {v} : ~Responds(i, w) /\ ~Drops(i, w) /\ ~Fetches(i, w)
    BY <1>11, <2>1 DEF Responds, Drops, Fetches, Open, r
  <2>12. MissionOK(v)'
    <3>1. Part(g) = "incident_response" => Responds(i, v)'
      BY <1>11, <2>1, <2>2 DEF Responds, Live, Settled
    <3>. QED
      BY <1>11, <2>1, <2>2, <3>1 DEF MissionOK, Part
  <2>13. OthersKept(i)
    BY <1>11, <2>2 DEF OthersKept, Awaits
  <2>14. DealingsKept({i}, {v})
    BY <2>2, <2>5, <2>8, <2>9, <2>10, <2>11, <2>12, <2>13 DEF DealingsKept, OthersKept, AtMostOne
  <2>15. Dealings'
    BY <1>2, <2>1, <2>4, <2>14, DealingsUpdate DEF IInv
  <2>16. \A o \in Incidents : SameDeal(o)
    BY <2>1, <2>2, <2>11 DEF SameDeal, r
  <2>. QED
    BY <1>11, <2>1, <2>2, <2>4, <2>15, <2>16 DEF FlownAs
<1>12. CASE FollowsUp(v, f) /\ i \notin Helps(v)
  <2>1. i \in Incidents /\ r \in Records /\ f.job = None /\ r.choice = "finish_then_respond"
    BY <1>3, <1>5, <1>6, <1>12
  <2>2. ASSUME Put(i, r, v, Depart(f)), requests' = requests
        PROVE  TypeOK' /\ Dealings' /\ FlownAs(v, f) /\ \A o \in Incidents : SameDeal(o)
    <3>1. /\ Depart(f) \in Flights /\ Depart(f).job = f.job /\ Depart(f).suspended = f.suspended
          /\ Depart(f).resume = f.resume /\ Part(Depart(f)) = "incident_response"
      BY <2>1, DepartEffect DEF IInv
    <3>2. steps' = steps /\ asked' = asked
      BY <2>2 DEF requests
    <3>3. r.choice # "request_handoff" /\ r.choice # None
      BY <2>1, NamesAssumption DEF Options
    <3>. QED
      BY <1>11, <1>12, <2>1, <2>2, <3>1, <3>2, <3>3
  <2>3. ASSUME Put(i, told, v, f), requests' = requests
        PROVE  TypeOK' /\ Dealings' /\ FlownAs(v, f) /\ \A o \in Incidents : SameDeal(o)
    <3>1. /\ told \in Records /\ told.responder = r.responder /\ told.handoff = r.handoff
          /\ told.choice = "report_only" /\ told.phase = "reported"
      <4>1. "report_only" \in Options /\ "reported" \in {"reported", "decision_failed"}
        BY DEF Options
      <4>. QED
        BY <2>1, <4>1 DEF Records
    <3>. HIDE DEF told
    <3>2. steps' = steps /\ asked' = asked
      BY <2>3 DEF requests
    <3>3. r.choice # None
      BY <2>1, NamesAssumption DEF Options
    <3>. QED
      BY <1>4, <1>11, <1>12, <2>1, <2>3, <3>1, <3>2, <3>3
  <2>4. ASSUME Put(i, open, v, f), asked' = asked \cup {<<i, v, "responder">>}, steps' = steps
        PROVE  TypeOK' /\ Dealings' /\ FlownAs(v, f) /\ \A o \in Incidents : SameDeal(o)
    <3>1. /\ open \in Records /\ open.responder = r.responder /\ open.handoff = r.handoff
          /\ open.choice = None /\ open.phase = r.phase
      BY <2>1, ChoiceRecord
    <3>. HIDE DEF open
    <3>2. open.choice # "request_handoff"
      BY <3>1, NamesAssumption DEF Options
    <3>. QED
      BY <1>4, <1>11, <1>12, <2>1, <2>4, <3>1, <3>2
  <2>. HIDE DEF told, open
  <2>. QED
    BY <1>1, <1>3, <1>9, <1>10, <1>12, <2>2, <2>3, <2>4, Zenon
<1>. HIDE DEF told, open
<1>. QED
  BY <1>1, <1>9, <1>10, <1>12, Zenon

\* The turns of _coop_tick in which a free vehicle follows something up.
LEMMA FollowUpTurnStep ==
    ASSUME IInv, NEW k \in DOMAIN Fleet, FollowUpTurn(k)
    PROVE  IInv' /\ Moved
<1> DEFINE v == Fleet[k]
           f == flight[v]
<1>1. /\ Turn(k) /\ turn' = k + 1 /\ FollowsUp(v, f) /\ FollowUp(v, f, Nothing)
      /\ resumed' = resumed
  BY Zenon DEF FollowUpTurn, v, f
<1>2. v \in Vehicles /\ f \in Flights /\ k + 1 \in Nat
  BY Turns DEF IInv, TypeOK, WorkTypes
<1>. HIDE DEF v, f
<1>3. /\ policy' = policy /\ due' = due /\ stage' = stage /\ trouble' = trouble
      /\ due = {} /\ due' = {}
  BY <1>1, TurnEffect
<1>4. WaveTypes'
  BY <1>1, <1>2, <1>3 DEF IInv, TypeOK, WaveTypes
<1>5. PICK facts : Write(Nothing, facts)
  BY <1>1, FollowUpWrites, Zenon
<1>6. /\ state' \in [Jobs -> States] /\ fault' \in {"none", "duplicate", "raised"}
      /\ \A j \in Jobs : state'[j] = state[j]
  BY <1>5, WriteNothing DEF IInv
<1>7. f.purpose = "task" /\ f.job = None
  BY <1>1 DEF FollowsUp, Free
<1>8. TypeOK' /\ Dealings' /\ FlownAs(v, f) /\ \A o \in Incidents : SameDeal(o)
  BY <1>1, <1>2, <1>3, <1>4, <1>6, <1>7, FollowUpKeeps
<1>9. FlightOK(f)
  BY <1>2 DEF IInv, CustodyOK, FlightsOK, f
<1>10. FlightOK(flight[v])'
  BY <1>2, <1>6, <1>7, <1>8, <1>9 DEF FlightOK, FlownAs, Flights, Part
<1>11. \A w \in Vehicles, j \in Jobs : Has(w, j)' <=> Has(w, j)
  BY <1>2, <1>8 DEF Has, FlownAs, f
<1>12. Part(flight[v]) = "task" /\ Part(flight'[v]) # "handoff_drop"
  BY <1>7, <1>8 DEF FlownAs, Part, Controlled, f
<1>13. \A w \in Vehicles \ {v} : Keeps(w)
  BY <1>8 DEF FlownAs, Keeps
<1>14. JobsOf(v)
  BY <1>2, <1>6, <1>11 DEF JobsOf
<1>15. CustodyOK'
  BY <1>2, <1>8, <1>10, <1>12, <1>13, <1>14, OwnJobs
<1>16. \A j \in Jobs : Stays(j)
  BY <1>6, <1>8, <1>11 DEF Stays, SameDeal, Deal, Open
<1>. QED
  BY <1>8, <1>15, <1>16 DEF IInv, Moved

\* v is planned again, or goes on: it keeps what it has.
LEMMA FlyOn ==
    ASSUME IInv, WaveTypes', due' \subseteq due, stage' = "poll" => due' = {},
           NEW v \in Vehicles, NEW g \in Flights,
           g.job = flight[v].job, g.suspended = flight[v].suspended,
           g.resume = flight[v].resume, Part(g) = Part(flight[v]), Fly(v, g, Nothing)
    PROVE  IInv' /\ Moved
<1>1. /\ flight' \in [Vehicles -> Flights] /\ flight'[v] = g
      /\ \A w \in Vehicles \ {v} : flight'[w] = flight[w]
      /\ Write(Nothing, {}) /\ incident' = incident /\ asked' = asked /\ steps' = steps
  BY FlyEffect DEF IInv
<1>2. /\ state' \in [Jobs -> States] /\ fault' \in {"none", "duplicate", "raised"}
      /\ \A j \in Jobs : state'[j] = state[j]
  BY <1>1, WriteNothing DEF IInv
<1>3. TypeOK' /\ WaveOK' /\ state' = state
  BY <1>1, <1>2 DEF IInv, TypeOK, WorkTypes, Dealings, WaveOK
<1>4. \A w \in Vehicles : Keeps(w)
  BY <1>1 DEF Keeps
<1>. QED
  BY <1>1, <1>3, <1>4, Quiet DEF Moved

\* A vehicle goes on.
LEMMA MoveStep ==
    ASSUME IInv, WaveTypes', due' \subseteq due, stage' = "poll" => due' = {},
           NEW v \in Vehicles, Move(v)
    PROVE  IInv' /\ Moved
<1> DEFINE f == flight[v]
           g == [f EXCEPT !.leg = "moving"]
<1>1. Fly(v, g, Nothing)
  BY Zenon DEF Move, f, g
<1>2. f \in Flights
  BY DEF IInv, TypeOK, WorkTypes
<1>. HIDE DEF f
<1>3. /\ g \in Flights /\ g.job = f.job /\ g.suspended = f.suspended /\ g.resume = f.resume
      /\ g.purpose = f.purpose /\ g.back = f.back
  BY <1>2 DEF Flights
<1>. HIDE DEF g
<1>4. Part(g) = Part(f)
  BY <1>3 DEF Part
<1>. QED
  BY <1>1, <1>3, <1>4, FlyOn DEF f

\* A job goes on.
LEMMA TaskGoesOn ==
    ASSUME IInv, WaveTypes', due = {}, due' = {}, NEW v \in Vehicles, NEW s \in Active,
           NEW g \in Flights, g.job = flight[v].job, g.suspended = flight[v].suspended,
           g.resume = flight[v].resume, g.purpose = "task", flight[v].purpose = "task",
           flight[v].job # None, Fly(v, g, To(flight[v].job, s))
    PROVE  IInv' /\ Moved
<1> DEFINE f == flight[v]
<1>1. /\ flight' \in [Vehicles -> Flights] /\ flight'[v] = g
      /\ \A w \in Vehicles \ {v} : flight'[w] = flight[w]
      /\ Write(To(f.job, s), {}) /\ incident' = incident /\ asked' = asked /\ steps' = steps
  BY FlyEffect DEF IInv
<1>2. f \in Flights /\ FlightOK(f)
  BY DEF IInv, TypeOK, WorkTypes, CustodyOK, FlightsOK
<1>. HIDE DEF f
<1>3. /\ state' \in [Jobs -> States] /\ fault' \in {"none", "duplicate", "raised"}
      /\ \A j \in Jobs : state'[j] = IF j = f.job THEN s ELSE state[j]
  BY <1>1, WriteTo DEF IInv, States, Active
<1>4. TypeOK' /\ WaveOK'
  BY <1>1, <1>3 DEF IInv, TypeOK, WorkTypes, Dealings, WaveOK
<1>5. state[f.job] \in Active /\ f.job \in Jobs /\ f.suspended # f.job
  BY <1>2 DEF FlightOK, Flights, Active, f
<1>6. FlightOK(flight[v])'
  <2>1. f.suspended # None => state'[f.suspended] = "paused" /\ f.resume \in Active
    BY <1>2, <1>3, <1>5 DEF FlightOK, Flights
  <2>2. state'[f.job] \in Active
    BY <1>3, <1>5
  <2>. QED
    BY <1>1, <2>1, <2>2 DEF FlightOK, Part, Controlled, f
<1>7. \A w \in Vehicles, j \in Jobs : Has(w, j)' <=> Has(w, j)
  BY <1>1 DEF Has
<1>8. JobsOf(v)
  BY <1>3, <1>7 DEF JobsOf, Has, f
<1>9. MissionOK(v)'
  BY <1>1 DEF MissionOK, Part, Controlled
<1>10. Part(flight[v]) = "task" /\ Part(flight'[v]) = "task"
  BY <1>1 DEF Part, Controlled
<1>11. IInv'
  BY <1>1, <1>4, <1>6, <1>8, <1>9, <1>10, FlightStep
<1>12. \A j \in Jobs : Stays(j)
  BY <1>1, <1>3, <1>5, <1>7 DEF Stays, Active, Deal
<1>. QED
  BY <1>11, <1>12 DEF Moved

\* A job is completed, and a suspended one is taken up again.
LEMMA TaskEnds ==
    ASSUME IInv, WaveTypes', due = {}, due' = {}, NEW v \in Vehicles, NEW f, f = flight[v],
           f.purpose = "task", f.job # None,
           NEW g \in Flights, g.job = f.suspended, g.suspended = None, g.resume = None,
           g.purpose = "task",
           FollowUp(v, g, IF f.suspended = None THEN To(f.job, "completed")
                          ELSE Both(f.job, "completed", f.suspended, f.resume))
    PROVE  IInv' /\ Moved
<1>1. f \in Flights /\ FlightOK(f)
  BY DEF IInv, TypeOK, WorkTypes, CustodyOK, FlightsOK
<1>2. /\ state[f.job] \in Active /\ f.job \in Jobs /\ f.suspended # f.job
      /\ f.suspended \in Jobs \cup {None}
      /\ f.suspended # None => state[f.suspended] = "paused" /\ f.resume \in Active
  BY <1>1 DEF FlightOK, Flights, Active
<1>3. PICK facts : Write(IF f.suspended = None THEN To(f.job, "completed")
                         ELSE Both(f.job, "completed", f.suspended, f.resume), facts)
  BY FollowUpWrites, Zenon
<1>4. /\ state' \in [Jobs -> States] /\ fault' \in {"none", "duplicate", "raised"}
      /\ \A j \in Jobs : state'[j] = IF j = f.job THEN "completed"
                                     ELSE IF j = f.suspended THEN f.resume ELSE state[j]
  <2>1. CASE f.suspended = None
    <3>1. Write(To(f.job, "completed"), facts)
      BY <1>3, <2>1
    <3>. QED
      BY <1>2, <2>1, <3>1, WriteTo, NamesAssumption DEF IInv, States
  <2>2. CASE f.suspended # None
    <3>1. Write(Both(f.job, "completed", f.suspended, f.resume), facts)
      BY <1>3, <2>2
    <3>2. f.suspended \in Jobs /\ "completed" \in States /\ f.resume \in States /\ TypeOK
      BY <1>2, <2>2 DEF States, Active, IInv
    <3>. QED
      BY <1>2, <3>1, <3>2, WriteBoth
  <2>. QED
    BY <2>1, <2>2
<1>5. TypeOK' /\ Dealings' /\ FlownAs(v, g) /\ \A o \in Incidents : SameDeal(o)
  BY <1>4, FollowUpKeeps
<1>6. /\ flight'[v].job = f.suspended /\ flight'[v].suspended = None
      /\ \A w \in Vehicles \ {v} : flight'[w] = flight[w]
      /\ Part(flight'[v]) # "handoff_drop"
      /\ Part(flight'[v]) = "task" \/ (Part(flight'[v]) = "incident_response" /\ f.suspended = None)
  BY <1>5 DEF FlownAs
<1>7. FlightOK(flight[v])'
  <2>1. f.suspended # None => state'[f.suspended] \in Active
    BY <1>2, <1>4
  <2>. QED
    BY <1>6, <2>1 DEF FlightOK, Part
<1>8. \A j \in Jobs : Has(v, j)' <=> (Has(v, j) /\ j # f.job)
  BY <1>2, <1>6, NamesAssumption DEF Has
<1>9. JobsOf(v)
  <2>1. Has(v, f.job) /\ state'[f.job] \in Loose
    BY <1>2, <1>4 DEF Has, Loose
  <2>2. f.suspended # None => Has(v, f.suspended) /\ Has(v, f.suspended)'
    BY <1>6 DEF Has
  <2>3. \A j \in Jobs \ {f.job, f.suspended} : state'[j] = state[j] /\ (Has(v, j)' <=> Has(v, j))
    BY <1>4, <1>8
  <2>. QED
    BY <1>2, <2>1, <2>2, <2>3, NamesAssumption DEF JobsOf
<1>10. Part(flight[v]) = "task"
  BY DEF Part, Controlled
<1>11. \A w \in Vehicles \ {v} : Keeps(w)
  BY <1>6 DEF Keeps
<1>12. CustodyOK'
  BY <1>5, <1>6, <1>7, <1>9, <1>10, <1>11, OwnJobs
<1>13. \A j \in Jobs \ {f.job} : Stays(j)
  <2>1. \A w \in Vehicles, j \in Jobs \ {f.job} : Has(w, j)' <=> Has(w, j)
    BY <1>6, <1>8 DEF Has
  <2>2. \A i \in Incidents, j \in Jobs : (Deal(i, j)' <=> Deal(i, j))
                                        /\ (Deal(i, j) => incident'[i].helper = incident[i].helper)
    BY <1>5 DEF SameDeal, Deal, Open
  <2>. QED
    BY <1>2, <1>4, <2>1, <2>2, NamesAssumption DEF Stays, Active
<1>14. Ends(f.job)
  <2>1. Has(v, f.job)
    BY DEF Has
  <2>2. \A i \in Incidents : ~Deal(i, f.job)
    BY <1>2, <1>10, <2>1 DEF IInv, CustodyOK, DealsOK, DealOK
  <2>3. DealsSame(f.job)
    BY <1>2, <1>5 DEF SameDeal, Deal, Open, DealsSame
  <2>. QED
    BY <1>2, <1>4, <2>1, <2>2, <2>3 DEF Ends
<1>. QED
  BY <1>2, <1>5, <1>12, <1>13, <1>14 DEF IInv, Moved

\* The loop of _poll, for a flight with a job of its own.
LEMMA TaskFlightStep ==
    ASSUME IInv, WaveTypes', due = {}, due' = {}, NEW v \in Vehicles,
           flight[v].purpose = "task", flight[v].job # None, TaskFlight(v)
    PROVE  IInv' /\ Moved
<1>0. PICK f \in Flights : f = flight[v]
  BY DEF IInv, TypeOK, WorkTypes
<1> DEFINE rest == [f EXCEPT !.job = f.suspended, !.suspended = None, !.resume = None, !.leg = "idle"]
           on(l) == [f EXCEPT !.leg = l]
<1>1. \/ \E l \in {"idle", "moving"} : Fly(v, on(l), To(f.job, "started"))
      \/ \E l \in {"idle", "moving"} : Fly(v, on(l), To(f.job, "picked_up"))
      \/ FollowUp(v, rest, IF f.suspended = None THEN To(f.job, "completed")
                           ELSE Both(f.job, "completed", f.suspended, f.resume))
      \/ Move(v)
  BY <1>0, Zenon DEF TaskFlight
<1>2. \A l \in {"idle", "moving"} :
         /\ on(l) \in Flights /\ on(l).job = f.job /\ on(l).suspended = f.suspended
         /\ on(l).resume = f.resume /\ on(l).purpose = f.purpose
  BY DEF Flights
<1>3. /\ rest \in Flights /\ rest.job = f.suspended /\ rest.suspended = None /\ rest.resume = None
      /\ rest.purpose = f.purpose
  BY DEF Flights
<1>. HIDE DEF rest, on
<1>4. ASSUME NEW l \in {"idle", "moving"}, NEW s \in {"started", "picked_up"},
             Fly(v, on(l), To(f.job, s))
      PROVE  IInv' /\ Moved
  BY <1>0, <1>2, <1>4, TaskGoesOn DEF Active
<1>5. CASE FollowUp(v, rest, IF f.suspended = None THEN To(f.job, "completed")
                             ELSE Both(f.job, "completed", f.suspended, f.resume))
  BY <1>0, <1>3, <1>5, TaskEnds
<1>6. CASE Move(v)
  BY <1>6, MoveStep
<1>. QED
  BY <1>1, <1>4, <1>5, <1>6

-----------------------------------------------------------------------------
(* Flights about an incident.                                              *)

\* v responds to i, and goes on with that, or is done and takes its own job up again.
LEMMA AtIncident ==
    ASSUME IInv, TypeOK', WaveOK', NEW v \in Vehicles, NEW i \in Incidents, Responds(i, v),
           NEW f, f = flight[v], Part(f) = "incident_response", NEW r, r = incident[i],
           NEW s \in Records, s.responder = r.responder, s.choice = r.choice, s.handoff = r.handoff,
           s.job = r.job, s.helper = r.helper, s.point = r.point, s.offers = r.offers,
           NEW g \in Flights, Put(i, s, v, g), asked' = asked,
           \A o \in Incidents, x \in Steps : Awaits(o, x)' =>
               Awaits(o, x) \/ (o = i /\ x = "response_due"),
           \/ /\ Live(s) /\ g.job = f.job /\ g.suspended = f.suspended /\ g.resume = f.resume
              /\ Part(g) = Part(f) /\ \A j \in Jobs : state'[j] = state[j]
           \/ /\ s.phase = "photographed" /\ g.job = f.suspended /\ g.suspended = None
              /\ Part(g) = "task"
              /\ \A j \in Jobs : state'[j] = IF j = f.suspended THEN f.resume ELSE state[j]
    PROVE  IInv' /\ Moved
<1>1. /\ f \in Flights /\ FlightOK(f) /\ r \in Records
      /\ RecordOK(r) /\ StepsOK(i) /\ AskedOK(i)
  BY DEF IInv, TypeOK, WorkTypes, CustodyOK, FlightsOK, Dealings, IncidentsOK
<1>2. /\ flight' \in [Vehicles -> Flights] /\ flight'[v] = g
      /\ \A w \in Vehicles \ {v} : flight'[w] = flight[w]
      /\ incident' \in [Incidents -> Records] /\ incident'[i] = s
      /\ \A o \in Incidents \ {i} : incident'[o] = incident[o]
  BY PutEffect DEF IInv
<1>3. /\ r.responder = v /\ Live(r) /\ r.choice # None /\ r.handoff # "requested"
      /\ s.phase \notin {"pending", "occurred"}
  BY DEF Responds, Live
<1>4. f.job = None /\ f.suspended \in Jobs \cup {None}
      /\ (f.suspended # None => state[f.suspended] = "paused" /\ f.resume \in Active)
  BY <1>1 DEF FlightOK, Flights
<1>5. RecordOK(s)
  BY <1>1, <1>3 DEF RecordOK, Settled, Open
<1>6. StepsOK(i)'
  BY <1>1, <1>2, <1>3 DEF StepsOK, Open, Steps
<1>7. AskedOK(i)'
  BY <1>1, <1>2, <1>3 DEF AskedOK
<1>8. \A w \in Vehicles : Engaged(i, w)' => Engaged(i, w)
  BY <1>2, <1>3 DEF Engaged, Live, Final
<1>10. MissionOK(v)'
  <2>1. Live(s) => Responds(i, v)'
    BY <1>2, <1>3 DEF Responds, Live
  <2>. QED
    BY <1>2, <2>1 DEF MissionOK, Part
<1>11. OthersKept(i)
  BY <1>2 DEF OthersKept
<1>12. DealingsKept({i}, {v})
  <2>1. ASSUME NEW w \in Vehicles \ {v}
        PROVE  /\ Responds(i, w) => Responds(i, w)'
               /\ Drops(i, w) => Drops(i, w)'
               /\ Fetches(i, w) => Fetches(i, w)'
    <3>1. ~Responds(i, w) /\ ~Drops(i, w)
      BY <1>3 DEF Responds, Drops
    <3>2. Fetches(i, w) => Fetches(i, w)'
      BY <1>2, <1>3 DEF Fetches, Open, Steps
    <3>. QED
      BY <3>1, <3>2
  <2>2. \A w \in Vehicles \ {v} : Part(flight'[w]) = Part(flight[w])
    BY <1>2
  <2>3. RecordOK(incident'[i])
    BY <1>2, <1>5
  <2>. QED
    BY <1>6, <1>7, <1>8, <1>10, <1>11, <2>1, <2>2, <2>3 DEF DealingsKept, OthersKept, AtMostOne
<1>13. Dealings'
  BY <1>12, DealingsUpdate DEF IInv
<1>14. \A o \in Incidents : SameDeal(o)
  BY <1>2, <1>3 DEF SameDeal
<1>15. \A w \in Vehicles, j \in Jobs : Has(w, j)' <=> Has(w, j)
  BY <1>2, <1>4, NamesAssumption DEF Has
<1>16. \A j \in Jobs : state'[j] = state[j] \/ (j = f.suspended /\ state'[j] \in Active)
  BY <1>4, NamesAssumption
<1>17. JobsOf(v)
  BY <1>15, <1>16 DEF JobsOf, Has
<1>18. FlightOK(flight[v])'
  BY <1>1, <1>2, <1>4 DEF FlightOK, Part
<1>19. \A w \in Vehicles \ {v} : Keeps(w)
  BY <1>2 DEF Keeps
<1>20. Part(flight'[v]) # "handoff_drop"
  BY <1>2
<1>21. CustodyOK'
  BY <1>14, <1>17, <1>18, <1>19, <1>20, OwnJobs
<1>22. \A j \in Jobs : Stays(j)
  <2>1. \A o \in Incidents, j \in Jobs : (Deal(o, j)' <=> Deal(o, j))
                                        /\ (Deal(o, j) => incident'[o].helper = incident[o].helper)
    BY <1>14 DEF SameDeal, Deal, Open
  <2>. QED
    BY <1>4, <1>15, <1>16, <2>1, NamesAssumption DEF Stays, Active
<1>. QED
  BY <1>13, <1>21, <1>22 DEF IInv, Moved

\* What v does about i, with f and r as flight and incident.
RespondsTo(v, i, f, r) ==
    /\ asked' = asked
    /\ \/ /\ Put(i, [r EXCEPT !.dwell = "none"], v, [f EXCEPT !.leg = "moving"])
          /\ Write(Nothing, {}) /\ steps' = steps
       \/ /\ \E d \in {"over", "late", "wait"} :
                 Put(i, [r EXCEPT !.phase = "responding", !.dwell = d], v, f)
          /\ Write(Nothing, {<<"incident", i>>})
          /\ steps' = (steps \cup {<<i, "response_due">>}) \ due'
       \/ /\ Put(i, [r EXCEPT !.phase = "photographed"], v,
                 IF f.suspended = None THEN [f EXCEPT !.purpose = "task", !.leg = "idle"]
                 ELSE [[f EXCEPT !.purpose = "task", !.leg = "idle"]
                           EXCEPT !.job = f.suspended, !.suspended = None, !.resume = None])
          /\ Write(IF f.suspended = None THEN Nothing ELSE To(f.suspended, f.resume),
                   {<<"incident", i>>})
          /\ steps' = steps
       \/ UNCHANGED <<work, steps, written, resumed, fault>>

\* The four cases of Respond.
LEMMA RespondCases ==
    ASSUME NEW v, NEW i, Respond(v, i)
    PROVE  RespondsTo(v, i, flight[v], incident[i])
<1> DEFINE f == flight[v]
           r == incident[i]
           d == IF ~policy.hover THEN "over"
                ELSE IF <<i, "response_due">> \in steps \cup due' THEN "late" ELSE "wait"
           given == Put(i, [r EXCEPT !.phase = "responding", !.dwell = d], v, f)
           some == \E x \in {"over", "late", "wait"} :
                       Put(i, [r EXCEPT !.phase = "responding", !.dwell = x], v, f)
<1>1. given => some
  <2>1. d \in {"over", "late", "wait"}
    OBVIOUS
  <2>. HIDE DEF d
  <2>. QED
    BY <2>1, Zenon
<1>. HIDE DEF some
<1>. QED
  BY <1>1, Zenon DEF Respond, RespondsTo, some

\* A vehicle at an incident, or on its way there.
LEMMA RespondStep ==
    ASSUME IInv, WaveTypes', due' \subseteq due, stage' = "poll" => due' = {},
           NEW v \in Vehicles, NEW i \in Incidents, Responds(i, v),
           flight[v].purpose = "incident_response", Respond(v, i)
    PROVE  IInv' /\ Moved
<1>0. PICK f \in Flights, r \in Records : f = flight[v] /\ r = incident[i]
  BY DEF IInv, TypeOK, WorkTypes
<1> DEFINE goes == [f EXCEPT !.leg = "moving"]
           home == [f EXCEPT !.purpose = "task", !.leg = "idle"]
           back == [home EXCEPT !.job = f.suspended, !.suspended = None, !.resume = None]
           before == [r EXCEPT !.dwell = "none"]
           during(d) == [r EXCEPT !.phase = "responding", !.dwell = d]
           after == [r EXCEPT !.phase = "photographed"]
           like(s) == /\ s \in Records /\ s.responder = r.responder /\ s.choice = r.choice
                      /\ s.handoff = r.handoff /\ s.job = r.job /\ s.helper = r.helper
                      /\ s.point = r.point /\ s.offers = r.offers
<1>1. RespondsTo(v, i, f, r)
  BY <1>0, RespondCases, Zenon
<1>2. Part(f) = "incident_response" /\ f.job = None
      /\ (f.suspended # None => f.suspended \in Jobs /\ f.resume \in States)
  BY <1>0 DEF IInv, CustodyOK, FlightsOK, FlightOK, Part, Controlled, Flights, Active, States
<1>3. /\ goes \in Flights /\ goes.job = f.job /\ goes.suspended = f.suspended
      /\ goes.resume = f.resume /\ goes.purpose = f.purpose
  BY DEF Flights
<1>4. /\ home \in Flights /\ home.job = None /\ home.suspended = f.suspended
      /\ home.purpose = "task"
  BY <1>2 DEF Flights
<1>5. back \in Flights /\ back.job = f.suspended /\ back.suspended = None /\ back.purpose = "task"
  BY DEF Flights
<1>6. like(before) /\ before.phase = r.phase
  BY DEF Records
<1>7. \A d \in {"over", "late", "wait"} : like(during(d)) /\ during(d).phase = "responding"
  BY DEF Records
<1>8. like(after) /\ after.phase = "photographed"
  BY DEF Records
<1>9. Live(r)
  BY <1>0 DEF Responds
<1>. HIDE DEF goes, home, back, before, during, after
<1>10. ASSUME NEW s, like(s), NEW g \in Flights, Put(i, s, v, g), asked' = asked,
              \/ steps' = steps \/ steps' = (steps \cup {<<i, "response_due">>}) \ due',
              state' \in [Jobs -> States], fault' \in {"none", "duplicate", "raised"}
       PROVE  /\ TypeOK' /\ WaveOK'
              /\ \A o \in Incidents, x \in Steps : Awaits(o, x)' =>
                     Awaits(o, x) \/ (o = i /\ x = "response_due")
  <2>1. /\ flight' \in [Vehicles -> Flights] /\ incident' \in [Incidents -> Records]
    BY <1>10, PutEffect DEF IInv
  <2>2. steps' \subseteq steps \cup {<<i, "response_due">>} /\ steps' \subseteq Incidents \X Steps
    BY <1>10 DEF IInv, TypeOK, WorkTypes, Steps
  <2>3. TypeOK'
    BY <1>10, <2>1, <2>2 DEF IInv, TypeOK, WorkTypes
  <2>4. WaveOK'
    BY <1>10 DEF IInv, Dealings, WaveOK
  <2>5. ASSUME NEW o \in Incidents, NEW x \in Steps, Awaits(o, x)'
        PROVE  Awaits(o, x) \/ (o = i /\ x = "response_due")
    BY <2>2, <2>5 DEF Awaits
  <2>. QED
    BY <2>3, <2>4, <2>5
<1>11. ASSUME NEW s, like(s), Live(s), NEW g \in Flights, g.job = f.job, g.suspended = f.suspended,
              g.resume = f.resume, Part(g) = Part(f), NEW facts, Write(Nothing, facts),
              Put(i, s, v, g), asked' = asked,
              \/ steps' = steps \/ steps' = (steps \cup {<<i, "response_due">>}) \ due'
       PROVE  IInv' /\ Moved
  <2>1. /\ state' \in [Jobs -> States] /\ fault' \in {"none", "duplicate", "raised"}
        /\ \A j \in Jobs : state'[j] = state[j]
    BY <1>11, WriteNothing DEF IInv
  <2>2. /\ TypeOK' /\ WaveOK'
        /\ \A o \in Incidents, x \in Steps : Awaits(o, x)' =>
               Awaits(o, x) \/ (o = i /\ x = "response_due")
    BY <1>10, <1>11, <2>1
  <2>. QED
    BY <1>0, <1>2, <1>11, <2>1, <2>2, AtIncident
<1>12. ASSUME NEW g \in Flights, g.job = f.suspended, g.suspended = None, Part(g) = "task",
              Put(i, after, v, g), asked' = asked, steps' = steps, NEW facts,
              Write(IF f.suspended = None THEN Nothing ELSE To(f.suspended, f.resume), facts)
       PROVE  IInv' /\ Moved
  <2>1. /\ state' \in [Jobs -> States] /\ fault' \in {"none", "duplicate", "raised"}
        /\ \A j \in Jobs : state'[j] = IF j = f.suspended THEN f.resume ELSE state[j]
    <3>1. CASE f.suspended = None
      BY <1>12, <3>1, WriteNothing, NamesAssumption DEF IInv
    <3>2. CASE f.suspended # None
      BY <1>2, <1>12, <3>2, WriteTo DEF IInv
    <3>. QED
      BY <3>1, <3>2
  <2>2. /\ TypeOK' /\ WaveOK'
        /\ \A o \in Incidents, x \in Steps : Awaits(o, x)' =>
               Awaits(o, x) \/ (o = i /\ x = "response_due")
    BY <1>8, <1>10, <1>12, <2>1
  <2>. QED
    BY <1>0, <1>2, <1>8, <1>12, <2>1, <2>2, AtIncident
<1>13. CASE UNCHANGED <<work, steps, written, resumed, fault>>
  <2>1. /\ incident' = incident /\ flight' = flight /\ state' = state /\ steps' = steps
        /\ asked' = asked /\ fault' = fault
    BY <1>1, <1>13 DEF work, RespondsTo
  <2>2. TypeOK' /\ WaveOK'
    BY <2>1 DEF IInv, TypeOK, WorkTypes, Dealings, WaveOK
  <2>3. \A w \in Vehicles : Keeps(w)
    BY <2>1 DEF Keeps
  <2>. QED
    BY <2>1, <2>2, <2>3, Quiet DEF Moved
<1>14. /\ asked' = asked
       /\ \/ Put(i, before, v, goes) /\ Write(Nothing, {}) /\ steps' = steps
          \/ /\ \E d \in {"over", "late", "wait"} : Put(i, during(d), v, f)
             /\ Write(Nothing, {<<"incident", i>>})
             /\ steps' = (steps \cup {<<i, "response_due">>}) \ due'
          \/ /\ Put(i, after, v, IF f.suspended = None THEN home ELSE back)
             /\ Write(IF f.suspended = None THEN Nothing ELSE To(f.suspended, f.resume),
                      {<<"incident", i>>})
             /\ steps' = steps
          \/ UNCHANGED <<work, steps, written, resumed, fault>>
  BY <1>1, Zenon DEF RespondsTo, before, goes, during, after, home, back
<1>15. Part(home) = "task" /\ Part(back) = "task" /\ Part(goes) = Part(f)
  BY <1>0, <1>2, <1>3, <1>4, <1>5 DEF Part, Controlled
<1>16. CASE Put(i, before, v, goes) /\ Write(Nothing, {}) /\ steps' = steps
  <2>1. Live(before)
    BY <1>6, <1>9 DEF Live
  <2>. QED
    BY <1>3, <1>6, <1>11, <1>14, <1>15, <1>16, <2>1
<1>17. ASSUME NEW d \in {"over", "late", "wait"}, Put(i, during(d), v, f),
              Write(Nothing, {<<"incident", i>>}),
              steps' = (steps \cup {<<i, "response_due">>}) \ due'
       PROVE  IInv' /\ Moved
  <2>1. Live(during(d)) /\ like(during(d))
    BY <1>7 DEF Live
  <2>. QED
    BY <1>11, <1>14, <1>17, <2>1
<1>18. CASE /\ Put(i, after, v, IF f.suspended = None THEN home ELSE back)
            /\ Write(IF f.suspended = None THEN Nothing ELSE To(f.suspended, f.resume),
                     {<<"incident", i>>})
            /\ steps' = steps
  <2>1. CASE f.suspended = None
    BY <1>4, <1>12, <1>14, <1>15, <1>18, <2>1
  <2>2. CASE f.suspended # None
    BY <1>5, <1>12, <1>14, <1>15, <1>18, <2>2
  <2>. QED
    BY <2>1, <2>2
<1>. QED
  BY <1>13, <1>14, <1>16, <1>17, <1>18

\* v leaves its parcel at the point.
LEMMA ParcelLeft ==
    ASSUME IInv, TypeOK', WaveOK', NEW v \in Vehicles, NEW i \in Incidents,
           NEW f, f = flight[v], Part(f) = "handoff_drop", NEW r, r = incident[i],
           Open(r), r.responder = v,
           NEW s \in Records, s.responder = r.responder, s.choice = r.choice, s.job = r.job,
           s.helper = r.helper, s.point = r.point, s.phase = r.phase, s.handoff = "dropped",
           NEW g \in Flights, g.job = None, g.suspended = f.suspended, Part(g) = "incident_response",
           Put(i, s, v, g), asked' = asked, steps' \cup due' \subseteq steps \cup due,
           \A j \in Jobs : state'[j] = IF j = r.job THEN "awaiting_transfer" ELSE state[j]
    PROVE  IInv' /\ Moved
<1>1. /\ f \in Flights /\ FlightOK(f) /\ r \in Records
      /\ RecordOK(r) /\ StepsOK(i) /\ AskedOK(i)
  BY DEF IInv, TypeOK, WorkTypes, CustodyOK, FlightsOK, Dealings, IncidentsOK
<1>2. /\ flight' \in [Vehicles -> Flights] /\ flight'[v] = g
      /\ \A w \in Vehicles \ {v} : flight'[w] = flight[w]
      /\ incident' \in [Incidents -> Records] /\ incident'[i] = s
      /\ \A o \in Incidents \ {i} : incident'[o] = incident[o]
  BY PutEffect DEF IInv
<1>3. PICK o \in Incidents : Drops(o, v)
  BY DEF IInv, Dealings, Missions, MissionOK
<1>4. /\ incident[o].responder = v /\ Live(incident[o]) /\ Open(incident[o])
      /\ incident[o].choice # None /\ RecordOK(incident[o])
  <2>1. RecordOK(incident[o]) /\ incident[o].handoff = "accepted"
    BY <1>3 DEF IInv, Dealings, IncidentsOK, Drops
  <2>2. incident[o].choice = "request_handoff"
    BY <2>1 DEF RecordOK, Settled
  <2>. QED
    BY <1>3, <2>1, <2>2, NamesAssumption DEF Drops, Open, Options
<1> DEFINE h == incident[o].job
<1>5. f.suspended = None /\ f.job \in {h, None} /\ h \in Jobs /\ r.job \in Jobs
  <2>1. f.suspended = None
    BY <1>1 DEF FlightOK
  <2>2. f.job \in {h, None}
    BY <1>3 DEF IInv, CustodyOK, Parcels
  <2>3. h \in Jobs /\ r.job \in Jobs
    BY <1>1, <1>4 DEF RecordOK, Settled, Open
  <2>. QED
    BY <2>1, <2>2, <2>3
<1>6. Deal(i, r.job) /\ Deal(o, h)
  BY <1>4, <1>5 DEF Deal
<1>. HIDE DEF h
<1>7. \A w \in Vehicles \ {v} : ~Has(w, r.job) /\ ~Has(w, h)
  BY <1>3, <1>4, <1>5, <1>6 DEF IInv, CustodyOK, DealsOK, DealOK
<1>8. \A j \in Jobs : (Has(v, j) => j = h) /\ ~Has(v, j)'
  BY <1>2, <1>5, NamesAssumption DEF Has
<1>9. \A w \in Vehicles \ {v}, j \in Jobs : Has(w, j)' <=> Has(w, j)
  BY <1>2 DEF Has
<1>10. \A q \in Incidents, j \in Jobs : (Deal(q, j)' <=> Deal(q, j))
                                       /\ (Deal(q, j) => incident'[q].helper = incident[q].helper)
  BY <1>2 DEF Deal, Open
<1>11. \A q \in Incidents, j \in Jobs : Deal(q, j) => Goes(q, j)'
  <2>1. Goes(i, r.job)'
    BY <1>5 DEF Goes, Loose
  <2>2. ASSUME NEW q \in Incidents \ {i}, NEW j \in Jobs, Deal(q, j) PROVE Goes(q, j)'
    <3>1. Goes(q, j)
      BY <2>2 DEF IInv, CustodyOK, DealsOK, DealOK
    <3>. QED
      BY <1>2, <3>1 DEF Goes, Loose
  <2>. QED
    BY <2>1, <2>2 DEF Deal
<1>12. FlightOK(flight[v])'
  BY <1>2, <1>5 DEF FlightOK, Part
<1>13. \A w \in Vehicles : ~Drops(i, w)'
  BY <1>2 DEF Drops
<1>14. JobsKept({i}, {v})
  <2>1. \A w \in Vehicles \ {v} : Keeps(w)
    BY <1>2 DEF Keeps
  <2>2. \A j \in Jobs : (\E w \in Vehicles \ {v} : Has(w, j)) => state'[j] = state[j]
    BY <1>7
  <2>3. ASSUME NEW j \in Jobs
        PROVE  \/ state'[j] \in Loose \/ Deal(i, j)'
               \/ state[j] \notin Loose /\ ~Has(v, j) /\ ~Deal(i, j)
               \/ \E q \in Incidents \ {i} : Deal(q, j)
    <3>1. CASE Deal(i, j)
      BY <1>10, <3>1
    <3>2. CASE j = h /\ ~Deal(i, j)
      BY <1>6, <3>2
    <3>3. CASE j # h /\ ~Deal(i, j)
      BY <1>6, <1>8, <3>3 DEF Loose
    <3>. QED
      BY <3>1, <3>2, <3>3
  <2>4. ASSUME NEW j \in Jobs, Deal(i, j)' PROVE DealOK(i, j)' /\ Deal(i, j)
    <3>1. j = r.job /\ Deal(i, j)
      BY <1>2, <2>4 DEF Deal
    <3>2. \A w \in Vehicles : ~Has(w, j)'
      BY <1>7, <1>8, <1>9, <3>1
    <3>. QED
      BY <1>11, <3>1, <3>2 DEF DealOK
  <2>5. \A q \in Incidents, w \in Vehicles : (q = i \/ w = v) =>
            ~(Drops(q, w)' /\ Part(flight'[w]) = "handoff_drop")
    BY <1>2, <1>13
  <2>. QED
    BY <1>2, <1>8, <1>11, <1>12, <2>1, <2>2, <2>3, <2>4, <2>5 DEF JobsKept, AtMostOne
<1>15. CustodyOK'
  BY <1>14, CustodyUpdate DEF IInv
<1>16. RecordOK(s) /\ ~Settled(r) /\ r.handoff # "requested"
  BY <1>1 DEF RecordOK, Settled, Open
<1>17. \A x \in Steps : Awaits(i, x)' => Awaits(i, x)
  BY DEF Awaits
<1>18. StepsOK(i)'
  BY <1>1, <1>2, <1>16, <1>17 DEF StepsOK, Settled, Open, Steps
<1>19. AskedOK(i)'
  BY <1>1, <1>2, <1>16 DEF AskedOK
<1>20. \A w \in Vehicles : Engaged(i, w)' => Engaged(i, w)
  BY <1>2 DEF Engaged, Open
<1>21. MissionOK(v)'
  <2>1. Responds(o, v)'
    BY <1>2, <1>4 DEF Responds, Open, Live
  <2>. QED
    BY <1>2, <2>1 DEF MissionOK, Part
<1>22. OthersKept(i)
  BY <1>2 DEF OthersKept, Awaits
<1>23. DealingsKept({i}, {v})
  <2>1. ASSUME NEW w \in Vehicles \ {v}
        PROVE  /\ Responds(i, w) => Responds(i, w)'
               /\ Drops(i, w) => Drops(i, w)'
               /\ Fetches(i, w) => Fetches(i, w)'
    <3>1. ~Responds(i, w) /\ ~Drops(i, w)
      BY DEF Responds, Drops
    <3>2. Fetches(i, w) => Fetches(i, w)'
      BY <1>2, <1>17 DEF Fetches, Open, Steps
    <3>. QED
      BY <3>1, <3>2
  <2>2. \A w \in Vehicles \ {v} : Part(flight'[w]) = Part(flight[w])
    BY <1>2
  <2>3. RecordOK(incident'[i])
    BY <1>2, <1>16
  <2>. QED
    BY <1>18, <1>19, <1>20, <1>21, <1>22, <2>1, <2>2, <2>3 DEF DealingsKept, OthersKept, AtMostOne
<1>24. Dealings'
  BY <1>23, DealingsUpdate DEF IInv
<1>25. \A k \in Jobs : Has(v, k) \/ (k = r.job /\ state[k] = "failed") => Leaves(k)
  <2>1. ASSUME NEW k \in Jobs, Has(v, k) \/ (k = r.job /\ state[k] = "failed") PROVE Leaves(k)
    <3>1. Unheld(k)'
      BY <1>7, <1>8, <1>9, <2>1 DEF Unheld
    <3>2. \E q \in Incidents : Deal(q, k)
      BY <1>6, <1>8, <2>1
    <3>3. state'[k] # "failed"
      BY <2>1, HeldJob DEF Active
    <3>. QED
      BY <1>10, <2>1, <3>1, <3>2, <3>3 DEF Leaves, DealsSame
  <2>. QED
    BY <2>1
<1>26. \A k \in Jobs : ~Has(v, k) /\ ~(k = r.job /\ state[k] = "failed") => Stays(k)
  <2>1. ASSUME NEW k \in Jobs, ~Has(v, k) PROVE \A w \in Vehicles : Has(w, k)' <=> Has(w, k)
    BY <1>8, <1>9, <2>1
  <2>2. Goes(i, r.job)
    BY <1>5, <1>6 DEF IInv, CustodyOK, DealsOK, DealOK
  <2>. QED
    BY <1>10, <2>1, <2>2 DEF Stays, Goes, Loose
<1>. QED
  BY <1>15, <1>24, <1>25, <1>26 DEF IInv, Moved

\* The helper gets the job, which nobody has.
LEMMA Transferred ==
    ASSUME IInv, TypeOK', WaveOK', NEW v \in Vehicles, NEW i \in Incidents,
           NEW f, f = flight[v], f.job = None, Part(f) # "handoff_drop",
           NEW r, r = incident[i], Open(r), r.helper = v, Unheld(r.job), state[r.job] \notin Loose,
           \A w \in Vehicles : ~Drops(i, w),
           NEW s \in Records, s.responder = r.responder, s.choice = r.choice, s.job = r.job,
           s.phase = r.phase, s.handoff = "transferred",
           NEW g \in Flights, g.job = r.job, g.suspended = f.suspended, g.resume = f.resume,
           Part(g) = "task", Put(i, s, v, g), asked' = asked, steps' \cup due' \subseteq steps \cup due,
           ~Awaits(i, "start_helper")', NEW t \in Active,
           \A j \in Jobs : state'[j] = IF j = r.job THEN t ELSE state[j]
    PROVE  IInv' /\ Moved
<1>1. /\ f \in Flights /\ FlightOK(f) /\ r \in Records
      /\ RecordOK(r) /\ StepsOK(i) /\ AskedOK(i)
  BY DEF IInv, TypeOK, WorkTypes, CustodyOK, FlightsOK, Dealings, IncidentsOK
<1>2. /\ flight' \in [Vehicles -> Flights] /\ flight'[v] = g
      /\ \A w \in Vehicles \ {v} : flight'[w] = flight[w]
      /\ incident' \in [Incidents -> Records] /\ incident'[i] = s
      /\ \A o \in Incidents \ {i} : incident'[o] = incident[o]
  BY PutEffect DEF IInv
<1>3. ~Settled(r) /\ r.handoff # "requested" /\ r.job \in Jobs /\ RecordOK(s)
  BY <1>1 DEF RecordOK, Settled, Open
<1>4. /\ Deal(i, r.job) /\ \A o \in Incidents : Deal(o, r.job) => o = i
      /\ \A j \in Jobs : ~Deal(i, j)' /\ (Deal(i, j) => j = r.job)
  BY <1>2, <1>3 DEF IInv, CustodyOK, OneDeal, Deal, Open
<1>5. f.suspended \in Jobs \cup {None} /\ f.suspended # r.job
      /\ (f.suspended # None => state[f.suspended] = "paused" /\ f.resume \in Active)
  BY <1>1 DEF FlightOK, Flights, Unheld, Has
<1>6. /\ \A j \in Jobs : Has(v, j)' <=> (Has(v, j) \/ j = r.job)
      /\ Has(v, r.job)'
  BY <1>2, <1>3, NamesAssumption DEF Has
<1>7. \A w \in Vehicles \ {v}, j \in Jobs : Has(w, j)' <=> Has(w, j)
  BY <1>2 DEF Has
<1>8. \A o \in Incidents \ {i}, j \in Jobs : Deal(o, j)' <=> Deal(o, j)
  BY <1>2 DEF Deal
<1>9. FlightOK(flight[v])'
  <2>1. f.suspended # None => state'[f.suspended] = "paused"
    BY <1>5
  <2>. QED
    BY <1>2, <1>3, <1>5, <2>1 DEF FlightOK, Part
<1>10. \A j \in Jobs : Has(v, j) => \A o \in Incidents : ~Deal(o, j)
  BY DEF IInv, CustodyOK, DealsOK, DealOK
<1>11. \A w \in Vehicles : ~Drops(i, w)'
  BY <1>2 DEF Drops
<1>12. JobsKept({i}, {v})
  <2>1. \A w \in Vehicles \ {v} : Keeps(w)
    BY <1>2 DEF Keeps
  <2>2. \A j \in Jobs : (\E w \in Vehicles \ {v} : Has(w, j)) => state'[j] = state[j]
    BY DEF Unheld
  <2>3. \A j \in Jobs : Has(v, j)' => Has(v, j) \/ \A w \in Vehicles : ~Has(w, j)
    BY <1>6 DEF Unheld
  <2>4. ASSUME NEW j \in Jobs
        PROVE  \/ state'[j] \in Loose \/ Has(v, j)'
               \/ state[j] \notin Loose /\ ~Has(v, j) /\ ~Deal(i, j)
    BY <1>4, <1>6
  <2>5. ASSUME NEW o \in Incidents \ {i}, NEW j \in Jobs, Deal(o, j)
        PROVE  Goes(o, j)' /\ ~Has(v, j)'
    <3>1. j # r.job /\ ~Has(v, j) /\ Goes(o, j)
      BY <1>4, <1>10, <2>5 DEF IInv, CustodyOK, DealsOK, DealOK
    <3>. QED
      BY <1>2, <1>6, <3>1 DEF Goes
  <2>6. \A q \in Incidents, w \in Vehicles : (q = i \/ w = v) =>
            ~(Drops(q, w)' /\ Part(flight'[w]) = "handoff_drop")
    BY <1>2, <1>11
  <2>. QED
    BY <1>2, <1>4, <1>9, <2>1, <2>2, <2>3, <2>4, <2>5, <2>6 DEF JobsKept, AtMostOne
<1>13. CustodyOK'
  BY <1>12, CustodyUpdate DEF IInv
<1>14. \A x \in Steps : Awaits(i, x)' => Awaits(i, x)
  BY DEF Awaits
<1>15. StepsOK(i)'
  BY <1>1, <1>2, <1>3, <1>14 DEF StepsOK, Settled, Open, Steps
<1>16. AskedOK(i)'
  BY <1>1, <1>2, <1>3 DEF AskedOK
<1>17. \A w \in Vehicles : Engaged(i, w)' => Engaged(i, w)
  BY <1>2 DEF Engaged, Open
<1>18. MissionOK(v)'
  BY <1>2 DEF MissionOK, Part
<1>19. OthersKept(i)
  BY <1>2 DEF OthersKept, Awaits
<1>20. DealingsKept({i}, {v})
  <2>1. ASSUME NEW w \in Vehicles \ {v}
        PROVE  /\ Responds(i, w) => Responds(i, w)'
               /\ Drops(i, w) => Drops(i, w)'
               /\ Fetches(i, w) => Fetches(i, w)'
    <3>1. ~Fetches(i, w) /\ ~Drops(i, w)
      BY DEF Fetches
    <3>2. Responds(i, w) => Responds(i, w)'
      BY <1>2 DEF Responds, Live
    <3>. QED
      BY <3>1, <3>2
  <2>2. \A w \in Vehicles \ {v} : Part(flight'[w]) = Part(flight[w])
    BY <1>2
  <2>3. RecordOK(incident'[i])
    BY <1>2, <1>3
  <2>. QED
    BY <1>15, <1>16, <1>17, <1>18, <1>19, <2>1, <2>2, <2>3 DEF DealingsKept, OthersKept, AtMostOne
<1>21. Dealings'
  BY <1>20, DealingsUpdate DEF IInv
<1>22. Takes(r.job)
  <2>1. \A o \in Incidents : ~Deal(o, r.job)'
    BY <1>3, <1>4, <1>8
  <2>. QED
    BY <1>3, <1>4, <1>6, <2>1 DEF Takes, Loose
<1>23. \A k \in Jobs \ {r.job} : Stays(k)
  <2>1. \A w \in Vehicles, k \in Jobs \ {r.job} : Has(w, k)' <=> Has(w, k)
    BY <1>6, <1>7
  <2>2. \A o \in Incidents, k \in Jobs \ {r.job} : (Deal(o, k)' <=> Deal(o, k))
            /\ (Deal(o, k) => incident'[o].helper = incident[o].helper)
    BY <1>2, <1>4, <1>8
  <2>. QED
    BY <2>1, <2>2 DEF Stays
<1>. QED
  BY <1>3, <1>13, <1>21, <1>22, <1>23 DEF IInv, Moved

\* A parcel that has been left is with nobody.
LEMMA DroppedUnheld ==
    ASSUME IInv, NEW i \in Incidents, incident[i].handoff = "dropped"
    PROVE  Unheld(incident[i].job)
<1> DEFINE j == incident[i].job
<1>1. j \in Jobs /\ Deal(i, j)
  BY DEF IInv, Dealings, IncidentsOK, RecordOK, Settled, Deal, Open
<1>2. ASSUME NEW w \in Vehicles, Has(w, j) PROVE FALSE
  <2>1. Part(flight[w]) = "handoff_drop"
    BY <1>1, <1>2 DEF IInv, CustodyOK, DealsOK, DealOK
  <2>2. PICK o \in Incidents : Drops(o, w)
    BY <2>1 DEF IInv, Dealings, Missions, MissionOK
  <2>3. flight[w].job \in {incident[o].job, None} /\ flight[w].suspended = None
    BY <2>1, <2>2 DEF IInv, CustodyOK, Parcels, FlightsOK, FlightOK
  <2>4. Deal(o, j)
    BY <1>1, <1>2, <2>2, <2>3, NamesAssumption DEF Has, Drops, Deal, Open
  <2>5. o = i
    BY <1>1, <2>4 DEF IInv, CustodyOK, OneDeal
  <2>. QED
    BY <2>2, <2>5 DEF Drops
<1>. QED
  BY <1>2 DEF Unheld

\* The incident that is looked up is one that the vehicle has a part in.
About(v, p) == {i \in Incidents :
    /\ (IF p = "handoff_pickup" THEN incident[i].helper ELSE incident[i].responder) = v
    /\ IF p = "incident_response" THEN incident[i].phase \in {"noticed", "responding"}
       ELSE incident[i].handoff \in {"accepted", "dropped"}}

\* The incident to respond to, or to fetch a parcel for, is the right one.
LEMMA RightIncident ==
    ASSUME IInv, NEW v \in Vehicles, NEW p, p = flight[v].purpose,
           p \in {"incident_response", "handoff_pickup"}
    PROVE  /\ About(v, p) # {} /\ Earliest(About(v, p)) \in Incidents
           /\ p = "incident_response" => Responds(Earliest(About(v, p)), v)
           /\ p = "handoff_pickup" => Fetches(Earliest(About(v, p)), v)
<1>1. \E o \in Incidents : /\ p = "incident_response" => Responds(o, v)
                           /\ p = "handoff_pickup" => Fetches(o, v)
  BY DEF IInv, Dealings, Missions, MissionOK, Part, Controlled
<1>2. PICK o \in Incidents : /\ p = "incident_response" => Responds(o, v)
                             /\ p = "handoff_pickup" => Fetches(o, v)
  BY <1>1
<1>3. o \in About(v, p)
  BY <1>2 DEF About, Responds, Fetches, Live, Open
<1>4. \A q \in About(v, p) : q \in Incidents /\ Engaged(q, v)
  BY DEF About, Engaged, Final
<1>5. About(v, p) = {o}
  BY <1>3, <1>4 DEF IInv, Dealings, OneEngagement
<1>6. Earliest(About(v, p)) = o
  BY <1>5, EarliestIn
<1>. QED
  BY <1>2, <1>3, <1>6

\* A requester that is bringing a parcel finds an agreement of its own.
LEMMA SomeDeal ==
    ASSUME IInv, NEW v \in Vehicles, flight[v].purpose = "handoff_drop"
    PROVE  /\ About(v, "handoff_drop") # {} /\ Earliest(About(v, "handoff_drop")) \in Incidents
           /\ \A i \in About(v, "handoff_drop") : incident[i].responder = v /\ Open(incident[i])
           /\ \E o \in About(v, "handoff_drop") : Drops(o, v)
<1>1. \E o \in Incidents : Drops(o, v)
  BY DEF IInv, Dealings, Missions, MissionOK, Part, Controlled
<1>2. \A o \in Incidents : Drops(o, v) => o \in About(v, "handoff_drop")
  BY DEF About, Drops
<1>3. \A i \in About(v, "handoff_drop") : incident[i].responder = v /\ Open(incident[i])
  BY DEF About, Open
<1>4. About(v, "handoff_drop") \subseteq Incidents
  BY DEF About
<1>. QED
  BY <1>1, <1>2, <1>3, <1>4, EarliestIn

\* The requester of a hand-over, at the point or on its way there.
LEMMA DropStep ==
    ASSUME IInv, WaveTypes', due' \subseteq due, stage' = "poll" => due' = {},
           NEW v \in Vehicles, NEW i \in Incidents, incident[i].responder = v, Open(incident[i]),
           flight[v].purpose = "handoff_drop", Drop(v, i)
    PROVE  IInv' /\ Moved
<1>0. PICK f \in Flights, r \in Records : f = flight[v] /\ r = incident[i]
  BY DEF IInv, TypeOK, WorkTypes
<1> DEFINE e == [f EXCEPT !.job = None]
           s == [r EXCEPT !.handoff = "dropped"]
<1>1. \/ Move(v)
      \/ /\ Put(i, s, v, Depart(e)) /\ requests' = requests
         /\ Write(To(r.job, "awaiting_transfer"), {<<"handoff", i>>})
  BY <1>0, Zenon DEF Drop, s, e
<1>2. e \in Flights /\ e.job = None /\ e.suspended = f.suspended
  BY DEF Flights
<1>3. /\ s \in Records /\ s.responder = r.responder /\ s.choice = r.choice /\ s.job = r.job
      /\ s.helper = r.helper /\ s.point = r.point /\ s.phase = r.phase /\ s.handoff = "dropped"
  BY DEF Records
<1>. HIDE DEF e, s
<1>4. /\ Depart(e) \in Flights /\ Depart(e).job = None /\ Depart(e).suspended = f.suspended
      /\ Part(Depart(e)) = "incident_response"
  BY <1>2, DepartEffect DEF IInv
<1>5. CASE Move(v)
  BY <1>5, MoveStep
<1>6. CASE /\ Put(i, s, v, Depart(e)) /\ requests' = requests
           /\ Write(To(r.job, "awaiting_transfer"), {<<"handoff", i>>})
  <2>1. asked' = asked /\ steps' = steps
    BY <1>6 DEF requests
  <2>2. /\ state' \in [Jobs -> States] /\ fault' \in {"none", "duplicate", "raised"}
        /\ \A j \in Jobs : state'[j] = IF j = r.job THEN "awaiting_transfer" ELSE state[j]
    BY <1>6, WriteTo DEF IInv, States
  <2>3. flight' \in [Vehicles -> Flights] /\ incident' \in [Incidents -> Records]
    BY <1>3, <1>4, <1>6, PutEffect DEF IInv
  <2>4. TypeOK' /\ WaveOK'
    BY <2>1, <2>2, <2>3 DEF IInv, TypeOK, WorkTypes, Dealings, WaveOK
  <2>5. Part(f) = "handoff_drop"
    BY <1>0 DEF Part, Controlled
  <2>6. steps' \cup due' \subseteq steps \cup due
    BY <2>1
  <2>. QED
    BY <1>0, <1>3, <1>4, <1>6, <2>1, <2>2, <2>4, <2>5, <2>6, ParcelLeft
<1>. QED
  BY <1>1, <1>5, <1>6

\* The helper, at the point or on its way there.
LEMMA PickupStep ==
    ASSUME IInv, WaveTypes', due' \subseteq due, stage' = "poll" => due' = {},
           NEW v \in Vehicles, NEW i \in Incidents, Fetches(i, v),
           flight[v].purpose = "handoff_pickup", Pickup(v, i)
    PROVE  IInv' /\ Moved
<1>0. PICK f \in Flights, r \in Records : f = flight[v] /\ r = incident[i]
  BY DEF IInv, TypeOK, WorkTypes
<1> DEFINE g == [f EXCEPT !.job = r.job, !.purpose = "task", !.leg = "idle"]
           s == [r EXCEPT !.handoff = "transferred"]
<1>1. \/ Move(v) \/ Fly(v, f, Nothing)
      \/ /\ r.handoff = "dropped" /\ Put(i, s, v, g) /\ requests' = requests
         /\ Write(To(r.job, "picked_up"), {<<"handoff", i>>})
  BY <1>0, Zenon DEF Pickup, s, g
<1>2. Open(r) /\ r.helper = v /\ ~Awaits(i, "start_helper") /\ r.job \in Jobs
  BY <1>0 DEF IInv, Dealings, IncidentsOK, RecordOK, Settled, Open, Fetches
<1>3. /\ s \in Records /\ s.responder = r.responder /\ s.choice = r.choice /\ s.job = r.job
      /\ s.phase = r.phase /\ s.handoff = "transferred"
  BY DEF Records
<1>4. /\ g \in Flights /\ g.job = r.job /\ g.suspended = f.suspended /\ g.resume = f.resume
      /\ g.purpose = "task"
  BY <1>2 DEF Flights
<1>. HIDE DEF g, s
<1>5. CASE Move(v)
  BY <1>5, MoveStep
<1>6. CASE Fly(v, f, Nothing)
  BY <1>0, <1>6, FlyOn
<1>7. CASE /\ r.handoff = "dropped" /\ Put(i, s, v, g) /\ requests' = requests
           /\ Write(To(r.job, "picked_up"), {<<"handoff", i>>})
  <2>1. asked' = asked /\ steps' = steps
    BY <1>7 DEF requests
  <2>2. /\ state' \in [Jobs -> States] /\ fault' \in {"none", "duplicate", "raised"}
        /\ \A j \in Jobs : state'[j] = IF j = r.job THEN "picked_up" ELSE state[j]
    BY <1>7, WriteTo DEF IInv, States
  <2>3. flight' \in [Vehicles -> Flights] /\ incident' \in [Incidents -> Records]
    BY <1>3, <1>4, <1>7, PutEffect DEF IInv
  <2>4. TypeOK' /\ WaveOK'
    BY <2>1, <2>2, <2>3 DEF IInv, TypeOK, WorkTypes, Dealings, WaveOK
  <2>5. steps' \cup due' \subseteq steps \cup due /\ ~Awaits(i, "start_helper")'
    BY <1>2, <2>1 DEF Awaits
  <2>6. f.job = None /\ Part(f) # "handoff_drop" /\ Part(g) = "task"
    BY <1>0, <1>4 DEF IInv, CustodyOK, FlightsOK, FlightOK, Part, Controlled
  <2>7. Unheld(r.job) /\ state[r.job] \notin Loose
    <3>1. Goes(i, r.job)
      BY <1>0, <1>2 DEF IInv, CustodyOK, DealsOK, DealOK, Deal
    <3>. QED
      BY <1>0, <1>7, <3>1, DroppedUnheld DEF Goes
  <2>8. \A w \in Vehicles : ~Drops(i, w)
    BY <1>0, <1>7 DEF Drops
  <2>9. "picked_up" \in Active
    BY DEF Active
  <2>. QED
    BY <1>0, <1>2, <1>3, <1>4, <1>7, <2>1, <2>2, <2>4, <2>5, <2>6, <2>7, <2>8, <2>9, Transferred
<1>. QED
  BY <1>1, <1>5, <1>6, <1>7

\* Nothing happens but for a step that is done, and perhaps a fault.
LEMMA Stutters ==
    ASSUME IInv, WaveTypes', due' \subseteq due, stage' = "poll" => due' = {},
           UNCHANGED <<state, flight, incident, asked, steps>>,
           fault' \in {"none", "duplicate", "raised"}
    PROVE  IInv' /\ Moved
<1>1. TypeOK' /\ WaveOK'
  BY DEF IInv, TypeOK, WorkTypes, Dealings, WaveOK
<1>2. \A w \in Vehicles : Keeps(w)
  BY DEF Keeps
<1>. QED
  BY <1>1, <1>2, Quiet DEF Moved

\* The cases of _coop_flight, with the incident that is looked up.
LEMMA CoopCases ==
    ASSUME NEW v, CoopFlight(v)
    PROVE  \E i : /\ i = Earliest(About(v, flight[v].purpose))
                  /\ \/ /\ Raise
                        /\ \/ About(v, flight[v].purpose) = {}
                           \/ flight[v].purpose # "incident_response" /\ ~incident[i].point
                     \/ flight[v].purpose = "incident_response" /\ Respond(v, i)
                     \/ flight[v].purpose = "handoff_drop" /\ Drop(v, i)
                     \/ flight[v].purpose = "handoff_pickup" /\ Pickup(v, i)
<1> DEFINE i == Earliest(About(v, flight[v].purpose))
<1>1. \/ /\ Raise
         /\ \/ About(v, flight[v].purpose) = {}
            \/ flight[v].purpose # "incident_response" /\ ~incident[i].point
      \/ flight[v].purpose = "incident_response" /\ Respond(v, i)
      \/ flight[v].purpose = "handoff_drop" /\ Drop(v, i)
      \/ flight[v].purpose = "handoff_pickup" /\ Pickup(v, i)
  BY Zenon DEF CoopFlight, About
<1>. QED
  BY <1>1, Zenon

\* _coop_flight keeps the invariant.
LEMMA CoopFlightStep ==
    ASSUME IInv, WaveTypes', due' \subseteq due, stage' = "poll" => due' = {},
           NEW v \in Vehicles, CoopFlight(v)
    PROVE  IInv' /\ Moved
<1>1. PICK i : /\ i = Earliest(About(v, flight[v].purpose))
               /\ \/ /\ Raise
                     /\ \/ About(v, flight[v].purpose) = {}
                        \/ flight[v].purpose # "incident_response" /\ ~incident[i].point
                  \/ flight[v].purpose = "incident_response" /\ Respond(v, i)
                  \/ flight[v].purpose = "handoff_drop" /\ Drop(v, i)
                  \/ flight[v].purpose = "handoff_pickup" /\ Pickup(v, i)
  BY CoopCases, Zenon
<1>2. CASE Raise
  BY <1>2, Stutters DEF Raise, work, requests
<1>3. CASE flight[v].purpose = "incident_response" /\ Respond(v, i)
  <2>1. i \in Incidents /\ Responds(i, v)
    BY <1>1, <1>3, RightIncident
  <2>. QED
    BY <1>3, <2>1, RespondStep
<1>4. CASE flight[v].purpose = "handoff_drop" /\ Drop(v, i)
  <2>1. i \in Incidents /\ incident[i].responder = v /\ Open(incident[i])
    <3>1. i = Earliest(About(v, "handoff_drop"))
      BY <1>1, <1>4
    <3>2. About(v, "handoff_drop") \in SUBSET Incidents
      BY DEF About
    <3>3. About(v, "handoff_drop") # {}
          /\ \A o \in About(v, "handoff_drop") : incident[o].responder = v /\ Open(incident[o])
      BY <1>4, SomeDeal
    <3>4. i \in About(v, "handoff_drop")
      BY <3>1, <3>2, <3>3, EarliestIn
    <3>. QED
      BY <3>2, <3>3, <3>4
  <2>. QED
    BY <1>4, <2>1, DropStep
<1>5. CASE flight[v].purpose = "handoff_pickup" /\ Pickup(v, i)
  <2>1. i \in Incidents /\ Fetches(i, v)
    BY <1>1, <1>5, RightIncident
  <2>. QED
    BY <1>5, <2>1, PickupStep
<1>. QED
  BY <1>1, <1>2, <1>3, <1>4, <1>5

\* What was interrupted goes on as what it was.
LEMMA RestoredEffect ==
    ASSUME NEW f \in Flights, f.purpose \in Controlled
    PROVE  /\ Restored(f) \in Flights /\ Restored(f).job = f.job
           /\ Restored(f).suspended = f.suspended /\ Restored(f).resume = f.resume
           /\ Restored(f).purpose = f.back /\ Part(Restored(f)) = Part(f)
<1>1. PICK l \in {"braking", "idle"} : l = IF Busy(f) THEN "braking" ELSE "idle"
  OBVIOUS
<1>2. Restored(f) = [f EXCEPT !.purpose = f.back, !.back = "task", !.leg = l]
  BY <1>1, Zenon DEF Restored
<1>3. /\ Restored(f) \in Flights /\ Restored(f).job = f.job
      /\ Restored(f).suspended = f.suspended /\ Restored(f).resume = f.resume
      /\ Restored(f).purpose = f.back
  BY <1>2 DEF Flights
<1>. QED
  BY <1>3 DEF Part, Controlled, Flights

\* The turns of the loop over the flights.
LEMMA FlightTurnStep ==
    ASSUME IInv, NEW k \in DOMAIN Fleet, FlightTurn(k)
    PROVE  IInv' /\ Moved
<1> DEFINE v == Fleet[k]
           f == flight[v]
<1>1. /\ Turn(Preempting + k) /\ Acts(v)
      /\ \/ f.purpose \in Responding /\ CoopFlight(v) /\ turn' = Preempting + k + 1
         \/ /\ \/ f.purpose = "task" /\ TaskFlight(v)
               \/ f.purpose = "control" /\ f.leg # "there" /\ Move(v)
            /\ turn' = Preempting + k + 1 /\ UNCHANGED resumed
         \/ f.purpose = "stranded" /\ Raise /\ turn' = Preempting + k + 1
         \/ /\ f.purpose = "control" /\ f.leg = "there"
            /\ \/ Fly(v, Restored(f), Nothing) /\ turn' = Preempting + k
               \/ turn' = Preempting + k + 1 /\ UNCHANGED <<work, requests, written, fault>>
            /\ UNCHANGED resumed
  BY Zenon DEF FlightTurn, v, f
<1>2. v \in Vehicles /\ f \in Flights /\ Preempting + k \in Nat
  BY Turns DEF IInv, TypeOK, WorkTypes
<1>. HIDE DEF v, f
<1>3. /\ policy' = policy /\ due' = due /\ stage' = stage /\ trouble' = trouble
      /\ due = {} /\ due' = {} /\ fault = "none"
  BY <1>1, TurnEffect
<1>4. turn' \in Nat
  BY <1>1, <1>2
<1>5. resumed' \subseteq Vehicles
  <2>1. resumed \subseteq Vehicles
    BY DEF IInv, TypeOK, WaveTypes
  <2>2. CoopFlight(v) => resumed' \subseteq resumed \cup {v}
    BY Zenon DEF CoopFlight, Respond, Drop, Pickup, Raise
  <2>3. Raise => resumed' = resumed
    BY DEF Raise
  <2>. QED
    BY <1>1, <1>2, <2>1, <2>2, <2>3
<1>6. WaveTypes'
  BY <1>3, <1>4, <1>5 DEF IInv, TypeOK, WaveTypes
<1>7. CASE CoopFlight(v)
  BY <1>2, <1>3, <1>6, <1>7, CoopFlightStep
<1>8. CASE f.purpose = "task" /\ TaskFlight(v)
  <2>1. f.job # None
    BY <1>1, <1>8 DEF Acts, Free, f
  <2>. QED
    BY <1>2, <1>3, <1>6, <1>8, <2>1, TaskFlightStep DEF f
<1>9. CASE Move(v)
  BY <1>2, <1>3, <1>6, <1>9, MoveStep
<1>10. CASE f.purpose = "control" /\ Fly(v, Restored(f), Nothing)
  <2>1. /\ Restored(f) \in Flights /\ Restored(f).job = f.job
        /\ Restored(f).suspended = f.suspended /\ Restored(f).resume = f.resume
        /\ Part(Restored(f)) = Part(f)
    BY <1>2, <1>10, RestoredEffect DEF Controlled
  <2>. QED
    BY <1>2, <1>3, <1>6, <1>10, <2>1, FlyOn DEF f
<1>11. CASE UNCHANGED <<work, requests, written, fault>>
  <2>1. UNCHANGED <<state, flight, incident, asked, steps>> /\ fault' = fault
    BY <1>11 DEF work, requests
  <2>. QED
    BY <1>3, <1>6, <2>1, Stutters
<1>12. CASE Raise
  <2>1. UNCHANGED <<state, flight, incident, asked, steps>> /\ fault' = "raised"
    BY <1>12 DEF Raise, work, requests
  <2>. QED
    BY <1>3, <1>6, <2>1, Stutters
<1>. QED
  BY <1>1, <1>7, <1>8, <1>9, <1>10, <1>11, <1>12

-----------------------------------------------------------------------------
(* Answers and deferred steps.                                             *)

\* A model has answered, or failed, for a responder.
LEMMA ReplyFromResponder ==
    ASSUME IInv, WaveTypes', due' = due, stage' # "poll", NEW i \in Incidents, ResponderReply(i)
    PROVE  IInv' /\ Moved
<1>0. PICK r \in Records : r = incident[i]
  BY DEF IInv, TypeOK, WorkTypes
<1> DEFINE rest == asked \ {<<i, r.responder, "responder">>}
           s == [r EXCEPT !.choice = None, !.phase = "decision_failed"]
<1>1. /\ rest # asked
      /\ \/ \E able \in BOOLEAN : \E c \in Allowed(r, flight[r.responder], able) :
                Decide(i, r, c, {}, rest)
         \/ /\ incident' = [incident EXCEPT ![i] = s]
            /\ Write(Nothing, {<<"incident", i>>})
            /\ asked' = rest /\ UNCHANGED <<flight, steps>>
  BY <1>0, Zenon DEF ResponderReply, rest, s
<1>2. RecordOK(r) /\ StepsOK(i) /\ AskedOK(i)
  BY <1>0 DEF IInv, Dealings, IncidentsOK
<1>3. r.responder \in Vehicles /\ <<i, r.responder, "responder">> \in asked
  BY <1>1 DEF IInv, TypeOK, WorkTypes
<1>4. Live(r) /\ r.choice = None /\ Settled(r) /\ ~Awaits(i, "decide")
  BY <1>0, <1>2, <1>3 DEF AskedOK
<1>5. Deciding(i, r)
  BY <1>0, <1>3, <1>4 DEF Deciding
<1>6. Dealt(i, rest)
  <2>1. \A w \in Vehicles : <<i, w, "responder">> \notin rest /\ <<i, w, "helper">> \notin rest
    BY <1>0, <1>2, <1>4 DEF AskedOK, Settled
  <2>2. \A w, x : <<i, w, x>> \notin rest
    BY <2>1 DEF IInv, TypeOK, WorkTypes
  <2>3. \A x \in {"decide", "select", "start_helper"} : ~Awaits(i, x)
    BY <1>0, <1>2, <1>4 DEF StepsOK, Settled, Open
  <2>. QED
    BY <2>2, <2>3 DEF Dealt, Awaits
<1>7. /\ s \in Records /\ s.responder = r.responder /\ s.handoff = r.handoff
      /\ s.choice = None /\ s.phase = "decision_failed"
  BY DEF Records
<1>. HIDE DEF s, rest
<1>8. ASSUME NEW able \in BOOLEAN, NEW c \in Allowed(r, flight[r.responder], able),
             Decide(i, r, c, {}, rest)
      PROVE  IInv' /\ Moved
  BY <1>5, <1>6, <1>8, Decided DEF Moved
<1>9. CASE /\ incident' = [incident EXCEPT ![i] = s]
           /\ Write(Nothing, {<<"incident", i>>})
           /\ asked' = rest /\ UNCHANGED <<flight, steps>>
  <2>1. s.choice # "request_handoff"
    BY <1>7, NamesAssumption DEF Options
  <2>. QED
    BY <1>5, <1>6, <1>7, <1>9, <2>1, DecidedHere DEF Moved
<1>. QED
  BY <1>1, <1>8, <1>9

\* A model has answered, or failed, for a candidate.
LEMMA ReplyFromHelper ==
    ASSUME IInv, WaveTypes', due' = due, stage' # "poll", NEW i \in Incidents,
           NEW h \in DOMAIN incident[i].offers, HelperReply(i, h)
    PROVE  IInv' /\ Moved
<1>0. PICK r \in Records : r = incident[i]
  BY DEF IInv, TypeOK, WorkTypes
<1>1. PICK answer \in {"yes", "no", "failed"} :
         /\ <<i, h, "helper">> \in asked /\ asked' = asked \ {<<i, h, "helper">>}
         /\ incident' = [incident EXCEPT ![i].offers = [r.offers EXCEPT ![h] = answer]]
         /\ steps' = IF \E k \in DOMAIN [r.offers EXCEPT ![h] = answer] :
                            [r.offers EXCEPT ![h] = answer][k] = "open" THEN steps
                     ELSE steps \cup {<<i, "select">>}
         /\ UNCHANGED <<state, flight, written, fault>>
  BY <1>0, Zenon DEF HelperReply
<1> DEFINE offers == [r.offers EXCEPT ![h] = answer]
           s == [r EXCEPT !.offers = offers]
<1>2. RecordOK(r) /\ StepsOK(i) /\ AskedOK(i)
  BY <1>0 DEF IInv, Dealings, IncidentsOK
<1>3. /\ h \in Vehicles /\ r.handoff = "requested" /\ h \in DOMAIN r.offers /\ r.offers[h] = "open"
  <2>1. <<i, h, "helper">> \in asked
    BY <1>1, Zenon
  <2>2. h \in Vehicles
    BY <2>1 DEF IInv, TypeOK, WorkTypes
  <2>. QED
    BY <1>0, <1>2, <2>1, <2>2 DEF AskedOK
<1>4. PICK C \in SUBSET Vehicles : r.offers \in [C -> Answers]
  BY DEF Records
<1>5. /\ offers \in [C -> Answers] /\ DOMAIN offers = C /\ DOMAIN r.offers = C /\ offers[h] = answer
      /\ \A k \in C \ {h} : offers[k] = r.offers[k]
  BY <1>3, <1>4 DEF Answers
<1>6. /\ incident' = [incident EXCEPT ![i] = s]
      /\ steps' = IF \E k \in C : offers[k] = "open" THEN steps ELSE steps \cup {<<i, "select">>}
      /\ asked' = asked \ {<<i, h, "helper">>}
      /\ UNCHANGED <<state, flight, fault>>
  <2>1. incident' = [incident EXCEPT ![i] = s]
    BY <1>0, <1>1, Zenon
  <2>. QED
    BY <1>1, <1>5, <2>1, Zenon
<1>. HIDE DEF offers
<1>7. /\ s \in Records /\ s.responder = r.responder /\ s.phase = r.phase
      /\ s.choice = r.choice /\ s.handoff = r.handoff /\ s.job = r.job /\ s.offers = offers
      /\ s.helper = r.helper /\ s.point = r.point
  BY <1>4, <1>5, OffersRecord
<1>. HIDE DEF s
<1>8. ~Awaits(i, "select") /\ \A x \in {"decide", "start_helper"} : ~Awaits(i, x)
  BY <1>0, <1>2, <1>3, <1>4 DEF StepsOK, Open
<1>9. steps' \subseteq steps \cup {<<i, "select">>}
  BY <1>6
<1>10. /\ incident' \in [Incidents -> Records] /\ incident'[i] = s
       /\ \A o \in Incidents \ {i} : incident'[o] = incident[o]
  BY <1>6, <1>7 DEF IInv, TypeOK, WorkTypes
<1>11. TypeOK'
  BY <1>6, <1>9, <1>10 DEF IInv, TypeOK, WorkTypes, Steps
<1>12. WaveOK'
  BY <1>8, <1>9 DEF IInv, Dealings, WaveOK, Awaits
<1>13. OthersKept(i)
  <2>1. ASSUME NEW o \in Incidents \ {i}, NEW x \in Steps, Awaits(o, x)' PROVE Awaits(o, x)
    BY <1>9, <2>1 DEF Awaits
  <2>. QED
    BY <1>6, <1>10, <2>1 DEF OthersKept
<1>14. RecordOK(s)
  BY <1>2, <1>7 DEF RecordOK, Settled, Live, Open
<1>15. StepsOK(i)'
  <2>1. Awaits(i, "select")' => \A k \in C : offers[k] # "open"
    <3>1. CASE \E k \in C : offers[k] = "open"
      BY <1>6, <1>8, <3>1 DEF Awaits
    <3>. QED
      BY <3>1
  <2>2. \A x \in {"decide", "start_helper"} : ~Awaits(i, x)'
    BY <1>8, <1>9 DEF Awaits
  <2>3. Awaits(i, "response_due")' => Awaits(i, "response_due")
    BY <1>9 DEF Awaits
  <2>. QED
    BY <1>0, <1>2, <1>3, <1>5, <1>7, <1>10, <2>1, <2>2, <2>3 DEF StepsOK
<1>16. AskedOK(i)'
  <2>1. \A w \in Vehicles : <<i, w, "responder">> \notin asked'
    BY <1>0, <1>2, <1>3, <1>6 DEF AskedOK, Settled
  <2>2. ASSUME NEW w \in Vehicles, <<i, w, "helper">> \in asked' PROVE w \in C /\ offers[w] = "open"
    <3>1. <<i, w, "helper">> \in asked /\ w # h
      BY <1>6, <2>2
    <3>2. w \in C /\ r.offers[w] = "open"
      BY <1>0, <1>2, <1>5, <3>1 DEF AskedOK
    <3>. QED
      BY <1>5, <3>1, <3>2
  <2>. QED
    BY <1>3, <1>5, <1>7, <1>10, <2>1, <2>2 DEF AskedOK
<1>17. FairlyEngaged(i)
  BY <1>0, <1>5, <1>7, <1>10 DEF FairlyEngaged, Engaged
<1>18. SoundIncident(i)
  BY <1>10, <1>14, <1>15, <1>16, <1>17 DEF SoundIncident
<1>19. /\ ~Open(incident[i]) /\ ~Open(incident'[i])
       /\ \A w \in Vehicles : ~Responds(i, w)
  BY <1>0, <1>3, <1>7, <1>10 DEF Open, Responds
<1>. QED
  BY <1>6, <1>11, <1>12, <1>13, <1>18, <1>19, IncidentStep DEF Moved

\* _coop_decide, deferred.
LEMMA DecideStepKeeps ==
    ASSUME IInv, WaveTypes', NEW i \in Incidents, <<i, "decide">> \in due,
           due' = due \ {<<i, "decide">>}, stage' # "poll", DecideStep(i)
    PROVE  IInv' /\ Moved
<1>0. PICK r \in Records : r = incident[i]
  BY DEF IInv, TypeOK, WorkTypes
<1>1. PICK able \in BOOLEAN :
         Decide(i, r, First(Order, Allowed(r, flight[r.responder], able)), {}, asked)
  BY <1>0, Zenon DEF DecideStep
<1>2. PICK c : c = First(Order, Allowed(r, flight[r.responder], able))
  OBVIOUS
<1>3. c \in Allowed(r, flight[r.responder], able)
  <2>1. "report_only" \in Allowed(r, flight[r.responder], able)
    BY DEF Allowed
  <2>. QED
    BY <1>2, <2>1, FirstAllowed DEF IInv, TypeOK, WaveTypes
<1>4. RecordOK(r) /\ StepsOK(i) /\ AskedOK(i)
  BY <1>0 DEF IInv, Dealings, IncidentsOK
<1>5. Awaits(i, "decide") /\ r.handoff = "idle" /\ r.choice = None /\ Live(r)
  BY <1>0, <1>4 DEF StepsOK, Awaits
<1>6. Deciding(i, r)
  BY <1>0, <1>4, <1>5 DEF Deciding, RecordOK, Live, Settled
<1>7. Dealt(i, asked)
  <2>1. \A w \in Vehicles : <<i, w, "responder">> \notin asked /\ <<i, w, "helper">> \notin asked
    BY <1>0, <1>4, <1>5 DEF AskedOK
  <2>2. \A w, x : <<i, w, x>> \notin asked
    BY <2>1 DEF IInv, TypeOK, WorkTypes
  <2>3. \A x \in {"select", "start_helper"} : ~Awaits(i, x)
    BY <1>0, <1>4, <1>5 DEF StepsOK, Open
  <2>4. <<i, "decide">> \notin steps
    BY DEF IInv, Dealings, WaveOK
  <2>. QED
    BY <2>2, <2>3, <2>4 DEF Dealt, Awaits
<1>8. Decide(i, r, c, {}, asked)
  BY <1>1, <1>2, Zenon
<1>. QED
  BY <1>3, <1>6, <1>7, <1>8, Decided DEF Moved

\* The candidates have refused, and the responder's model is asked again.
LEMMA AskedAgain ==
    ASSUME IInv, WaveTypes', NEW i \in Incidents, NEW r, Deciding(i, r), NEW facts,
           Dealt(i, asked), r.handoff # "idle", Ask(i, r, facts)
    PROVE  IInv' /\ Moved
<1> DEFINE s == [r EXCEPT !.choice = None]
<1>1. /\ incident' = [incident EXCEPT ![i] = s] /\ asked' = asked \cup {<<i, r.responder, "responder">>}
      /\ Write(Nothing, facts) /\ UNCHANGED <<flight, steps>>
  BY Zenon DEF Ask, s
<1>2. r \in Records
  BY DEF Deciding
<1>3. /\ s \in Records /\ s.responder = r.responder /\ s.handoff = r.handoff
      /\ s.choice = None /\ s.phase = r.phase
  BY <1>2, ChoiceRecord
<1>. HIDE DEF s
<1>4. /\ incident' \in [Incidents -> Records] /\ incident'[i] = s
      /\ \A o \in Incidents \ {i} : incident'[o] = incident[o]
  BY <1>1, <1>3 DEF IInv, TypeOK, WorkTypes
<1>5. /\ state' \in [Jobs -> States] /\ fault' \in {"none", "duplicate", "raised"}
      /\ \A j \in Jobs : state'[j] = state[j]
  BY <1>1, WriteNothing DEF IInv
<1>6. TypeOK'
  BY <1>1, <1>4, <1>5 DEF IInv, TypeOK, WorkTypes, Deciding
<1>7. WaveOK'
  BY <1>1 DEF IInv, Dealings, WaveOK, Dealt
<1>8. OthersKept(i)
  BY <1>1, <1>4 DEF OthersKept, Awaits, Dealt
<1>9. RecordOK(s)
  BY <1>3 DEF RecordOK, Deciding, Settled, Live, Open
<1>10. StepsOK(i)'
  <2>1. \A x \in {"decide", "select", "start_helper"} : ~Awaits(i, x)'
    BY <1>1 DEF Awaits, Dealt
  <2>. QED
    BY <1>3, <1>4, <2>1 DEF StepsOK, Deciding
<1>11. AskedOK(i)'
  <2>1. ~Awaits(i, "decide")'
    BY <1>1 DEF Awaits, Dealt
  <2>2. \A w \in Vehicles : /\ <<i, w, "responder">> \in asked' => w = r.responder
                            /\ <<i, w, "helper">> \notin asked'
    BY <1>1 DEF Dealt
  <2>. QED
    BY <1>3, <1>4, <2>1, <2>2 DEF AskedOK, Deciding, Live, Settled
<1>12. FairlyEngaged(i)
  BY <1>3, <1>4 DEF FairlyEngaged, Engaged, Deciding, Settled, Live, Final
<1>13. SoundIncident(i)
  BY <1>4, <1>9, <1>10, <1>11, <1>12 DEF SoundIncident
<1>14. /\ ~Open(incident[i]) /\ ~Open(incident'[i]) /\ \A w \in Vehicles : ~Responds(i, w)
  BY <1>3, <1>4 DEF Open, Deciding, Settled, Responds
<1>. QED
  BY <1>1, <1>5, <1>6, <1>7, <1>8, <1>13, <1>14, IncidentStep DEF Moved

\* A helper is chosen: the responder leaves its job at once, or sets out to bring it.
LEMMA AgreedUpon ==
    ASSUME IInv, TypeOK', WaveOK', NEW i \in Incidents, NEW r, r = incident[i],
           r.handoff = "requested", NEW v \in Vehicles, v = r.responder,
           NEW f, f = flight[v], f.job = r.job, f.purpose = "task", f.suspended = None,
           NEW h \in DOMAIN r.offers, h # v, \A k \in DOMAIN r.offers : r.offers[k] # "open",
           NEW s \in Records, s.responder = r.responder, s.choice = r.choice, s.job = r.job,
           s.phase = r.phase, s.helper = h, s.handoff = "accepted",
           NEW g \in Flights, g.suspended = None,
           \/ /\ ~s.point /\ g.job = None /\ Part(g) = "incident_response"
              /\ \A j \in Jobs : state'[j] = IF j = r.job THEN "paused" ELSE state[j]
           \/ /\ s.point /\ g.job = f.job /\ Part(g) = "handoff_drop"
              /\ \A j \in Jobs : state'[j] = state[j],
           Put(i, s, v, g), asked' = asked, steps' = steps \cup {<<i, "start_helper">>},
           due' \subseteq due, ~Awaits(i, "select")'
    PROVE  IInv' /\ Moved
<1>1. /\ f \in Flights /\ FlightOK(f) /\ r \in Records
      /\ RecordOK(r) /\ StepsOK(i) /\ AskedOK(i)
  BY DEF IInv, TypeOK, WorkTypes, CustodyOK, FlightsOK, Dealings, IncidentsOK
<1>2. /\ flight' \in [Vehicles -> Flights] /\ flight'[v] = g
      /\ \A w \in Vehicles \ {v} : flight'[w] = flight[w]
      /\ incident' \in [Incidents -> Records] /\ incident'[i] = s
      /\ \A o \in Incidents \ {i} : incident'[o] = incident[o]
  BY PutEffect DEF IInv
<1>3. /\ Live(r) /\ r.choice = "request_handoff" /\ r.choice # None /\ r.job \in Jobs
      /\ r.job # None /\ h \in Vehicles
  <2>1. DOMAIN r.offers \subseteq Vehicles
    BY <1>1 DEF Records
  <2>. QED
    BY <1>1, <2>1, NamesAssumption DEF RecordOK, Settled, Options
<1>4. state[r.job] \in Active /\ Part(f) = "task"
  BY <1>1, <1>3 DEF FlightOK, Part, Controlled
<1>5. \A j \in Jobs : Has(v, j) <=> j = r.job
  BY <1>3, NamesAssumption DEF Has
<1>6. \A w \in Vehicles \ {v} : ~Has(w, r.job)
  BY <1>3, <1>5 DEF IInv, CustodyOK, OneHolder
<1>7. \A w \in Vehicles \ {v}, j \in Jobs : Has(w, j)' <=> Has(w, j)
  BY <1>2 DEF Has
<1>8. \A j \in Jobs : Has(v, j)' => s.point /\ j = r.job
  BY <1>2, <1>3, NamesAssumption DEF Has
<1>9. \A o \in Incidents : ~Deal(o, r.job)
  BY <1>3, <1>4, <1>5 DEF IInv, CustodyOK, DealsOK, DealOK
<1>10. Deal(i, r.job)' /\ \A j \in Jobs : ~Deal(i, j) /\ (Deal(i, j)' => j = r.job)
  BY <1>2 DEF Deal, Open
<1>11. \A o \in Incidents \ {i}, j \in Jobs : Deal(o, j)' <=> Deal(o, j)
  BY <1>2 DEF Deal
<1>12. \A j \in Jobs \ {r.job} : state'[j] = state[j]
  OBVIOUS
<1>13. state'[r.job] \notin Loose
  BY <1>3, <1>4 DEF Loose, Active
<1>14. FlightOK(flight[v])'
  <2>1. CASE s.point
    <3>1. g.job = r.job /\ state'[r.job] \in Active /\ Part(g) = "handoff_drop"
      BY <1>3, <1>4, <2>1
    <3>. QED
      BY <1>2, <3>1 DEF FlightOK, Part
  <2>2. CASE ~s.point
    <3>1. g.job = None /\ Part(g) = "incident_response"
      BY <2>2
    <3>. QED
      BY <1>2, <3>1 DEF FlightOK, Part
  <2>. QED
    BY <2>1, <2>2
<1>15. Engaged(i, v)
  BY <1>3 DEF Engaged, Live, Final
<1>16. \A q \in Incidents : Drops(q, v)' => q = i
  <2>1. ASSUME NEW q \in Incidents \ {i}, Drops(q, v)' PROVE FALSE
    <3>1. Engaged(q, v)
      BY <1>2, <2>1 DEF Drops, Engaged, Live, Final
    <3>. QED
      BY <1>15, <3>1 DEF IInv, Dealings, OneEngagement
  <2>. QED
    BY <2>1
<1>17. \A w \in Vehicles : Drops(i, w)' => w = v
  BY <1>2 DEF Drops
<1>18. JobsKept({i}, {v})
  <2>1. \A w \in Vehicles \ {v} : Keeps(w)
    BY <1>2 DEF Keeps
  <2>2. \A j \in Jobs : (\E w \in Vehicles \ {v} : Has(w, j)) => state'[j] = state[j]
    BY <1>6, <1>12
  <2>3. ASSUME NEW j \in Jobs
        PROVE  \/ state'[j] \in Loose \/ Deal(i, j)'
               \/ state[j] \notin Loose /\ ~Has(v, j) /\ ~Deal(i, j)
    BY <1>5, <1>10, <1>12
  <2>4. ASSUME NEW j \in Jobs, Deal(i, j)'
        PROVE  DealOK(i, j)' /\ \A o \in Incidents : ~Deal(o, j)
    <3>1. j = r.job
      BY <1>10, <2>4
    <3>2. ASSUME NEW w \in Vehicles, Has(w, j)' PROVE w = v /\ s.point
      BY <1>6, <1>7, <1>8, <3>1, <3>2
    <3>3. s.point => Part(g) = "handoff_drop"
      OBVIOUS
    <3>4. DealOK(i, j)'
      BY <1>2, <1>13, <3>1, <3>2, <3>3 DEF DealOK, Goes, Part
    <3>. QED
      BY <1>9, <3>1, <3>4
  <2>5. ASSUME NEW o \in Incidents \ {i}, NEW j \in Jobs, Deal(o, j)
        PROVE  Goes(o, j)' /\ ~Has(v, j)'
    <3>1. Goes(o, j) /\ j # r.job
      BY <1>9, <2>5 DEF IInv, CustodyOK, DealsOK, DealOK
    <3>. QED
      BY <1>2, <1>8, <1>12, <3>1 DEF Goes
  <2>6. \A q \in Incidents, w \in Vehicles : (q = i \/ w = v) =>
            (Drops(q, w)' /\ Part(flight'[w]) = "handoff_drop" =>
                flight'[w].job \in {incident'[q].job, None})
    <3>1. Part(g) = "handoff_drop" => g.job = s.job
      OBVIOUS
    <3>. QED
      BY <1>2, <1>16, <1>17, <3>1
  <2>. QED
    BY <1>2, <1>5, <1>8, <1>14, <2>1, <2>2, <2>3, <2>4, <2>5, <2>6 DEF JobsKept, AtMostOne
<1>19. CustodyOK'
  BY <1>18, CustodyUpdate DEF IInv
<1>20. RecordOK(s)
  BY <1>1, <1>3 DEF RecordOK, Settled, Live, Open
<1>21. \A x \in Steps : Awaits(i, x)' => Awaits(i, x) \/ x = "start_helper"
  <2>1. ASSUME NEW x \in Steps, Awaits(i, x)', ~Awaits(i, x) PROVE x = "start_helper"
    BY <2>1 DEF Awaits
  <2>. QED
    BY <2>1
<1>22. StepsOK(i)'
  BY <1>1, <1>2, <1>21 DEF StepsOK, Open, Steps
<1>23. AskedOK(i)'
  BY <1>1, <1>2 DEF AskedOK, Settled
<1>24. \A w \in Vehicles : Engaged(i, w)' => Engaged(i, w)
  BY <1>2, <1>3 DEF Engaged
<1>25. MissionOK(v)'
  <2>1. ~s.point => Responds(i, v)'
    BY <1>2, <1>3 DEF Responds, Live
  <2>2. s.point => Drops(i, v)'
    BY <1>2, <1>3 DEF Drops, Live
  <2>. QED
    BY <1>2, <2>1, <2>2 DEF MissionOK, Part
<1>26. OthersKept(i)
  <2>1. ASSUME NEW o \in Incidents \ {i}, NEW x \in Steps, Awaits(o, x)' PROVE Awaits(o, x)
    BY <2>1 DEF Awaits
  <2>. QED
    BY <1>2, <2>1 DEF OthersKept
<1>27. DealingsKept({i}, {v})
  <2>1. ASSUME NEW w \in Vehicles
        PROVE  ~Responds(i, w) /\ ~Drops(i, w) /\ ~Fetches(i, w)
    BY DEF Responds, Drops, Fetches, Open
  <2>2. \A w \in Vehicles \ {v} : Part(flight'[w]) = Part(flight[w])
    BY <1>2
  <2>3. RecordOK(incident'[i])
    BY <1>2, <1>20
  <2>. QED
    BY <1>22, <1>23, <1>24, <1>25, <1>26, <2>1, <2>2, <2>3 DEF DealingsKept, OthersKept, AtMostOne
<1>28. Dealings'
  BY <1>27, DealingsUpdate DEF IInv
<1>29. Agrees(r.job)
  <2>1. Has(v, r.job)' \/ Unheld(r.job)'
    <3>1. s.point => Has(v, r.job)'
      BY <1>2 DEF Has
    <3>2. ~s.point => Unheld(r.job)'
      BY <1>3, <1>6, <1>7, <1>8 DEF Unheld
    <3>. QED
      BY <3>1, <3>2
  <2>. QED
    BY <1>2, <1>3, <1>5, <1>9, <1>10, <1>13, <2>1 DEF Agrees, Loose
<1>30. \A k \in Jobs \ {r.job} : Stays(k)
  <2>1. \A w \in Vehicles, k \in Jobs \ {r.job} : Has(w, k)' <=> Has(w, k)
    BY <1>5, <1>7, <1>8
  <2>2. \A o \in Incidents, k \in Jobs \ {r.job} : (Deal(o, k)' <=> Deal(o, k))
            /\ (Deal(o, k) => incident'[o].helper = incident[o].helper)
    BY <1>2, <1>10, <1>11
  <2>. QED
    BY <1>12, <2>1, <2>2 DEF Stays
<1>. QED
  BY <1>3, <1>19, <1>28, <1>29, <1>30 DEF IInv, Moved

\* What may come of a selection, with r and f as the incident and its responder's flight.
SelectsFor(i, r, f, refused) ==
    \/ /\ Prescribed("responder")
       /\ \E able \in BOOLEAN :
             Decide(i, refused, First(AfterHandoff, Allowed(refused, f, able)), {<<"handoff", i>>}, asked)
    \/ Ask(i, refused, {<<"handoff", i>>})
    \/ /\ f.job = r.job /\ \E able \in BOOLEAN : "request_handoff" \in Allowed(r, f, able)
       /\ \E h \in DOMAIN r.offers :
             /\ Candidate(i, h) /\ asked' = asked /\ steps' = steps \cup {<<i, "start_helper">>}
             /\ \/ /\ Put(i, [r EXCEPT !.helper = h, !.point = TRUE, !.handoff = "accepted"],
                          r.responder, [f EXCEPT !.purpose = "handoff_drop", !.leg = "braking"])
                   /\ Write(Nothing, {<<"handoff", i>>})
                \/ /\ Put(i, [r EXCEPT !.helper = h, !.point = FALSE, !.handoff = "accepted"],
                          r.responder, Depart([f EXCEPT !.job = None]))
                   /\ Write(To(r.job, "paused"), {<<"handoff", i>>})

\* What may come of _coop_select.
LEMMA SelectCases ==
    ASSUME NEW i, NEW r, r = incident[i], NEW f, f = flight[r.responder], SelectStep(i)
    PROVE  \E a \in {"failed", "declined"} : SelectsFor(i, r, f, [r EXCEPT !.handoff = a])
<1> DEFINE failed == \E h \in DOMAIN r.offers : r.offers[h] = "failed"
           far == state[r.job] = "picked_up"
           a == IF failed THEN "failed" ELSE "declined"
           accepted(near) == {h \in near : r.offers[h] = "yes" /\ Candidate(i, h)}
<1>1. PICK able \in BOOLEAN, open \in BOOLEAN, near \in SUBSET DOMAIN r.offers :
         \/ Prescribed("responder")
            /\ Decide(i, [r EXCEPT !.handoff = a],
                      First(AfterHandoff, Allowed([r EXCEPT !.handoff = a], f, able)),
                      {<<"handoff", i>>}, asked)
         \/ Ask(i, [r EXCEPT !.handoff = a], {<<"handoff", i>>})
         \/ /\ f.job = r.job /\ "request_handoff" \in Allowed(r, f, able)
            /\ \E h \in accepted(near) :
                /\ Put(i, [r EXCEPT !.helper = h, !.point = far, !.handoff = "accepted"], r.responder,
                       IF far THEN [f EXCEPT !.purpose = "handoff_drop", !.leg = "braking"]
                       ELSE Depart([f EXCEPT !.job = None]))
                /\ Write(IF far THEN Nothing ELSE To(r.job, "paused"), {<<"handoff", i>>})
                /\ steps' = steps \cup {<<i, "start_helper">>} /\ asked' = asked
  BY Zenon DEF SelectStep
<1>2. a \in {"failed", "declined"}
  OBVIOUS
<1> DEFINE refused == [r EXCEPT !.handoff = a]
           agreed(h) == \/ /\ Put(i, [r EXCEPT !.helper = h, !.point = TRUE, !.handoff = "accepted"],
                                  r.responder, [f EXCEPT !.purpose = "handoff_drop", !.leg = "braking"])
                           /\ Write(Nothing, {<<"handoff", i>>})
                        \/ /\ Put(i, [r EXCEPT !.helper = h, !.point = FALSE, !.handoff = "accepted"],
                                  r.responder, Depart([f EXCEPT !.job = None]))
                           /\ Write(To(r.job, "paused"), {<<"handoff", i>>})
<1>3. \/ Prescribed("responder")
         /\ Decide(i, refused, First(AfterHandoff, Allowed(refused, f, able)), {<<"handoff", i>>}, asked)
      \/ Ask(i, refused, {<<"handoff", i>>})
      \/ /\ f.job = r.job /\ "request_handoff" \in Allowed(r, f, able)
         /\ \E h \in accepted(near) :
                agreed(h) /\ steps' = steps \cup {<<i, "start_helper">>} /\ asked' = asked
  <2>1. far = TRUE \/ far = FALSE
    OBVIOUS
  <2>2. CASE far = TRUE
    BY <1>1, <2>2, Zenon
  <2>3. CASE far = FALSE
    BY <1>1, <2>3, Zenon
  <2>. QED
    BY <2>1, <2>2, <2>3, Zenon
<1>4. \A h \in accepted(near) : h \in DOMAIN r.offers /\ Candidate(i, h)
  OBVIOUS
<1>5. SelectsFor(i, r, f, refused)
  <2>. HIDE DEF accepted, a
  <2>. QED
    BY <1>3, <1>4, Zenon DEF SelectsFor
<1>. HIDE DEF a
<1>. QED
  BY <1>2, <1>5, Zenon

\* _coop_select keeps the invariant.
LEMMA SelectStepKeeps ==
    ASSUME IInv, WaveTypes', NEW i \in Incidents, <<i, "select">> \in due,
           due' = due \ {<<i, "select">>}, stage' # "poll", SelectStep(i)
    PROVE  IInv' /\ Moved
<1>0. PICK r \in Records : r = incident[i]
  BY DEF IInv, TypeOK, WorkTypes
<1>1. RecordOK(r) /\ StepsOK(i) /\ AskedOK(i)
  BY <1>0 DEF IInv, Dealings, IncidentsOK
<1>2. /\ Awaits(i, "select") /\ r.handoff = "requested"
      /\ \A k \in DOMAIN r.offers : r.offers[k] # "open"
  BY <1>0, <1>1 DEF StepsOK, Awaits
<1>3. Live(r) /\ r.responder \in Vehicles /\ r.job \in Jobs
  BY <1>1, <1>2 DEF RecordOK, Live, Settled
<1>4. PICK f \in Flights : f = flight[r.responder]
  BY <1>3 DEF IInv, TypeOK, WorkTypes
<1>5. Dealt(i, asked)
  <2>1. \A w \in Vehicles : <<i, w, "responder">> \notin asked /\ <<i, w, "helper">> \notin asked
    BY <1>0, <1>1, <1>2 DEF AskedOK, Settled
  <2>2. \A w, x : <<i, w, x>> \notin asked
    BY <2>1 DEF IInv, TypeOK, WorkTypes
  <2>3. \A x \in {"decide", "start_helper"} : ~Awaits(i, x)
    BY <1>0, <1>1, <1>2 DEF StepsOK, Open
  <2>4. <<i, "select">> \notin steps
    BY DEF IInv, Dealings, WaveOK
  <2>. QED
    BY <2>2, <2>3, <2>4 DEF Dealt, Awaits
<1>6. due' \subseteq due /\ <<i, "select">> \notin steps /\ <<i, "select">> \notin due'
  BY DEF IInv, Dealings, WaveOK
<1>7. PICK a \in {"failed", "declined"} : SelectsFor(i, r, f, [r EXCEPT !.handoff = a])
  BY <1>0, <1>4, SelectCases
<1> DEFINE refused == [r EXCEPT !.handoff = a]
           s(h, b) == [r EXCEPT !.helper = h, !.point = b, !.handoff = "accepted"]
           brings == [f EXCEPT !.purpose = "handoff_drop", !.leg = "braking"]
           parked == [f EXCEPT !.job = None]
<1>8. /\ refused \in Records /\ refused.responder = r.responder /\ refused.phase = r.phase
      /\ refused.handoff = a
  BY DEF Records
<1>9. \A h \in Vehicles, b \in BOOLEAN :
         /\ s(h, b) \in Records /\ s(h, b).responder = r.responder /\ s(h, b).choice = r.choice
         /\ s(h, b).job = r.job /\ s(h, b).phase = r.phase /\ s(h, b).helper = h
         /\ s(h, b).point = b /\ s(h, b).handoff = "accepted"
  <2>1. ASSUME NEW h \in Vehicles, NEW b \in BOOLEAN
        PROVE  LET q == [r EXCEPT !.helper = h, !.point = b, !.handoff = "accepted"] IN
               /\ q \in Records /\ q.responder = r.responder /\ q.choice = r.choice
               /\ q.job = r.job /\ q.phase = r.phase /\ q.helper = h
               /\ q.point = b /\ q.handoff = "accepted"
    BY ZenonT(40) DEF Records
  <2>. QED
    BY <2>1, Zenon
<1>10. /\ brings \in Flights /\ brings.job = f.job /\ brings.suspended = f.suspended
       /\ brings.purpose = "handoff_drop"
       /\ parked \in Flights /\ parked.job = None /\ parked.suspended = f.suspended
  BY DEF Flights
<1>11. DOMAIN r.offers \subseteq Vehicles
  BY DEF Records
<1>12. \/ /\ Prescribed("responder")
          /\ \E able \in BOOLEAN :
                Decide(i, refused, First(AfterHandoff, Allowed(refused, f, able)), {<<"handoff", i>>}, asked)
       \/ Ask(i, refused, {<<"handoff", i>>})
       \/ /\ f.job = r.job /\ \E able \in BOOLEAN : "request_handoff" \in Allowed(r, f, able)
          /\ \E h \in DOMAIN r.offers :
                /\ Candidate(i, h) /\ asked' = asked /\ steps' = steps \cup {<<i, "start_helper">>}
                /\ \/ /\ Put(i, s(h, TRUE), r.responder, brings)
                      /\ Write(Nothing, {<<"handoff", i>>})
                   \/ /\ Put(i, s(h, FALSE), r.responder, Depart(parked))
                      /\ Write(To(r.job, "paused"), {<<"handoff", i>>})
  BY <1>7, Zenon DEF SelectsFor
<1>. HIDE DEF refused, s, brings, parked
<1>13. Deciding(i, refused)
  BY <1>0, <1>2, <1>3, <1>8 DEF Deciding, Settled, Live
<1>14. CASE \E able \in BOOLEAN :
               Decide(i, refused, First(AfterHandoff, Allowed(refused, f, able)), {<<"handoff", i>>}, asked)
  <2>1. PICK able \in BOOLEAN :
           Decide(i, refused, First(AfterHandoff, Allowed(refused, f, able)), {<<"handoff", i>>}, asked)
    BY <1>14, Zenon
  <2>2. PICK c : c = First(AfterHandoff, Allowed(refused, f, able))
    OBVIOUS
  <2>3. c \in Allowed(refused, f, able)
    <3>1. "report_only" \in Allowed(refused, f, able)
      BY DEF Allowed
    <3>. QED
      BY <2>2, <3>1, FirstAllowed, AfterHandoffIsOrder DEF IInv, TypeOK, WaveTypes
  <2>4. Decide(i, refused, c, {<<"handoff", i>>}, asked) /\ f = flight[refused.responder]
    BY <1>4, <1>8, <2>1, <2>2, Zenon
  <2>5. c \in Allowed(refused, flight[refused.responder], able)
    BY <2>3, <2>4, Zenon
  <2>. QED
    BY <1>5, <1>13, <2>4, <2>5, Decided DEF Moved
<1>15. CASE Ask(i, refused, {<<"handoff", i>>})
  <2>1. refused.handoff # "idle"
    BY <1>8
  <2>. QED
    BY <1>5, <1>13, <1>15, <2>1, AskedAgain
<1>16. ASSUME f.job = r.job, NEW able, "request_handoff" \in Allowed(r, f, able),
              NEW h \in DOMAIN r.offers, Candidate(i, h),
              asked' = asked, steps' = steps \cup {<<i, "start_helper">>},
              NEW b \in BOOLEAN, NEW g \in Flights, g.suspended = f.suspended,
              Put(i, s(h, b), r.responder, g),
              \/ b /\ g.job = f.job /\ Part(g) = "handoff_drop" /\ Write(Nothing, {<<"handoff", i>>})
              \/ ~b /\ g.job = None /\ Part(g) = "incident_response"
                 /\ Write(To(r.job, "paused"), {<<"handoff", i>>})
       PROVE  IInv' /\ Moved
  <2>1. f.purpose = "task" /\ f.suspended = None
    BY <1>3, <1>16, AllowedFacts, NamesAssumption
  <2>2. PICK q \in Records : q = s(h, b)
    BY <1>9, <1>11
  <2>3. /\ q.responder = r.responder /\ q.choice = r.choice /\ q.job = r.job /\ q.phase = r.phase
        /\ q.helper = h /\ q.point = b /\ q.handoff = "accepted"
    BY <1>9, <1>11, <2>2
  <2>4. Put(i, q, r.responder, g)
    BY <1>16, <2>2, Zenon
  <2>5. /\ state' \in [Jobs -> States] /\ fault' \in {"none", "duplicate", "raised"}
        /\ \A j \in Jobs : state'[j] = IF ~b /\ j = r.job THEN "paused" ELSE state[j]
    <3>1. CASE b
      BY <1>16, <3>1, WriteNothing DEF IInv
    <3>2. CASE ~b
      BY <1>16, <3>2, WriteTo DEF IInv, States
    <3>. QED
      BY <3>1, <3>2
  <2>6. flight' \in [Vehicles -> Flights] /\ incident' \in [Incidents -> Records]
    BY <1>3, <2>4, PutEffect DEF IInv
  <2>7. TypeOK'
    BY <1>16, <2>5, <2>6 DEF IInv, TypeOK, WorkTypes, Steps
  <2>8. h # r.responder
    BY <1>0, <1>16 DEF Candidate
  <2>9. ~Awaits(i, "select")'
    BY <1>6, <1>16 DEF Awaits
  <2>10. \/ /\ ~q.point /\ g.job = None /\ Part(g) = "incident_response"
            /\ \A j \in Jobs : state'[j] = IF j = r.job THEN "paused" ELSE state[j]
         \/ /\ q.point /\ g.job = f.job /\ Part(g) = "handoff_drop"
            /\ \A j \in Jobs : state'[j] = state[j]
    BY <1>16, <2>3, <2>5
  <2>11. WaveOK'
    BY <1>5, <1>6, <1>16 DEF IInv, Dealings, WaveOK, Dealt
  <2>12. g.suspended = None /\ f.job = r.job
    BY <1>16, <2>1
  <2>13. PICK v \in Vehicles : v = r.responder
    BY <1>3
  <2>14. f = flight[v] /\ h # v /\ Put(i, q, v, g) /\ q.responder = r.responder
    BY <1>4, <2>3, <2>4, <2>8, <2>13
  <2>15. h \in DOMAIN r.offers /\ asked' = asked /\ steps' = steps \cup {<<i, "start_helper">>}
    BY <1>16
  <2>. QED
    BY <1>0, <1>2, <1>6, <2>1, <2>3, <2>7, <2>9, <2>10, <2>11, <2>12, <2>13, <2>14, <2>15,
       AgreedUpon, SMTT(60)
<1>17. ASSUME NEW h \in DOMAIN r.offers, Candidate(i, h), f.job = r.job,
              NEW able, "request_handoff" \in Allowed(r, f, able),
              asked' = asked, steps' = steps \cup {<<i, "start_helper">>},
              Put(i, s(h, TRUE), r.responder, brings), Write(Nothing, {<<"handoff", i>>})
       PROVE  IInv' /\ Moved
  <2>1. Part(brings) = "handoff_drop"
    BY <1>10 DEF Part, Controlled
  <2>. QED
    BY <1>10, <1>16, <1>17, <2>1
<1>18. ASSUME NEW h \in DOMAIN r.offers, Candidate(i, h), f.job = r.job,
              NEW able, "request_handoff" \in Allowed(r, f, able),
              asked' = asked, steps' = steps \cup {<<i, "start_helper">>},
              Put(i, s(h, FALSE), r.responder, Depart(parked)),
              Write(To(r.job, "paused"), {<<"handoff", i>>})
       PROVE  IInv' /\ Moved
  <2>1. /\ Depart(parked) \in Flights /\ Depart(parked).job = None
        /\ Depart(parked).suspended = f.suspended /\ Part(Depart(parked)) = "incident_response"
    BY <1>10, DepartEffect DEF IInv
  <2>. QED
    BY <1>16, <1>18, <2>1
<1>. QED
  BY <1>12, <1>14, <1>15, <1>17, <1>18, Zenon

\* _coop_start_helper keeps the invariant.
LEMMA HelperStepKeeps ==
    ASSUME IInv, WaveTypes', NEW i \in Incidents, <<i, "start_helper">> \in due,
           due' = due \ {<<i, "start_helper">>}, stage' # "poll", HelperStep(i)
    PROVE  IInv' /\ Moved
<1>0. PICK r \in Records : r = incident[i]
  BY DEF IInv, TypeOK, WorkTypes
<1>1. RecordOK(r) /\ StepsOK(i)
  BY <1>0 DEF IInv, Dealings, IncidentsOK
<1>2. Open(r) /\ r.job \in Jobs /\ r.job # None
  <2>1. Open(r)
    BY <1>0, <1>1 DEF StepsOK, Awaits
  <2>. QED
    BY <1>1, <2>1, NamesAssumption DEF RecordOK, Settled, Open
<1>3. PICK v \in Vehicles : v = r.helper
  BY <1>1, <1>2 DEF RecordOK
<1>4. PICK f \in Flights : f = flight[v]
  BY DEF IInv, TypeOK, WorkTypes
<1> DEFINE s == [r EXCEPT !.handoff = "transferred"]
           fetching == [f EXCEPT !.purpose = "handoff_pickup", !.leg = "idle"]
           taking == [f EXCEPT !.job = r.job, !.leg = "idle"]
<1>5. \/ UNCHANGED <<work, requests, written, fault>>
      \/ /\ Available(f) /\ r.point /\ requests' = requests
         /\ Put(i, r, v, fetching) /\ Write(Nothing, {})
      \/ /\ Available(f) /\ ~r.point /\ requests' = requests
         /\ Put(i, s, v, taking) /\ Write(To(r.job, "assigned"), {<<"handoff", i>>})
  BY <1>0, <1>3, <1>4, Zenon DEF HelperStep, s, fetching, taking
<1>6. /\ s \in Records /\ s.responder = r.responder /\ s.choice = r.choice /\ s.job = r.job
      /\ s.phase = r.phase /\ s.handoff = "transferred"
  BY DEF Records
<1>7. /\ fetching \in Flights /\ fetching.job = f.job /\ fetching.suspended = f.suspended
      /\ fetching.resume = f.resume /\ Part(fetching) = "handoff_pickup"
      /\ taking \in Flights /\ taking.job = r.job /\ taking.suspended = f.suspended
      /\ taking.resume = f.resume /\ taking.purpose = f.purpose
  BY <1>2, ZenonT(40) DEF Flights, Part, Controlled
<1>. HIDE DEF s, fetching, taking
<1>8. FlightOK(f)
  BY <1>4 DEF IInv, CustodyOK, FlightsOK
<1>9. due' \subseteq due /\ <<i, "start_helper">> \notin steps /\ <<i, "start_helper">> \notin due'
  BY DEF IInv, Dealings, WaveOK
<1>10. CASE UNCHANGED <<work, requests, written, fault>>
  <2>1. fault' \in {"none", "duplicate", "raised"}
    BY <1>10 DEF IInv, TypeOK, WorkTypes
  <2>. QED
    BY <1>9, <1>10, <2>1, Stutters DEF work, requests
<1>11. CASE /\ Available(f) /\ r.point /\ requests' = requests
            /\ Put(i, r, v, fetching) /\ Write(Nothing, {})
  <2>1. asked' = asked /\ steps' = steps /\ f.job = None /\ f.purpose = "task"
    BY <1>11 DEF requests, Available, Free
  <2>2. /\ flight' \in [Vehicles -> Flights] /\ flight'[v] = fetching
        /\ \A w \in Vehicles \ {v} : flight'[w] = flight[w]
        /\ incident' \in [Incidents -> Records] /\ incident'[i] = r
        /\ \A o \in Incidents \ {i} : incident'[o] = incident[o]
    BY <1>7, <1>11, PutEffect DEF IInv
  <2>3. incident' = incident
    BY <1>0, <2>2 DEF IInv, TypeOK, WorkTypes
  <2>4. /\ state' \in [Jobs -> States] /\ fault' \in {"none", "duplicate", "raised"}
        /\ \A j \in Jobs : state'[j] = state[j]
    BY <1>11, WriteNothing DEF IInv
  <2>5. TypeOK'
    BY <2>1, <2>2, <2>4 DEF IInv, TypeOK, WorkTypes
  <2>6. WaveOK'
    BY <1>9, <2>1 DEF IInv, Dealings, WaveOK
  <2>7. Fetches(i, v)'
    BY <1>0, <1>2, <1>3, <1>9, <1>11, <2>1, <2>3 DEF Fetches, Awaits
  <2>8. MissionOK(v)'
    BY <1>7, <2>2, <2>7 DEF MissionOK, Part
  <2>9. FlightOK(flight[v])'
    <3>1. f.suspended # None => state'[f.suspended] = "paused" /\ f.resume \in Active
      BY <1>8, <2>4 DEF FlightOK, Flights
    <3>. QED
      BY <1>7, <2>1, <2>2, <3>1 DEF FlightOK, Part
  <2>10. \A j \in Jobs : Has(v, j)' <=> Has(v, j)
    BY <1>4, <1>7, <2>2 DEF Has
  <2>11. JobsOf(v)
    BY <2>4, <2>10 DEF JobsOf
  <2>12. Part(flight[v]) = "task" /\ Part(flight'[v]) = "handoff_pickup"
    BY <1>4, <1>7, <2>1, <2>2 DEF Part, Controlled
  <2>13. IInv'
    BY <1>9, <2>1, <2>2, <2>3, <2>5, <2>6, <2>8, <2>9, <2>11, <2>12, FlightStep
  <2>14. \A w \in Vehicles, j \in Jobs : Has(w, j)' <=> Has(w, j)
    BY <2>2, <2>10 DEF Has
  <2>15. \A j \in Jobs : Stays(j)
    BY <2>3, <2>4, <2>14 DEF Stays, Deal
  <2>. QED
    BY <2>13, <2>15 DEF Moved
<1>12. CASE /\ Available(f) /\ ~r.point /\ requests' = requests
            /\ Put(i, s, v, taking) /\ Write(To(r.job, "assigned"), {<<"handoff", i>>})
  <2>1. /\ asked' = asked /\ steps' = steps /\ f.job = None /\ f.purpose = "task"
        /\ Part(f) = "task" /\ Part(taking) = "task"
    BY <1>7, <1>12 DEF requests, Available, Free, Part, Controlled
  <2>2. /\ flight' \in [Vehicles -> Flights] /\ incident' \in [Incidents -> Records]
    BY <1>6, <1>7, <1>12, PutEffect DEF IInv
  <2>3. /\ state' \in [Jobs -> States] /\ fault' \in {"none", "duplicate", "raised"}
        /\ \A j \in Jobs : state'[j] = IF j = r.job THEN "assigned" ELSE state[j]
    BY <1>12, WriteTo DEF IInv, States
  <2>4. TypeOK'
    BY <2>1, <2>2, <2>3 DEF IInv, TypeOK, WorkTypes
  <2>5. WaveOK' /\ steps' \cup due' \subseteq steps \cup due /\ ~Awaits(i, "start_helper")'
    BY <1>9, <2>1 DEF IInv, Dealings, WaveOK, Awaits
  <2>6. Unheld(r.job) /\ state[r.job] \notin Loose
    <3>1. DealOK(i, r.job)
      BY <1>0, <1>2 DEF IInv, CustodyOK, DealsOK, Deal
    <3>. QED
      BY <1>0, <1>12, <3>1 DEF DealOK, Goes, Unheld
  <2>7. \A w \in Vehicles : ~Drops(i, w)
    BY <1>0, <1>12 DEF Drops
  <2>8. "assigned" \in Active /\ Part(f) # "handoff_drop" /\ Put(i, s, v, taking)
    BY <1>12, <2>1 DEF Active
  <2>. QED
    BY <1>0, <1>2, <1>3, <1>4, <1>6, <1>7, <2>1, <2>3, <2>4, <2>5, <2>6, <2>7, <2>8, Transferred
<1>. QED
  BY <1>5, <1>10, <1>11, <1>12

\* _coop_flight resumes at most the job of its vehicle.
LEMMA ResumedByCoop ==
    ASSUME NEW v, CoopFlight(v)
    PROVE  resumed' \subseteq resumed \cup {v}
<1>1. resumed' = resumed \/ resumed' = resumed \cup {v}
  BY Zenon DEF CoopFlight, Respond, Drop, Pickup, Raise
<1>. QED
  BY <1>1

\* The steps that are due, each in its stage.
LEMMA StepKeeps ==
    ASSUME IInv, NEW i \in Incidents, NEW s \in Steps, Step(i, s)
    PROVE  IInv' /\ Moved
<1>1. /\ <<i, s>> \in due /\ due' = due \ {<<i, s>>}
      /\ At(IF Clock(s) THEN "timers" ELSE "deferred")
      /\ \/ s = "decide" /\ DecideStep(i) /\ UNCHANGED resumed
         \/ s = "select" /\ SelectStep(i) /\ UNCHANGED resumed
         \/ s = "start_helper" /\ HelperStep(i) /\ UNCHANGED resumed
         \/ s = "response_due" /\ DueStep(i)
      /\ UNCHANGED <<turn, trouble>>
  BY Zenon DEF Step
<1>2. policy' = policy /\ stage' \in {"timers", "deferred"} /\ turn' = turn /\ trouble' = trouble
  BY <1>1, AtEffect
<1>3. ASSUME resumed' \subseteq Vehicles PROVE WaveTypes'
  BY <1>1, <1>2, <1>3 DEF IInv, TypeOK, WaveTypes
<1>4. resumed \subseteq Vehicles /\ stage' # "poll" /\ due' \subseteq due
  BY <1>1, <1>2 DEF IInv, TypeOK, WaveTypes
<1>5. CASE s = "decide" /\ DecideStep(i) /\ UNCHANGED resumed
  <2>1. WaveTypes'
    BY <1>3, <1>4, <1>5
  <2>. QED
    BY <1>1, <1>4, <1>5, <2>1, DecideStepKeeps
<1>6. CASE s = "select" /\ SelectStep(i) /\ UNCHANGED resumed
  <2>1. WaveTypes'
    BY <1>3, <1>4, <1>6
  <2>. QED
    BY <1>1, <1>4, <1>6, <2>1, SelectStepKeeps
<1>7. CASE s = "start_helper" /\ HelperStep(i) /\ UNCHANGED resumed
  <2>1. WaveTypes'
    BY <1>3, <1>4, <1>7
  <2>. QED
    BY <1>1, <1>4, <1>7, <2>1, HelperStepKeeps
<1>8. CASE s = "response_due" /\ DueStep(i)
  <2>1. CoopFlight(incident[i].responder) \/ UNCHANGED <<work, requests, written, resumed, fault>>
    BY <1>8, Zenon DEF DueStep
  <2>2. PICK v \in Vehicles : v = incident[i].responder
    BY <1>1, <1>8 DEF IInv, Dealings, IncidentsOK, StepsOK, Awaits
  <2>3. CASE CoopFlight(v)
    <3>1. WaveTypes'
      BY <1>3, <1>4, <2>3, ResumedByCoop
    <3>. QED
      BY <1>4, <2>3, <3>1, CoopFlightStep
  <2>4. CASE UNCHANGED <<work, requests, written, resumed, fault>>
    <3>1. UNCHANGED <<state, flight, incident, asked, steps>> /\ fault' = fault /\ resumed' = resumed
      BY <2>4 DEF work, requests
    <3>2. WaveTypes' /\ fault' \in {"none", "duplicate", "raised"}
      BY <1>3, <1>4, <3>1 DEF IInv, TypeOK, WorkTypes
    <3>. QED
      BY <1>4, <3>1, <3>2, Stutters
  <2>. QED
    BY <2>1, <2>2, <2>3, <2>4
<1>. QED
  BY <1>1, <1>5, <1>6, <1>7, <1>8

\* The answers that a wave brings.
LEMMA ReplyKeeps ==
    ASSUME IInv, NEW i \in Incidents, Reply(i)
    PROVE  IInv' /\ Moved
<1>1. /\ At("messages") /\ UNCHANGED <<due, turn, resumed, trouble>>
      /\ ResponderReply(i) \/ \E h \in DOMAIN incident[i].offers : HelperReply(i, h)
  BY Zenon DEF Reply
<1>2. policy' = policy /\ stage' = "messages" /\ due' = due /\ stage' # "poll"
  BY <1>1, AtEffect
<1>3. WaveTypes'
  BY <1>1, <1>2 DEF IInv, TypeOK, WaveTypes
<1>. QED
  BY <1>1, <1>2, <1>3, ReplyFromResponder, ReplyFromHelper
-----------------------------------------------------------------------------
(* What happens to a vehicle, and the passage of time.                     *)

\* v is held, or let go, or controlled, or arrives, and keeps its part and its jobs.
LEMMA FlightKept ==
    ASSUME IInv, WaveTypes', due' = due, stage' # "poll", NEW v \in Vehicles,
           NEW f, f = flight[v], NEW g \in Flights,
           g.job = f.job, g.suspended = f.suspended, g.resume = f.resume, Part(g) = Part(f),
           flight' = [flight EXCEPT ![v] = g],
           UNCHANGED <<state, incident, asked, steps, fault>>
    PROVE  IInv' /\ Moved
<1>1. /\ flight' \in [Vehicles -> Flights] /\ flight'[v] = g
      /\ \A w \in Vehicles \ {v} : flight'[w] = flight[w]
  BY DEF IInv, TypeOK, WorkTypes
<1>2. TypeOK' /\ WaveOK'
  BY <1>1 DEF IInv, TypeOK, WorkTypes, Dealings, WaveOK
<1>3. \A w \in Vehicles : Keeps(w)
  BY <1>1 DEF Keeps
<1>. QED
  BY <1>2, <1>3, Quiet DEF Moved

\* A receipt of a command.
LEMMA ReceiptKeeps ==
    ASSUME IInv, NEW v \in Vehicles, Receipt(v)
    PROVE  IInv' /\ Moved
<1>1. PICK f \in Flights : f = flight[v]
  BY DEF IInv, TypeOK, WorkTypes
<1> DEFINE g == [f EXCEPT !.leg = IF @ = "braking" THEN "idle" ELSE "there"]
<1>2. /\ At("receipts") /\ flight' = [flight EXCEPT ![v] = g]
      /\ UNCHANGED <<state, incident, requests, due, turn, written, resumed, fault, trouble>>
  BY <1>1, Zenon DEF Receipt
<1>3. /\ g \in Flights /\ g.job = f.job /\ g.suspended = f.suspended /\ g.resume = f.resume
      /\ Part(g) = Part(f)
  BY DEF Flights, Part
<1>. HIDE DEF g
<1>4. WaveTypes' /\ stage' # "poll" /\ UNCHANGED <<asked, steps>>
  BY <1>2, AtEffect DEF IInv, TypeOK, WaveTypes, requests
<1>. QED
  BY <1>1, <1>2, <1>3, <1>4, FlightKept

\* What an order of control changes about a flight.
LEMMA OrdersEffect ==
    ASSUME NEW f \in Flights, NEW g \in Orders(f)
    PROVE  g \in Flights /\ g.job = f.job /\ g.suspended = f.suspended /\ g.resume = f.resume
           /\ Part(g) = Part(f)
<1> DEFINE Legs == {"idle", "there", "moving", "braking", "hovering"}
           Helds == {"no", "weather", "control", "charge"}
<1>1. f.leg \in Legs /\ f.held \in Helds
  BY DEF Flights
<1>2. CASE \E l \in Legs, h \in Helds : g = [f EXCEPT !.leg = l, !.held = h]
  <2>1. PICK l \in Legs, h \in Helds : g = [f EXCEPT !.leg = l, !.held = h]
    BY <1>2
  <2>2. /\ g \in Flights /\ g.job = f.job /\ g.suspended = f.suspended /\ g.resume = f.resume
        /\ g.purpose = f.purpose /\ g.back = f.back
    BY <2>1 DEF Flights
  <2>. QED
    BY <2>2 DEF Part
<1>3. CASE g = [[f EXCEPT !.leg = "braking"] EXCEPT !.purpose = "control",
                    !.back = IF f.purpose \in Controlled THEN @ ELSE f.purpose]
  <2>1. PICK b \in {"task", "incident_response", "handoff_drop", "handoff_pickup"} : b = Part(f)
    BY DEF Flights, Part, Controlled
  <2>2. PICK q \in Flights : q = [f EXCEPT !.leg = "braking"]
    BY DEF Flights
  <2>3. q.job = f.job /\ q.suspended = f.suspended /\ q.resume = f.resume /\ q.back = f.back
    BY <2>2 DEF Flights
  <2>4. g = [q EXCEPT !.purpose = "control", !.back = b]
    <3>1. g = [q EXCEPT !.purpose = "control",
                        !.back = IF f.purpose \in Controlled THEN q.back ELSE f.purpose]
      BY <1>3, <2>2, Zenon
    <3>2. (IF f.purpose \in Controlled THEN q.back ELSE f.purpose) = b
      BY <2>1, <2>3 DEF Part
    <3>. QED
      BY <3>1, <3>2, Zenon
  <2>5. /\ g \in Flights /\ g.job = q.job /\ g.suspended = q.suspended /\ g.resume = q.resume
        /\ g.purpose = "control" /\ g.back = b
    BY <2>4 DEF Flights
  <2>. QED
    BY <2>1, <2>3, <2>5 DEF Part, Controlled
<1>4. \/ \E l \in Legs, h \in Helds : g = [f EXCEPT !.leg = l, !.held = h]
      \/ g = [[f EXCEPT !.leg = "braking"] EXCEPT !.purpose = "control",
                  !.back = IF f.purpose \in Controlled THEN @ ELSE f.purpose]
  <2>1. CASE g = [f EXCEPT !.leg = "braking"]
    <3>1. g = [f EXCEPT !.leg = "braking", !.held = f.held]
      BY <2>1 DEF Flights
    <3>. QED
      BY <1>1, <3>1
  <2>2. CASE \E l \in Legs : g = [[f EXCEPT !.leg = l] EXCEPT !.held = IF @ = "no" THEN "control" ELSE @]
    <3>1. PICK l \in Legs : g = [[f EXCEPT !.leg = l] EXCEPT !.held = IF @ = "no" THEN "control" ELSE @]
      BY <2>2
    <3>2. PICK h \in Helds : h = IF f.held = "no" THEN "control" ELSE f.held
      BY <1>1
    <3>3. g = [f EXCEPT !.leg = l, !.held = h]
      BY <3>1, <3>2 DEF Flights
    <3>. QED
      BY <3>3
  <2>3. CASE \E l \in Legs : g = [f EXCEPT !.leg = l, !.held = IF @ = "control" THEN "no" ELSE @]
    <3>1. PICK l \in Legs : g = [f EXCEPT !.leg = l, !.held = IF @ = "control" THEN "no" ELSE @]
      BY <2>3
    <3>2. PICK h \in Helds : h = IF f.held = "control" THEN "no" ELSE f.held
      BY <1>1
    <3>3. g = [f EXCEPT !.leg = l, !.held = h]
      BY <3>1, <3>2, Zenon
    <3>. QED
      BY <3>3
  <2>4. \/ g = [f EXCEPT !.leg = "braking"]
        \/ \E l \in Legs : g = [[f EXCEPT !.leg = l] EXCEPT !.held = IF @ = "no" THEN "control" ELSE @]
        \/ g = [[f EXCEPT !.leg = "braking"] EXCEPT !.purpose = "control",
                    !.back = IF f.purpose \in Controlled THEN @ ELSE f.purpose]
        \/ \E l \in Legs : g = [f EXCEPT !.leg = l, !.held = IF @ = "control" THEN "no" ELSE @]
    BY <1>1 DEF Orders
  <2>. QED
    BY <2>1, <2>2, <2>3, <2>4
<1>. QED
  BY <1>2, <1>3, <1>4

\* Control holds, reroutes or diverts a vehicle, or lets it go on, and it keeps its part.
LEMMA ControlKeeps ==
    ASSUME IInv, NEW v \in Vehicles, Control(v)
    PROVE  IInv' /\ Moved
<1>1. PICK f \in Flights : f = flight[v]
  BY DEF IInv, TypeOK, WorkTypes
<1>2. PICK g \in Orders(f) : flight' = [flight EXCEPT ![v] = g]
  BY <1>1, Zenon DEF Control
<1>3. /\ At("messages") /\ trouble' = trouble + 1
      /\ UNCHANGED <<state, incident, requests, due, turn, written, resumed, fault>>
  BY Zenon DEF Control
<1>4. WaveTypes' /\ stage' # "poll" /\ UNCHANGED <<asked, steps>>
  BY <1>3, AtEffect DEF IInv, TypeOK, WaveTypes, requests
<1>. QED
  BY <1>1, <1>2, <1>3, <1>4, OrdersEffect, FlightKept

\* A charge is over, and what was interrupted goes on.
LEMMA ChargedKeeps ==
    ASSUME IInv, NEW v \in Vehicles, Charged(v)
    PROVE  IInv' /\ Moved
<1>1. PICK f \in Flights : f = flight[v]
  BY DEF IInv, TypeOK, WorkTypes
<1>2. /\ At("messages") /\ f.purpose \in Controlled /\ flight' = [flight EXCEPT ![v] = Restored(f)]
      /\ UNCHANGED <<state, incident, requests, due, turn, written, resumed, fault, trouble>>
  BY <1>1, Zenon DEF Charged
<1>3. /\ Restored(f) \in Flights /\ Restored(f).job = f.job /\ Restored(f).suspended = f.suspended
      /\ Restored(f).resume = f.resume /\ Part(Restored(f)) = Part(f)
  BY <1>2, RestoredEffect
<1>4. WaveTypes' /\ stage' # "poll" /\ UNCHANGED <<asked, steps>>
  BY <1>2, AtEffect DEF IInv, TypeOK, WaveTypes, requests
<1>. QED
  BY <1>1, <1>2, <1>3, <1>4, FlightKept

\* The weather or a charge holds a vehicle, or lets it go.
LEMMA HoldKeeps ==
    ASSUME IInv, NEW v \in Vehicles, Hold(v) \/ Unhold(v)
    PROVE  IInv' /\ Moved
<1>1. PICK f \in Flights : f = flight[v]
  BY DEF IInv, TypeOK, WorkTypes
<1>2. PICK h \in {"no", "weather", "charge"} : flight' = [flight EXCEPT ![v] = [f EXCEPT !.held = h]]
  BY <1>1, Zenon DEF Hold, Unhold
<1> DEFINE g == [f EXCEPT !.held = h]
<1>3. /\ g \in Flights /\ g.job = f.job /\ g.suspended = f.suspended /\ g.resume = f.resume
      /\ Part(g) = Part(f)
  BY DEF Flights, Part
<1>4. flight' = [flight EXCEPT ![v] = g]
  BY <1>2
<1>. HIDE DEF g
<1>5. /\ stage = "new" /\ trouble' \in {trouble, trouble + 1}
      /\ UNCHANGED <<policy, state, incident, requests, wave, written, resumed, fault>>
  BY DEF Hold, Unhold
<1>6. WaveTypes' /\ stage' # "poll" /\ UNCHANGED <<asked, steps, due>>
  BY <1>5 DEF IInv, TypeOK, WaveTypes, requests, wave
<1>. QED
  BY <1>1, <1>3, <1>4, <1>5, <1>6, FlightKept

\* Time passes at an incident.
LEMMA ElapseKeeps ==
    ASSUME IInv, NEW i \in Incidents, Elapse(i)
    PROVE  IInv' /\ Moved
<1>0. PICK r \in Records : r = incident[i]
  BY DEF IInv, TypeOK, WorkTypes
<1> DEFINE waited == [r EXCEPT !.dwell = IF @ = "wait" THEN "over" ELSE @]
           over == [r EXCEPT !.dwell = "over"]
           k == <<i, "response_due">>
<1>1. /\ stage = "new"
      /\ \/ /\ k \in steps /\ steps' = steps \ {k} /\ due' = due \cup {k}
            /\ incident' = [incident EXCEPT ![i] = waited]
         \/ incident' = [incident EXCEPT ![i] = over] /\ UNCHANGED <<steps, due>>
      /\ UNCHANGED <<policy, state, flight, asked, stage, turn, written, resumed, fault, trouble>>
  BY <1>0, Zenon DEF Elapse
<1>2. /\ waited \in Records /\ waited.phase = r.phase /\ waited.responder = r.responder
      /\ waited.choice = r.choice /\ waited.job = r.job /\ waited.helper = r.helper
      /\ waited.point = r.point /\ waited.handoff = r.handoff /\ waited.offers = r.offers
  BY DEF Records
<1>3. /\ over \in Records /\ over.phase = r.phase /\ over.responder = r.responder
      /\ over.choice = r.choice /\ over.job = r.job /\ over.helper = r.helper
      /\ over.point = r.point /\ over.handoff = r.handoff /\ over.offers = r.offers
  BY DEF Records
<1>. HIDE DEF waited, over
<1>4. PICK s \in Records :
         /\ incident' = [incident EXCEPT ![i] = s]
         /\ s.phase = r.phase /\ s.responder = r.responder
         /\ s.choice = r.choice /\ s.job = r.job /\ s.helper = r.helper
         /\ s.point = r.point /\ s.handoff = r.handoff /\ s.offers = r.offers
  BY <1>1, <1>2, <1>3
<1>5. /\ incident' \in [Incidents -> Records] /\ incident'[i] = s
      /\ \A o \in Incidents \ {i} : incident'[o] = incident[o]
  BY <1>4 DEF IInv, TypeOK, WorkTypes
<1>6. steps' \cup due' = steps \cup due /\ k \in Incidents \X Steps
  BY <1>1 DEF Steps
<1>7. \A o, x : Awaits(o, x)' <=> Awaits(o, x)
  BY <1>6 DEF Awaits
<1>8. TypeOK'
  BY <1>1, <1>5, <1>6 DEF IInv, TypeOK, WorkTypes, WaveTypes
<1>9. WaveOK'
  BY <1>1 DEF IInv, Dealings, WaveOK
<1>10. RecordOK(s) /\ StepsOK(i)' /\ AskedOK(i)'
  <2>1. RecordOK(r) /\ StepsOK(i) /\ AskedOK(i)
    BY <1>0 DEF IInv, Dealings, IncidentsOK
  <2>2. RecordOK(s)
    BY <1>4, <2>1 DEF RecordOK, Settled, Live, Open
  <2>3. StepsOK(i)'
    BY <1>0, <1>4, <1>5, <1>7, <2>1 DEF StepsOK, Live, Open
  <2>4. AskedOK(i)'
    BY <1>0, <1>1, <1>4, <1>5, <1>7, <2>1 DEF AskedOK, Live, Settled
  <2>. QED
    BY <2>2, <2>3, <2>4
<1>11. \A w \in Vehicles : /\ Engaged(i, w)' => Engaged(i, w)
                           /\ Responds(i, w) => Responds(i, w)'
                           /\ Drops(i, w) => Drops(i, w)'
                           /\ Fetches(i, w) => Fetches(i, w)'
  BY <1>0, <1>4, <1>5, <1>7 DEF Engaged, Responds, Drops, Fetches, Live, Open
<1>12. DealingsKept({i}, {})
  BY <1>1, <1>5, <1>7, <1>10, <1>11 DEF DealingsKept, AtMostOne
<1>13. Dealings'
  BY <1>8, <1>9, <1>12, DealingsUpdate DEF IInv
<1>14. \A o \in Incidents : SameDeal(o)
  BY <1>0, <1>4, <1>5 DEF SameDeal, Live
<1>15. (\A w \in Vehicles : Keeps(w)) /\ \A j \in Jobs : state'[j] = state[j]
  BY <1>1 DEF Keeps
<1>. QED
  BY <1>8, <1>13, <1>14, <1>15, JobsSame DEF IInv, Moved

\* An incident occurs.
LEMMA OccurKeeps ==
    ASSUME IInv, NEW i \in Incidents, Occur(i)
    PROVE  IInv' /\ Moved
<1>0. PICK r \in Records : r = incident[i]
  BY DEF IInv, TypeOK, WorkTypes
<1> DEFINE s == [r EXCEPT !.phase = "occurred"]
<1>1. /\ At("timers") /\ r.phase = "pending" /\ incident' = [incident EXCEPT ![i] = s]
      /\ Write(Nothing, {<<"incident", i>>})
      /\ UNCHANGED <<flight, requests, due, turn, resumed, trouble>>
  BY <1>0, Zenon DEF Occur
<1>2. /\ s \in Records /\ s.phase = "occurred" /\ s.responder = r.responder
      /\ s.choice = r.choice /\ s.helper = r.helper
      /\ s.handoff = r.handoff /\ s.offers = r.offers
  BY DEF Records
<1>. HIDE DEF s
<1>3. /\ incident' \in [Incidents -> Records] /\ incident'[i] = s
      /\ \A o \in Incidents \ {i} : incident'[o] = incident[o]
  BY <1>1, <1>2 DEF IInv, TypeOK, WorkTypes
<1>4. /\ state' \in [Jobs -> States] /\ fault' \in {"none", "duplicate", "raised"}
      /\ \A j \in Jobs : state'[j] = state[j]
  BY <1>1, WriteNothing DEF IInv
<1>5. /\ policy' = policy /\ stage' = "timers" /\ UNCHANGED <<asked, steps, flight, due, turn, resumed, trouble>>
  BY <1>1, AtEffect DEF requests
<1>6. TypeOK' /\ WaveOK'
  BY <1>3, <1>4, <1>5 DEF IInv, TypeOK, WorkTypes, WaveTypes, Dealings, WaveOK
<1>7. /\ RecordOK(r) /\ StepsOK(i) /\ AskedOK(i) /\ r.handoff = "idle" /\ r.choice = None
  BY <1>0, <1>1 DEF IInv, Dealings, IncidentsOK, RecordOK
<1>8. OthersKept(i)
  BY <1>3, <1>5 DEF OthersKept, Awaits
<1>9. RecordOK(s)
  BY <1>2, <1>7 DEF RecordOK, Settled, Open
<1>10. StepsOK(i)'
  BY <1>0, <1>1, <1>2, <1>3, <1>5, <1>7 DEF StepsOK, Awaits, Live, Open
<1>11. AskedOK(i)'
  BY <1>0, <1>1, <1>2, <1>3, <1>5, <1>7 DEF AskedOK, Live, Settled
<1>12. FairlyEngaged(i)
  BY <1>0, <1>1, <1>2, <1>3 DEF FairlyEngaged, Engaged, Final
<1>13. SoundIncident(i)
  BY <1>3, <1>9, <1>10, <1>11, <1>12 DEF SoundIncident
<1>14. /\ ~Open(incident[i]) /\ ~Open(incident'[i]) /\ \A w \in Vehicles : ~Responds(i, w)
  BY <1>0, <1>1, <1>2, <1>3, <1>7 DEF Open, Responds, Live
<1>. QED
  BY <1>4, <1>5, <1>6, <1>8, <1>13, <1>14, IncidentStep DEF Moved

\* A vehicle that has no part in any incident notices one.
LEMMA NoticeKeeps ==
    ASSUME IInv, NEW k \in DOMAIN Scene, Notice(k)
    PROVE  IInv' /\ Moved
<1>0. PICK i \in Incidents : i = Scene[k]
  BY Turns
<1>1. PICK r \in Records : r = incident[i]
  BY DEF IInv, TypeOK, WorkTypes
<1>2. /\ Turn(Fleets + k) /\ turn' = Fleets + k + 1 /\ resumed' = resumed /\ r.phase = "occurred"
      /\ \E v \in policy.watchers :
            LET s == [r EXCEPT !.responder = v, !.phase = "noticed"] IN
            /\ ~Reserved(v)
            /\ \/ /\ Put(i, s, v, flight[v]) /\ Write(Nothing, {<<"incident", i>>})
                  /\ steps' = steps \cup {<<i, "decide">>} /\ asked' = asked
               \/ Ask(i, s, {<<"incident", i>>})
  BY <1>0, <1>1, Zenon DEF Notice
<1>3. policy.watchers \subseteq Vehicles
  BY PoliciesAssumption DEF IInv, TypeOK, WaveTypes
<1>4. PICK v \in Vehicles :
            LET s == [r EXCEPT !.responder = v, !.phase = "noticed"] IN
            /\ ~Reserved(v)
            /\ \/ /\ Put(i, s, v, flight[v]) /\ Write(Nothing, {<<"incident", i>>})
                  /\ steps' = steps \cup {<<i, "decide">>} /\ asked' = asked
               \/ Ask(i, s, {<<"incident", i>>})
  BY <1>2, <1>3, Zenon
<1> DEFINE s == [r EXCEPT !.responder = v, !.phase = "noticed"]
           asks == [s EXCEPT !.choice = None]
<1>5. \/ /\ Put(i, s, v, flight[v]) /\ Write(Nothing, {<<"incident", i>>})
         /\ steps' = steps \cup {<<i, "decide">>} /\ asked' = asked
      \/ /\ incident' = [incident EXCEPT ![i] = asks] /\ flight' = flight
         /\ asked' = asked \cup {<<i, s.responder, "responder">>} /\ steps' = steps
         /\ Write(Nothing, {<<"incident", i>>})
  BY <1>4, Zenon DEF Ask
<1>6. /\ RecordOK(r) /\ StepsOK(i) /\ AskedOK(i) /\ r.handoff = "idle" /\ r.choice = None
  BY <1>1, <1>2 DEF IInv, Dealings, IncidentsOK, RecordOK
<1>7. /\ s \in Records /\ s.responder = v /\ s.phase = "noticed"
      /\ s.choice = None /\ s.handoff = "idle"
  BY <1>6 DEF Records
<1>. HIDE DEF s
<1>8. asks \in Records /\ asks.responder = v /\ asks.phase = "noticed"
      /\ asks.choice = None /\ asks.handoff = "idle"
  BY <1>7, ChoiceRecord
<1>. HIDE DEF asks
<1>9. flight' = flight /\ Write(Nothing, {<<"incident", i>>})
  BY <1>5 DEF IInv, TypeOK, WorkTypes, Put
<1>10. PICK q \in Records :
          /\ incident' = [incident EXCEPT ![i] = q] /\ q.responder = v /\ q.phase = "noticed"
          /\ q.choice = None /\ q.handoff = "idle"
  BY <1>5, <1>7, <1>8 DEF Put
<1>11. /\ incident' \in [Incidents -> Records] /\ incident'[i] = q
       /\ \A o \in Incidents \ {i} : incident'[o] = incident[o]
  BY <1>10 DEF IInv, TypeOK, WorkTypes
<1>12. \/ steps' = steps \cup {<<i, "decide">>} /\ asked' = asked
       \/ steps' = steps /\ asked' = asked \cup {<<i, v, "responder">>}
  BY <1>5, <1>7
<1>13. /\ state' \in [Jobs -> States] /\ fault' \in {"none", "duplicate", "raised"}
       /\ \A j \in Jobs : state'[j] = state[j]
  BY <1>9, WriteNothing DEF IInv
<1>14. /\ policy' = policy /\ due' = due /\ stage' = stage /\ trouble' = trouble
       /\ due = {} /\ due' = {}
  BY <1>2, TurnEffect
<1>15. asked' \subseteq Incidents \X Vehicles \X {"responder", "helper"} /\ steps' \subseteq Incidents \X Steps
  BY <1>12 DEF IInv, TypeOK, WorkTypes, Steps
<1>16. TypeOK' /\ WaveOK'
  BY <1>2, <1>9, <1>11, <1>13, <1>14, <1>15, Turns
  DEF IInv, TypeOK, WorkTypes, WaveTypes, Dealings, WaveOK
<1>17. OthersKept(i)
  BY <1>11, <1>12, <1>14 DEF OthersKept, Awaits
<1>18. RecordOK(q)
  BY <1>10 DEF RecordOK, Settled, Open
<1>19. StepsOK(i)'
  <2>1. \A x \in {"select", "start_helper"} : ~Awaits(i, x)'
    BY <1>1, <1>6, <1>12, <1>14 DEF StepsOK, Awaits, Open
  <2>. QED
    BY <1>10, <1>11, <2>1 DEF StepsOK, Live
<1>20. AskedOK(i)'
  <2>1. \A w \in Vehicles : <<i, w, "responder">> \notin asked /\ <<i, w, "helper">> \notin asked
    BY <1>1, <1>2, <1>6 DEF AskedOK, Live
  <2>2. ~Awaits(i, "decide")
    BY <1>1, <1>2, <1>6 DEF StepsOK, Live
  <2>. QED
    BY <1>10, <1>11, <1>12, <1>14, <2>1, <2>2 DEF AskedOK, Awaits, Live, Settled
<1>21. FairlyEngaged(i)
  BY <1>4, <1>10, <1>11 DEF FairlyEngaged, Engaged, Reserved
<1>22. SoundIncident(i)
  BY <1>11, <1>18, <1>19, <1>20, <1>21 DEF SoundIncident
<1>23. /\ ~Open(incident[i]) /\ ~Open(incident'[i]) /\ \A w \in Vehicles : ~Responds(i, w)
  BY <1>1, <1>2, <1>6, <1>10, <1>11 DEF Open, Responds, Live
<1>. QED
  BY <1>9, <1>13, <1>16, <1>17, <1>22, <1>23, IncidentStep DEF Moved

\* A poll begins, and jobs are released.
LEMMA PollKeeps ==
    ASSUME IInv, Poll
    PROVE  IInv' /\ Moved
<1> DEFINE new == [j \in {k \in policy.jobs : state[k] = "unreleased"} |-> "queued"]
<1>1. /\ Write(new, {}) /\ stage' = "poll" /\ turn' = 1 /\ due = {}
      /\ UNCHANGED <<policy, flight, incident, requests, due, resumed, trouble>>
  BY Zenon DEF Poll
<1>2. /\ state' \in [Jobs -> States] /\ fault' \in {"none", "duplicate", "raised"}
      /\ \A j \in Jobs : state'[j] = IF j \in DOMAIN new THEN new[j] ELSE state[j]
  <2>1. \A j \in DOMAIN new : new[j] \in States
    BY DEF States
  <2>. HIDE DEF new
  <2>. QED
    BY <1>1, <2>1, WriteEffect DEF IInv
<1>3. \A j \in Jobs : state'[j] = state[j] \/ (state[j] = "unreleased" /\ state'[j] = "queued")
  BY <1>2
<1>. HIDE DEF new
<1>4. TypeOK' /\ WaveOK' /\ asked' = asked /\ steps' = steps
  BY <1>1, <1>2 DEF IInv, TypeOK, WorkTypes, WaveTypes, Dealings, WaveOK, requests
<1>5. \A w \in Vehicles : Keeps(w)
  BY <1>1 DEF Keeps
<1>6. DealingsKept({}, {})
  BY <1>1, <1>4 DEF DealingsKept, AtMostOne, Awaits
<1>7. \A j \in Jobs : (\E w \in Vehicles : Has(w, j)) => state'[j] = state[j]
  <2>1. ASSUME NEW w \in Vehicles, NEW j \in Jobs, Has(w, j) PROVE state[j] # "unreleased"
    BY <2>1, HeldJob DEF Active
  <2>. QED
    BY <1>3, <2>1
<1>8. \A o \in Incidents, j \in Jobs : Deal(o, j) => Goes(o, j)'
  BY <1>1, <1>3 DEF IInv, CustodyOK, DealsOK, DealOK, Goes, Loose
<1>9. JobsKept({}, {})
  <2>1. \A j \in Jobs : state'[j] \in Loose \/ state[j] \notin Loose
    BY <1>3 DEF Loose
  <2>. QED
    BY <1>1, <1>5, <1>7, <1>8, <2>1 DEF JobsKept, AtMostOne
<1>10. IInv'
  BY <1>4, <1>6, <1>9, DealingsUpdate, CustodyUpdate DEF IInv
<1>11. \A j \in Jobs : Stays(j)
  BY <1>1, <1>3 DEF Stays, Has, Deal
<1>. QED
  BY <1>10, <1>11 DEF Moved

\* The callback returns: the steps that it has deferred become due.
LEMMA CommitKeeps ==
    ASSUME IInv, Commit
    PROVE  IInv' /\ Moved
<1>1. /\ due = {} /\ stage' = "new" /\ turn' = 0 /\ resumed' = {}
      /\ UNCHANGED <<policy, state, flight, incident, asked, fault, trouble>>
      /\ steps' = {k \in steps : Clock(k[2])} /\ due' = steps \ {k \in steps : Clock(k[2])}
  BY DEF Commit, work
<1>2. steps' \cup due' \subseteq steps \cup due /\ steps' \cap due' = {}
      /\ steps' \subseteq steps /\ due' \subseteq steps
  BY <1>1
<1>3. TypeOK' /\ WaveOK'
  BY <1>1, <1>2 DEF IInv, TypeOK, WorkTypes, WaveTypes, WaveOK
<1>4. \A w \in Vehicles : Keeps(w)
  BY <1>1 DEF Keeps
<1>. QED
  BY <1>1, <1>2, <1>3, <1>4, Quiet DEF Moved

-----------------------------------------------------------------------------
(* The invariant.                                                          *)

\* Nothing has happened yet.
LEMMA InitHolds ==
    ASSUME Init
    PROVE  IInv
<1>1. /\ Parked \in Flights /\ Parked.job = None /\ Parked.suspended = None /\ Parked.purpose = "task"
  BY DEF Parked, Flights
<1>2. /\ Pending \in Records /\ Pending.phase = "pending" /\ Pending.responder = None
      /\ Pending.choice = None /\ Pending.handoff = "idle" /\ Pending.helper = None
  <2>1. <<>> \in [{} -> Answers]
    OBVIOUS
  <2>2. <<>> \in UNION {[C -> Answers] : C \in SUBSET Vehicles}
    BY <2>1
  <2>3. Pending.offers = <<>>
    BY DEF Pending
  <2>. QED
    BY <2>2 DEF Pending, Records
<1>. HIDE DEF Parked, Pending
<1>3. /\ policy \in Policies /\ state = [j \in Jobs |-> "unreleased"]
      /\ flight = [v \in Vehicles |-> Parked] /\ incident = [i \in Incidents |-> Pending]
      /\ asked = {} /\ steps = {} /\ due = {} /\ stage = "new" /\ turn = 0
      /\ written = {} /\ resumed = {} /\ fault = "none" /\ trouble = 0
  BY DEF Init
<1>4. TypeOK
  BY <1>1, <1>2, <1>3 DEF TypeOK, WorkTypes, WaveTypes, States
<1>5. \A i, v : ~Awaits(i, v)
  BY <1>3 DEF Awaits
<1>6. \A v \in Vehicles : /\ flight[v].job = None /\ flight[v].suspended = None
                          /\ Part(flight[v]) = "task"
  BY <1>1, <1>3 DEF Part, Controlled
<1>7. \A i \in Incidents : incident[i] = Pending
  BY <1>3
<1>8. \A i \in Incidents, v \in Vehicles : ~Engaged(i, v)
  <2>1. DOMAIN Pending.offers \subseteq Vehicles
    BY <1>2 DEF Records
  <2>. QED
    BY <1>2, <1>7, NamesAssumption DEF Engaged
<1>9. Dealings
  <2>1. RecordOK(Pending)
    BY <1>2 DEF RecordOK, Settled, Open
  <2>2. IncidentsOK
    BY <1>3, <1>5, <1>7, <2>1 DEF IncidentsOK, StepsOK, AskedOK
  <2>. QED
    BY <1>3, <1>6, <1>8, <2>2 DEF Dealings, OneEngagement, WaveOK, Missions, MissionOK
<1>10. CustodyOK
  <2>1. \A v \in Vehicles, j \in Jobs : ~Has(v, j)
    BY <1>6, NamesAssumption DEF Has
  <2>2. \A i \in Incidents, j \in Jobs : ~Deal(i, j)
    BY <1>2, <1>7 DEF Deal, Open
  <2>3. \A i \in Incidents, v \in Vehicles : ~Drops(i, v)
    BY <1>2, <1>7 DEF Drops, Live
  <2>4. FlightsOK
    BY <1>6 DEF FlightsOK, FlightOK
  <2>5. NotLost
    BY <1>3 DEF NotLost, Loose
  <2>. QED
    BY <2>1, <2>2, <2>3, <2>4, <2>5 DEF CustodyOK, OneHolder, DealsOK, OneDeal, Parcels
<1>. QED
  BY <1>4, <1>9, <1>10 DEF IInv

\* Every action keeps the invariant, and moves at most one job, as it is promised.
LEMMA NextKeeps ==
    ASSUME IInv, Next
    PROVE  IInv' /\ Moved
<1>1. CASE Poll \/ Commit
  BY <1>1, PollKeeps, CommitKeeps
<1>2. CASE \E k \in DOMAIN Fleet : FollowUpTurn(k) \/ FlightTurn(k)
  BY <1>2, FollowUpTurnStep, FlightTurnStep
<1>3. CASE \E k \in DOMAIN Scene : Notice(k)
  BY <1>3, NoticeKeeps
<1>4. CASE \E v \in Vehicles : Receipt(v) \/ TripFails(v) \/ Control(v) \/ Charged(v)
                               \/ Hold(v) \/ Unhold(v)
  BY <1>4, ReceiptKeeps, TripFailsStep, ControlKeeps, ChargedKeeps, HoldKeeps
<1>5. CASE \E i \in Incidents : Reply(i) \/ Elapse(i) \/ Occur(i)
  BY <1>5, ReplyKeeps, ElapseKeeps, OccurKeeps
<1>6. CASE \E i \in Incidents, s \in Steps : Step(i, s)
  BY <1>6, StepKeeps
<1>7. CASE \E j \in Jobs, v \in Vehicles : Preempt(j, v) \/ Assign(j, v)
  BY <1>7, PreemptStep, AssignStep
<1>. QED
  BY <1>1, <1>2, <1>3, <1>4, <1>5, <1>6, <1>7 DEF Next

\* Nothing happens.
LEMMA StutterKeeps ==
    ASSUME IInv, UNCHANGED vars
    PROVE  IInv' /\ Moved
<1>1. UNCHANGED <<policy, state, flight, incident, asked, steps, due, stage, turn,
                  written, resumed, fault, trouble>>
  BY DEF vars, work, requests, wave
<1>2. TypeOK' /\ WaveOK'
  BY <1>1 DEF IInv, TypeOK, WorkTypes, WaveTypes, Dealings, WaveOK
<1>3. \A w \in Vehicles : Keeps(w)
  BY <1>1 DEF Keeps
<1>. QED
  BY <1>1, <1>2, <1>3, Quiet DEF Moved

\* What is pending about every incident agrees with how far it has got, every vehicle has a
\* reason for what it is about, and every job is with one vehicle, or agreed upon, or over:
\* whatever the handlers of tasks.py do, in any order of waves, answers and failures.
THEOREM CooperationInvariant == Spec => []IInv
<1>1. Init => IInv
  BY InitHolds
<1>2. IInv /\ [Next]_vars => IInv'
  BY NextKeeps, StutterKeeps
<1>. QED
  BY <1>1, <1>2, PTL DEF Spec

\* The variables of the task engine have their types.
THEOREM CooperationTypes == Spec => []TypeOK
<1>1. IInv => TypeOK
  BY DEF IInv
<1>. QED
  BY <1>1, CooperationInvariant, PTL

\* No vehicle is promised to two incidents, whether it responds to one, helps in one or is
\* asked in one (_coop_reserved, _coop_candidate): for any fleet and any number of incidents.
THEOREM NoDoubleEngagement == Spec => []OnePart
<1>1. ASSUME IInv PROVE OnePart
  <2>1. ASSUME NEW v \in Vehicles
        PROVE  Cardinality({i \in Incidents : Engaged(i, v)}) <= 1
    <3> DEFINE S == {i \in Incidents : Engaged(i, v)}
    <3>1. \A i, o \in S : i = o
      BY <1>1 DEF IInv, Dealings, OneEngagement
    <3>2. CASE S = {}
      BY <3>2, FS_EmptySet
    <3>3. CASE S # {}
      <4>1. PICK i : S = {i}
        BY <3>1, <3>3
      <4>. QED
        BY <4>1, FS_Singleton
    <3>. QED
      BY <3>2, <3>3
  <2>. QED
    BY <2>1 DEF OnePart
<1>. QED
  BY <1>1, CooperationInvariant, PTL
=============================================================================
