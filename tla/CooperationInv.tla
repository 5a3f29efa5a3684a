--------------------------- MODULE CooperationInv ---------------------------
(***************************************************************************)
(* The inductive invariant of Cooperation, in three layers.  Dealings:     *)
(* what is pending about an incident agrees with how far it has got, and   *)
(* every vehicle that is not on a task of its own has an incident to be    *)
(* on.  Custody of jobs: who has a job, and which agreement accounts for a *)
(* job that nobody has.  Facts: what a wave has written, and why it does   *)
(* not write it again; these rest on the other two.                        *)
(***************************************************************************)
EXTENDS Cooperation

\* What a flight is about, whether or not control has interrupted it.
Part(f) == IF f.purpose \in Controlled THEN f.back ELSE f.purpose

Live(r) == r.phase \in {"noticed", "responding"}
Open(r) == r.handoff \in {"accepted", "dropped"}
Settled(r) == r.handoff \in {"idle", "declined", "failed"}
Awaits(i, s) == <<i, s>> \in steps \cup due
-----------------------------------------------------------------------------
(* Dealings.                                                               *)

OneEngagement ==
    \A v \in Vehicles, i, o \in Incidents : Engaged(i, v) /\ Engaged(o, v) => i = o

\* A record agrees with itself.
RecordOK(r) ==
    /\ r.phase \in {"pending", "occurred"} => r.handoff = "idle" /\ r.choice = None
    /\ r.phase \notin {"pending", "occurred"} => r.responder \in Vehicles
    /\ ~Settled(r) => r.choice = "request_handoff" /\ r.job \in Jobs
    /\ r.handoff = "requested" => Live(r)
    /\ Open(r) => r.helper \in Vehicles

\* A step is pending only where it is due, and only once.
StepsOK(i) ==
    LET r == incident[i]
    IN /\ Awaits(i, "decide") => r.handoff = "idle" /\ r.choice = None /\ Live(r)
       /\ Awaits(i, "select") => r.handoff = "requested"
                                 /\ \A h \in DOMAIN r.offers : r.offers[h] # "open"
       /\ Awaits(i, "start_helper") => Open(r)
       /\ Awaits(i, "response_due") => r.responder \in Vehicles

\* Only those are asked whose answer is waited for.
AskedOK(i) ==
    LET r == incident[i]
    IN \A v \in Vehicles :
        /\ <<i, v, "responder">> \in asked =>
               /\ v = r.responder /\ Live(r) /\ r.choice = None /\ Settled(r)
               /\ ~Awaits(i, "decide")
        /\ <<i, v, "helper">> \in asked =>
               r.handoff = "requested" /\ v \in DOMAIN r.offers /\ r.offers[v] = "open"

IncidentsOK == \A i \in Incidents : RecordOK(incident[i]) /\ StepsOK(i) /\ AskedOK(i)

WaveOK == steps \cap due = {} /\ (stage = "poll" => due = {})

\* The incident that v responds to, leaves its parcel for, or picks a parcel up for.
Responds(i, v) ==
    LET r == incident[i]
    IN r.responder = v /\ Live(r) /\ r.choice # None /\ r.handoff # "requested"
Drops(i, v) ==
    LET r == incident[i]
    IN r.responder = v /\ Live(r) /\ r.handoff = "accepted" /\ r.point
Fetches(i, v) ==
    LET r == incident[i]
    IN r.helper = v /\ Open(r) /\ r.point /\ ~Awaits(i, "start_helper")

MissionOK(v) ==
    /\ Part(flight[v]) = "incident_response" => \E i \in Incidents : Responds(i, v)
    /\ Part(flight[v]) = "handoff_drop" => \E i \in Incidents : Drops(i, v)
    /\ Part(flight[v]) = "handoff_pickup" => \E i \in Incidents : Fetches(i, v)
Missions == \A v \in Vehicles : MissionOK(v)

Dealings == OneEngagement /\ IncidentsOK /\ WaveOK /\ Missions
-----------------------------------------------------------------------------
(* Custody of jobs.                                                        *)

Active == {"assigned", "started", "picked_up"}
Loose == {"unreleased", "queued", "completed", "failed"}
Has(v, j) == flight[v].job = j \/ flight[v].suspended = j
Deal(i, j) == Open(incident[i]) /\ incident[i].job = j

\* What a vehicle has is in a state that agrees with it, and nobody else has it.
FlightOK(f) ==
    /\ f.job # None => state[f.job] \in Active
    /\ f.suspended # None => state[f.suspended] = "paused" /\ f.resume \in Active
    /\ Part(f) \in {"incident_response", "handoff_pickup"} => f.job = None
    /\ Part(f) = "handoff_drop" => f.suspended = None
FlightsOK == \A v \in Vehicles : FlightOK(flight[v])
OneHolder ==
    \A v, w \in Vehicles, j \in Jobs : Has(v, j) /\ Has(w, j) => v = w

\* A job that nobody has is new, or over, or agreed upon; one that is agreed upon has been
\* left already, or is being brought to the point, or has failed on that way.
NotLost == \A j \in Jobs :
    state[j] \in Loose \/ (\E v \in Vehicles : Has(v, j)) \/ \E i \in Incidents : Deal(i, j)
Goes(i, j) ==
    \/ state[j] \notin Loose
    \/ state[j] = "failed" /\ incident[i].handoff = "accepted" /\ incident[i].point
DealOK(i, j) ==
    /\ Goes(i, j)
    /\ \A v \in Vehicles : Has(v, j) =>
           /\ v = incident[i].responder /\ Part(flight[v]) = "handoff_drop"
           /\ incident[i].point
DealsOK == \A i \in Incidents, j \in Jobs : Deal(i, j) => DealOK(i, j)
OneDeal == \A i, o \in Incidents, j \in Jobs : Deal(i, j) /\ Deal(o, j) => i = o
Parcels == \A i \in Incidents, v \in Vehicles :
    Drops(i, v) /\ Part(flight[v]) = "handoff_drop" => flight[v].job \in {incident[i].job, None}

CustodyOK == FlightsOK /\ OneHolder /\ NotLost /\ DealsOK /\ OneDeal /\ Parcels

-----------------------------------------------------------------------------
(* Facts: what this wave has written, and why it is not written again.      *)

Wrote(j) == <<"task", j>> \in written

\* v has had its turn in this poll.
Turned(v) == stage = "poll" /\ \E k \in DOMAIN Fleet : Fleet[k] = v /\ Preempting + k < turn

\* v has a decision to make in this wave.
Decides(v) == \E i \in Incidents :
    incident[i].responder = v /\ (<<i, "decide">> \in due \/ <<i, "select">> \in due)

\* The wave is empty to begin with; trips that fail come first.
FreshOK ==
    /\ stage = "new" => written = {}
    /\ resumed # {} => stage \in {"timers", "deferred", "poll"}
    /\ \A j \in Jobs : Wrote(j) => state[j] # "unreleased"
                                   /\ (stage = "receipts" => state[j] \in Loose)

\* Whoever has a job that was written does nothing more about it, unless it is preempted.
HeldOK(v) ==
    LET f == flight[v]
    IN /\ f.job # None /\ Wrote(f.job) =>
              \/ stage = "deferred" /\ ~Decides(v)
              \/ stage \in {"timers", "poll"} /\ v \in resumed
              \/ stage = "poll" /\ Busy(f) /\ f.job \in policy.urgent
              \/ Turned(v)
       /\ f.suspended # None /\ Wrote(f.suspended) => Busy(f) \/ Turned(v)

\* What this wave has seen fail is not at the point.
Spoilt(i) ==
    LET r == incident[i]
    IN /\ state[r.job] = "failed" /\ r.handoff = "accepted" /\ r.point
       /\ flight[r.responder].leg # "there"
       /\ stage = "receipts" => flight[r.responder].leg = "idle"

\* Nor is an agreement carried out in the wave that wrote its job.
HandoffOK(i) ==
    LET r == incident[i]
        facts == <<"handoff", i>> \in written
    IN /\ Open(r) /\ Wrote(r.job) =>
              \/ Turned(r.responder) \/ (stage = "deferred" /\ <<i, "start_helper">> \notin due)
              \/ Spoilt(i)
       /\ facts => \A s \in {"decide", "select", "start_helper"} : <<i, s>> \notin due
       /\ facts /\ stage \in {"receipts", "messages"} => r.handoff = "requested"
       /\ facts /\ Open(r) => stage = "deferred" \/ Wrote(r.job)

\* An incident goes through one stage in a wave.
StageOK(i) ==
    LET r == incident[i]
    IN /\ r.phase = "responding" => r.choice # None /\ r.handoff # "requested"
       /\ <<"incident", i>> \in written =>
              \/ r.phase \in Final \cup {"occurred"}
              \/ r.phase = "noticed" /\ r.choice = None /\ stage = "poll"
              \/ /\ r.phase = "responding"
                 /\ \/ Turned(r.responder)
                    \/ /\ stage \in {"timers", "poll"} /\ r.dwell \in {"wait", "late"}
                       /\ flight[r.responder].purpose = "incident_response"
                       /\ flight[r.responder].leg = "there"

\* Without hovering, a response ends in the wave after it began.
PromptOK(i) ==
    ~policy.hover /\ Awaits(i, "response_due") =>
        /\ incident[i].phase = "responding" /\ incident[i].dwell = "over"
        /\ <<i, "response_due">> \in steps => Turned(incident[i].responder)

WrittenOK == fault = "none" =>
    /\ FreshOK
    /\ \A v \in Vehicles : HeldOK(v)
    /\ \A i \in Incidents : HandoffOK(i) /\ StageOK(i) /\ PromptOK(i)

IInv == TypeOK /\ Dealings /\ CustodyOK
=============================================================================
