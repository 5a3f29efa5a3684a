--------------------------- MODULE MCCooperation ---------------------------
(***************************************************************************)
(* Instances of Cooperation for TLC: three vehicles, two incidents and two *)
(* jobs, of which each policy uses as many as its question needs.          *)
(***************************************************************************)
EXTENDS Cooperation

CONSTANTS a, b, c, fire, flood, j1, j2

ThreeVehicles == <<a, b, c>>
TwoIncidents == <<fire, flood>>

\* Everybody decides by rule; one incident, two jobs, no trouble.
Rules == [
    agents |-> {}, order |-> <<"request_handoff", "respond_now", "finish_then_respond">>,
    replace |-> FALSE, always |-> TRUE, points |-> TRUE, hover |-> TRUE,
    protected |-> {}, urgent |-> {},
    watchers |-> {a, b}, helpers |-> {a, b}, couriers |-> {a, b},
    jobs |-> {j1, j2}, incidents |-> {fire}, trouble |-> 0, hit |-> {a, b}]

\* One job between two incidents that either vehicle may notice.
TwoAtOnce == [Rules EXCEPT !.jobs = {j1}, !.incidents = {fire, flood}]

\* Models decide, late or badly, and a job may not be left without a replacement.
ByModel == [Rules EXCEPT !.agents = {"responder", "helper"}, !.replace = TRUE, !.watchers = {a}]

\* Two helpers are asked, and may answer in any order.
TwoHelpers == [Rules EXCEPT !.agents = {"helper"}, !.helpers = {b, c}, !.watchers = {a},
                            !.jobs = {j1}, !.couriers = {a}]

\* A trip fails, control intervenes, or the weather or a charge holds a vehicle: during a
\* hand-over, and with an urgent job and no hovering.
Troubled == [Rules EXCEPT !.jobs = {j1}, !.watchers = {a}, !.couriers = {a}, !.trouble = 1]
TroubledUrgent == [Rules EXCEPT !.always = FALSE, !.hover = FALSE, !.urgent = {j2}, !.trouble = 1,
                     !.watchers = {a}, !.helpers = {b}, !.couriers = {a},
                     !.order = <<"finish_then_respond", "request_handoff", "respond_now">>]

\* Two of these, of the vehicle that hands over: control sends it away and that trip fails, and
\* the run stops or its charge lets it fly on.
Stranding == [Troubled EXCEPT !.hover = FALSE, !.helpers = {b}, !.trouble = 2, !.hit = {a}]

\* An urgent job interrupts a vehicle that has hovered over an incident.
Urgent == [Rules EXCEPT !.urgent = {j2}, !.helpers = {}, !.watchers = {a}]

\* A job that may be neither interrupted nor handed over, and no place to hand over at.
Protected == [Rules EXCEPT !.protected = {j2}, !.points = FALSE, !.replace = TRUE,
                           !.order = <<"respond_now", "request_handoff">>]

AllPolicies ==
    {TwoAtOnce, ByModel, TwoHelpers, Troubled, TroubledUrgent, Stranding, Urgent, Protected}
=============================================================================
