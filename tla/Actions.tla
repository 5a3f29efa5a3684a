------------------------------- MODULE Actions -------------------------------
(***************************************************************************)
(* The life of commands and cancellations in the kernel                    *)
(* (aerokernel/messages.py class Actions, with the parts of control.py,    *)
(* transactions.py, scheduling.py and coordinator.py that move it on).     *)
(*                                                                         *)
(* Host calls change the store between waves.  A wave first publishes its  *)
(* dispatches, then applies the batches of its partitions to a candidate,  *)
(* one operation at a time in canonical order of the partitions; it is     *)
(* published whole, or dropped with a fault when one operation is refused. *)
(*                                                                         *)
(* Left out: time (Coordinator), payloads and result schemas, and the      *)
(* journal's own identities: a receipt head is the number of items that    *)
(* have become head, and whether an operation cites the current head and   *)
(* the dispatch among its causes is one Boolean.                           *)
(***************************************************************************)
EXTENDS Naturals

CONSTANTS
    Partitions,    \* independently scheduled authorities
    Rank,          \* canonical order of the partitions of a wave
    Commands,      \* identities that commands may get
    Cancels,       \* identities that cancel messages may get
    Host,          \* the control source of the host
    Source,        \* Source[c]: the partition that emits c, or Host
    Target,        \* Target[c]: the partition that c is addressed to
    CancelSources, \* sources that may cancel any command
    Supporting,    \* commands whose descriptor supports cancellation
    Lean,          \* provenance "lean": causes are not checked
    MaxOps,        \* bound on the operations of one batch
    None

ASSUME ActionsAssumption ==
    /\ Rank \in [Partitions -> Nat] /\ Host \notin Partitions
    /\ Source \in [Commands -> Partitions \cup {Host}]
    /\ Target \in [Commands -> Partitions]
    /\ CancelSources \subseteq Partitions \cup {Host}
    /\ Supporting \subseteq Commands /\ Lean \in BOOLEAN
    /\ Commands \cap Cancels = {} /\ MaxOps \in Nat
    /\ None \notin [cmd : Commands, by : Partitions \cup {Host}]

VARIABLES
    store,  \* the published ledger
    draft,  \* the candidate ledger of the wave in progress, else the store
    wave,   \* invoked partitions whose batches are not applied yet
    ops,    \* operations applied of the batch in turn
    fault   \* the run is faulted

vars == <<store, draft, wave, ops, fault>>

Messages == Commands \cup Cancels

Status == {"new", "pending", "submitted", "accepted", "executing", "canceling",
           "rejected", "succeeded", "failed", "canceled"}

Terminal == {"rejected", "succeeded", "failed", "canceled"}

Ledger ==
    [status : [Commands -> Status],
     place : [Messages -> {"none", "reserved", "queued", "dispatched"}],
     head : [Commands -> Nat],        \* 0: no receipt yet
     cancelHead : [Commands -> Nat],  \* head of the accepted decision, or 0
     request : [Cancels -> [cmd : Commands, by : Partitions \cup {Host}] \cup {None}],
     verdict : [Cancels -> {"none", "accepted", "rejected"}],
     told : [Cancels -> Nat]]         \* decisions routed to the requester

\* A bug the checks have to find: a canceling command may still succeed.
TransitionsLate ==
    [s \in Status |->
        CASE s = "submitted" -> {"accepted", "rejected"}
          [] s = "accepted"  -> {"executing", "failed", "canceling"}
          [] s = "executing" -> {"succeeded", "failed", "canceling"}
          [] s = "canceling" -> {"canceled", "failed", "succeeded"}
          [] OTHER           -> {}]

\* The table TRANSITIONS; a reserved command is not in it.
Transitions ==
    [s \in Status |->
        CASE s = "submitted" -> {"accepted", "rejected"}
          [] s = "accepted"  -> {"executing", "failed", "canceling"}
          [] s = "executing" -> {"succeeded", "failed", "canceling"}
          [] s = "canceling" -> {"canceled", "failed"}
          [] OTHER           -> {}]
-----------------------------------------------------------------------------
(* Operations on a ledger.                                                 *)

\* Actions.submit: enqueueing creates the submitted status and its receipt.
Submitted(l, c) ==
    [l EXCEPT !.place[c] = "queued", !.status[c] = "submitted", !.head[c] = 1]

\* A bug: the target alone is authority enough, dispatched or not.
AuthorizedUndispatched(l, p, c, m, cites) ==
    Target[c] = p /\ l.head[c] > 0 /\ (cites \/ Lean)

\* _authorized: the target cites the head and the dispatch of message m.
Authorized(l, p, c, m, cites) ==
    /\ Target[c] = p /\ l.head[c] > 0 /\ l.place[m] = "dispatched"
    /\ cites \/ Lean

ReceiptAllowed(l, p, c, s, cites) ==
    /\ IF l.status[c] = "canceling"
       THEN Target[c] = p /\ (cites \/ Lean) /\ l.cancelHead[c] = l.head[c]
       ELSE Authorized(l, p, c, c, cites)
    /\ s \in Transitions[l.status[c]] /\ s # "canceling"

Received(l, c, s) == [l EXCEPT !.status[c] = s, !.head[c] = @ + 1]

FeedbackAllowed(l, p, c, cites) ==
    Authorized(l, p, c, c, cites) /\ l.status[c] \in {"executing", "canceling"}

\* A bug: a cancellation is accepted whatever became of its command.
DecisionAllowedAnytime(l, p, c, k, accepted, cites) ==
    /\ Authorized(l, p, c, k, cites)
    /\ l.request[k].cmd = c /\ l.verdict[k] = "none"

DecisionAllowed(l, p, c, k, accepted, cites) ==
    /\ Authorized(l, p, c, k, cites)
    /\ l.request[k].cmd = c /\ l.verdict[k] = "none"
    /\ accepted => l.status[c] \in {"accepted", "executing"}

\* A bug: the route to a third party is forgotten.
DecisionRoutesToSource(l, c, k) ==
    IF Source[c] \in Partitions /\ l.request[k].by = Source[c] THEN 1 ELSE 0

\* A decision is routed to the source of the command, and to the requester
\* of the cancellation if that is another partition.
DecisionRoutes(l, c, k) ==
    LET by == l.request[k].by
    IN  (IF Source[c] \in Partitions /\ by = Source[c] THEN 1 ELSE 0)
        + (IF by \in Partitions /\ by # Source[c] THEN 1 ELSE 0)

Decided(l, c, k, accepted) ==
    LET told == [l EXCEPT !.verdict[k] = IF accepted THEN "accepted" ELSE "rejected",
                          !.told[k] = @ + DecisionRoutes(l, c, k)]
    IN  IF accepted
        THEN [told EXCEPT !.status[c] = "canceling", !.head[c] = @ + 1,
                          !.cancelHead[c] = l.head[c] + 1]
        ELSE told

MayCancel(l, by, c) ==
    /\ by = Source[c] \/ by \in CancelSources
    /\ l.status[c] \in {"accepted", "executing"} /\ c \in Supporting

Requested(l, by, c, k, place) ==
    [l EXCEPT !.request[k] = [cmd |-> c, by |-> by], !.place[k] = place]
-----------------------------------------------------------------------------
(* Host calls and boundaries, between waves.                               *)

Init ==
    /\ store = [status |-> [c \in Commands |-> "new"],
                place |-> [m \in Messages |-> "none"],
                head |-> [c \in Commands |-> 0],
                cancelHead |-> [c \in Commands |-> 0],
                request |-> [k \in Cancels |-> None],
                verdict |-> [k \in Cancels |-> "none"],
                told |-> [k \in Cancels |-> 0]]
    /\ draft = store
    /\ wave = {} /\ ops = 0 /\ fault = FALSE

Idle == wave = {} /\ ~fault

Publish(l) == store' = l /\ draft' = l /\ UNCHANGED <<ops, fault>>

\* submit and admit_live: Actions.pending.
Reserve(c) ==
    /\ Idle /\ Source[c] = Host /\ store.status[c] = "new"
    /\ Publish([store EXCEPT !.status[c] = "pending", !.place[c] = "reserved"])
    /\ UNCHANGED wave

\* boundary_control reaches a reserved command.
PublishCommand(c) ==
    /\ Idle /\ store.place[c] = "reserved"
    /\ Publish(Submitted(store, c))
    /\ UNCHANGED wave

\* cancel(): reserves a cancel message, or records a rejection and no more.
HostCancel(c, k) ==
    /\ Idle /\ store.request[k] = None /\ MayCancel(store, Host, c)
    /\ Publish(Requested(store, Host, c, k, "reserved"))
    /\ UNCHANGED wave

\* boundary_control reaches a reserved cancellation; the status of its
\* command is not looked at again.
PublishCancel(k) ==
    /\ Idle /\ store.place[k] = "reserved"
    /\ Publish([store EXCEPT !.place[k] = "queued"])
    /\ UNCHANGED wave
-----------------------------------------------------------------------------
(* Waves.                                                                  *)

Recipient(l, m) == Target[IF m \in Commands THEN m ELSE l.request[m].cmd]

\* wave_intents: record the dispatch of the work that is due, then invoke.
Invoke(sel, due) ==
    /\ Idle /\ sel # {}
    /\ \A m \in due : store.place[m] = "queued" /\ Recipient(store, m) \in sel
    /\ Publish([store EXCEPT !.place = [m \in Messages |->
                    IF m \in due THEN "dispatched" ELSE store.place[m]]])
    /\ wave' = sel

\* The batch of p is being applied.
InTurn(p) == p \in wave /\ (\A q \in wave : Rank[p] <= Rank[q]) /\ ops < MaxOps

Apply(l) == draft' = l /\ ops' = ops + 1 /\ UNCHANGED <<store, wave, fault>>

\* An operation is refused: the candidate is dropped and the run faults.
Refuse ==
    /\ fault' = TRUE /\ draft' = store /\ wave' = {} /\ ops' = 0
    /\ UNCHANGED store

\* An emitted command is reserved and submitted at once.
Emit(p, c) ==
    /\ InTurn(p) /\ Source[c] = p /\ draft.status[c] = "new"
    /\ Apply(Submitted(draft, c))

Receipt(p, c, s, cites) ==
    /\ InTurn(p)
    /\ IF ReceiptAllowed(draft, p, c, s, cites)
       THEN Apply(Received(draft, c, s))
       ELSE Refuse

\* Feedback is recorded and routed; it is no head and no status.
Feedback(p, c, cites) ==
    /\ InTurn(p)
    /\ IF FeedbackAllowed(draft, p, c, cites) THEN Apply(draft) ELSE Refuse

CancelDecision(p, c, k, accepted, cites) ==
    /\ InTurn(p) /\ draft.request[k] # None
    /\ IF DecisionAllowed(draft, p, c, k, accepted, cites)
       THEN Apply(Decided(draft, c, k, accepted))
       ELSE Refuse

\* cancel_request: queue a cancel message, or record a rejection.
RequestCancel(p, c, k) ==
    /\ InTurn(p) /\ draft.request[k] = None
    /\ IF draft.status[c] = "new" THEN Refuse
       ELSE IF MayCancel(draft, p, c) THEN Apply(Requested(draft, p, c, k, "queued"))
       ELSE Apply(draft)

\* The batch is applied; the last one publishes the candidate.
EndBatch(p) ==
    /\ p \in wave /\ \A q \in wave : Rank[p] <= Rank[q]
    /\ wave' = wave \ {p} /\ ops' = 0
    /\ store' = IF wave = {p} THEN draft ELSE store
    /\ UNCHANGED <<draft, fault>>

\* An engine raises, or one of its other operations is refused.
BadBatch == wave # {} /\ Refuse

Boundary ==
    \/ \E c \in Commands : Reserve(c) \/ PublishCommand(c)
    \/ \E c \in Commands, k \in Cancels : HostCancel(c, k)
    \/ \E k \in Cancels : PublishCancel(k)

Batch(p) ==
    \/ \E c \in Commands : Emit(p, c)
    \/ \E c \in Commands, s \in Status, cites \in BOOLEAN : Receipt(p, c, s, cites)
    \/ \E c \in Commands, cites \in BOOLEAN : Feedback(p, c, cites)
    \/ \E c \in Commands, k \in Cancels, accepted, cites \in BOOLEAN :
          CancelDecision(p, c, k, accepted, cites)
    \/ \E c \in Commands, k \in Cancels : RequestCancel(p, c, k)
    \/ EndBatch(p)

Next ==
    \/ Boundary
    \/ \E sel \in SUBSET Partitions, due \in SUBSET Messages : Invoke(sel, due)
    \/ \E p \in Partitions : Batch(p)
    \/ BadBatch

Spec == Init /\ [][Next]_vars
-----------------------------------------------------------------------------
(* Correctness.                                                            *)

TypeOK ==
    /\ store \in Ledger /\ draft \in Ledger
    /\ wave \subseteq Partitions /\ ops \in 0 .. MaxOps /\ fault \in BOOLEAN

Granted(l, c) == \E k \in Cancels : l.verdict[k] = "accepted" /\ l.request[k].cmd = c

DispatchedFirst(l) ==
    \A c \in Commands : l.status[c] \notin {"new", "pending", "submitted"} =>
                            l.place[c] = "dispatched"

(***************************************************************************)
(* A command gets a status of its target's making only after it has been   *)
(* dispatched to it.  A completion after an accepted cancellation does not *)
(* cite the dispatch, and relies on this.                                  *)
(***************************************************************************)
StatusFollowsDispatch == DispatchedFirst(store)

OneGrant(l) ==
    \A j, k \in Cancels :
        /\ l.verdict[j] = "accepted" /\ l.verdict[k] = "accepted"
        /\ l.request[j].cmd = l.request[k].cmd
        => j = k

GrantLeadsToCancel(l) ==
    \A c \in Commands :
        /\ Granted(l, c) => l.status[c] \in {"canceling", "canceled", "failed"}
        /\ l.status[c] \in {"canceling", "canceled"} => Granted(l, c)
        /\ l.status[c] = "canceling" => l.cancelHead[c] = l.head[c]

(***************************************************************************)
(* Of the cancellations of a command, raced by each other and by its       *)
(* completion, at most one is accepted; it and only it leads to canceling, *)
(* canceled or a late failure, and its decision stays the receipt head     *)
(* that the completion has to cite.                                        *)
(***************************************************************************)
OneCancellation == OneGrant(store) /\ GrantLeadsToCancel(store)

ToldOnce(l) ==
    \A k \in Cancels :
        /\ l.verdict[k] # "none" => l.place[k] = "dispatched"
        /\ l.request[k] = None => l.verdict[k] = "none" /\ l.told[k] = 0
        /\ l.request[k] # None /\ l.request[k].by \in Partitions =>
              l.told[k] = IF l.verdict[k] = "none" THEN 0 ELSE 1

(***************************************************************************)
(* A cancellation is decided only after its dispatch, and a partition that *)
(* asked for it is told exactly once, whether it is the source of the      *)
(* command or a third party.                                               *)
(***************************************************************************)
RequesterToldOnce == ToldOnce(store)

\* The published ledger keeps the contract with requesters.
Contract == INSTANCE ActionContract WITH
    handed <- [c \in Commands |-> store.place[c] = "dispatched"],
    granted <- [c \in Commands |-> Granted(store, c)],
    outcome <- [c \in Commands |->
                  IF store.status[c] \in Terminal THEN store.status[c] ELSE "open"]

ContractKept == Contract!Spec
-----------------------------------------------------------------------------
(* The inductive invariant: both ledgers are sound, and the candidate has  *)
(* only gone on from the published one, without a dispatch.                *)

LedgerOK(l) ==
    /\ DispatchedFirst(l)
    /\ OneGrant(l)
    /\ GrantLeadsToCancel(l)
    /\ ToldOnce(l)
    /\ \A c \in Commands : l.status[c] = "new" => l.place[c] = "none"

GoesOn(l, m, c) ==
    /\ l.place[c] = "dispatched" <=> m.place[c] = "dispatched"
    /\ Granted(l, c) => Granted(m, c)
    /\ l.status[c] \in Terminal =>
          m.status[c] = l.status[c] /\ (Granted(m, c) => Granted(l, c))

Ahead(l, m) == \A c \in Commands : GoesOn(l, m, c)

(***************************************************************************)
(* What every step keeps: a batch that is being applied builds a ledger    *)
(* that could be published as it is, and that only goes on from the store. *)
(***************************************************************************)
IInv ==
    /\ TypeOK
    /\ LedgerOK(store) /\ LedgerOK(draft)
    /\ Ahead(store, draft)
=============================================================================
