---------------------------- MODULE ActionsProofs ----------------------------
(***************************************************************************)
(* Proofs about commands and cancellations.  Every operation on a ledger   *)
(* keeps it sound and only goes on from it (one lemma per operation); the  *)
(* steps of the specification apply them to the store or to the candidate  *)
(* of a wave, and publishing the candidate is one step of ActionContract.  *)
(***************************************************************************)
EXTENDS Actions, TLAPS

\* What an operation must give: a sound ledger that goes on from the old.
Sound(l, m) == m \in Ledger /\ LedgerOK(m) /\ Ahead(l, m)

\* The parts of a ledger have their types.
LEMMA LedgerParts ==
    ASSUME NEW l \in Ledger
    PROVE  /\ l.status \in [Commands -> Status]
           /\ l.place \in [Messages -> {"none", "reserved", "queued", "dispatched"}]
           /\ l.head \in [Commands -> Nat] /\ l.cancelHead \in [Commands -> Nat]
           /\ l.request \in
                [Cancels -> [cmd : Commands, by : Partitions \cup {Host}] \cup {None}]
           /\ l.verdict \in [Cancels -> {"none", "accepted", "rejected"}]
           /\ l.told \in [Cancels -> Nat]
           /\ l = [status |-> l.status, place |-> l.place, head |-> l.head,
                   cancelHead |-> l.cancelHead, request |-> l.request,
                   verdict |-> l.verdict, told |-> l.told]
  BY DEF Ledger

\* A ledger goes on from itself, and going on is transitive.
LEMMA AheadOrder ==
    ASSUME NEW l, NEW m, NEW n
    PROVE  Ahead(l, l) /\ (Ahead(l, m) /\ Ahead(m, n) => Ahead(l, n))
<1>1. Ahead(l, l)
  BY DEF Ahead, GoesOn
<1>2. ASSUME Ahead(l, m), Ahead(m, n), NEW c \in Commands  PROVE GoesOn(l, n, c)
  BY <1>2 DEF Ahead, GoesOn
<1>. QED
  BY <1>1, <1>2 DEF Ahead

\* A host command is reserved.
LEMMA ReserveSound ==
    ASSUME NEW l \in Ledger, LedgerOK(l), NEW c \in Commands, l.status[c] = "new"
    PROVE  Sound(l, [l EXCEPT !.status[c] = "pending", !.place[c] = "reserved"])
<1> DEFINE m == [l EXCEPT !.status[c] = "pending", !.place[c] = "reserved"]
<1>1. m \in Ledger /\ m.verdict = l.verdict /\ m.request = l.request
      /\ m.told = l.told /\ m.head = l.head /\ m.cancelHead = l.cancelHead
      /\ m.status = [l.status EXCEPT ![c] = "pending"]
      /\ m.place = [l.place EXCEPT ![c] = "reserved"]
  BY DEF Ledger, Status, Messages
<1> HIDE DEF m
<1>2. \A d \in Commands : Granted(m, d) <=> Granted(l, d)
  BY <1>1 DEF Granted
<1>3. DispatchedFirst(m)
  BY <1>1, LedgerParts DEF LedgerOK, DispatchedFirst, Messages
<1>4. OneGrant(m)
  BY <1>1 DEF LedgerOK, OneGrant
<1>5. GrantLeadsToCancel(m)
  BY <1>1, <1>2, LedgerParts DEF LedgerOK, GrantLeadsToCancel
<1>6. ToldOnce(m)
  BY <1>1, LedgerParts, ActionsAssumption DEF LedgerOK, ToldOnce, Messages
<1>7. \A d \in Commands : m.status[d] = "new" => m.place[d] = "none"
  BY <1>1, LedgerParts DEF LedgerOK, Messages
<1>8. Ahead(l, m)
  BY <1>1, <1>2, LedgerParts DEF LedgerOK, Ahead, GoesOn, Terminal, Messages
<1>. QED
  BY <1>1, <1>3, <1>4, <1>5, <1>6, <1>7, <1>8 DEF Sound, LedgerOK, m

\* A command is enqueued, with its submitted status and first receipt.
LEMMA SubmitSound ==
    ASSUME NEW l \in Ledger, LedgerOK(l), NEW c \in Commands,
           l.status[c] = "new" \/ l.place[c] = "reserved"
    PROVE  Sound(l, Submitted(l, c))
<1> DEFINE m == Submitted(l, c)
<1>1. m \in Ledger /\ m.verdict = l.verdict /\ m.request = l.request
      /\ m.told = l.told /\ m.cancelHead = l.cancelHead
      /\ m.head = [l.head EXCEPT ![c] = 1]
      /\ m.status = [l.status EXCEPT ![c] = "submitted"]
      /\ m.place = [l.place EXCEPT ![c] = "queued"]
  BY DEF Submitted, Ledger, Status, Messages
<1> HIDE DEF m
<1>2. l.place[c] # "dispatched" /\ l.status[c] \in {"new", "pending", "submitted"}
  BY DEF LedgerOK, DispatchedFirst
<1>3. \A d \in Commands : Granted(m, d) <=> Granted(l, d)
  BY <1>1 DEF Granted
<1>4. DispatchedFirst(m)
  BY <1>1, LedgerParts DEF LedgerOK, DispatchedFirst, Messages
<1>5. OneGrant(m)
  BY <1>1 DEF LedgerOK, OneGrant
<1>6. GrantLeadsToCancel(m)
  BY <1>1, <1>2, <1>3, LedgerParts DEF LedgerOK, GrantLeadsToCancel
<1>7. ToldOnce(m)
  BY <1>1, LedgerParts, ActionsAssumption DEF LedgerOK, ToldOnce, Messages
<1>8. \A d \in Commands : m.status[d] = "new" => m.place[d] = "none"
  BY <1>1, LedgerParts DEF LedgerOK, Messages
<1>9. Ahead(l, m)
  BY <1>1, <1>2, <1>3, LedgerParts DEF LedgerOK, Ahead, GoesOn, Terminal, Messages
<1>. QED
  BY <1>1, <1>4, <1>5, <1>6, <1>7, <1>8, <1>9 DEF Sound, LedgerOK, m

\* A receipt takes one transition of the table, from a status that is open.
LEMMA TransitionTable ==
    ASSUME NEW s \in Status, NEW t \in Transitions[s], t # "canceling"
    PROVE  /\ t \in Status \ {"new", "pending", "submitted"}
           /\ s \notin Terminal \cup {"new", "pending"}
           /\ s = "canceling" => t \in {"canceled", "failed"}
           /\ s # "canceling" => t # "canceled"
  BY DEF Transitions, Status, Terminal

LEMMA ReceiptSound ==
    ASSUME NEW l \in Ledger, LedgerOK(l), NEW p, NEW c \in Commands,
           NEW s \in Status, NEW cites \in BOOLEAN, ReceiptAllowed(l, p, c, s, cites)
    PROVE  Sound(l, Received(l, c, s))
<1> DEFINE m == Received(l, c, s)
<1>1. /\ m.verdict = l.verdict /\ m.request = l.request /\ m.told = l.told
      /\ m.cancelHead = l.cancelHead /\ m.place = l.place
      /\ m.status = [l.status EXCEPT ![c] = s]
  BY DEF Received, Ledger
<1>2. m.head = [l.head EXCEPT ![c] = l.head[c] + 1]
  BY DEF Received, Ledger
<1>13. m \in Ledger
  <2> DEFINE moved == [l EXCEPT !.status[c] = s]
             next == l.head[c] + 1
  <2>1. next \in Nat
    BY LedgerParts
  <2>2. moved \in Ledger /\ m = [moved EXCEPT !.head[c] = next]
    BY DEF Received, Ledger
  <2> HIDE DEF moved, next, m
  <2>. QED
    BY <2>1, <2>2 DEF Ledger
<1> HIDE DEF m
<1>3. /\ s \in Transitions[l.status[c]] /\ s # "canceling"
      /\ l.status[c] # "canceling" => l.place[c] = "dispatched"
  BY DEF ReceiptAllowed, Authorized
<1>4. /\ s \notin {"new", "pending", "submitted"}
      /\ l.status[c] \notin Terminal \cup {"new", "pending"}
      /\ l.status[c] = "canceling" => s \in {"canceled", "failed"}
      /\ l.status[c] # "canceling" => s # "canceled"
  BY <1>3, LedgerParts, TransitionTable
<1>5. l.place[c] = "dispatched"
  BY <1>3 DEF LedgerOK, DispatchedFirst
<1>6. \A d \in Commands : Granted(m, d) <=> Granted(l, d)
  BY <1>1 DEF Granted
<1>7. DispatchedFirst(m)
  BY <1>1, <1>5, LedgerParts DEF LedgerOK, DispatchedFirst
<1>8. OneGrant(m)
  BY <1>1 DEF LedgerOK, OneGrant
<1>9. GrantLeadsToCancel(m)
  <2> SUFFICES ASSUME NEW d \in Commands
               PROVE  /\ Granted(m, d) => m.status[d] \in {"canceling", "canceled", "failed"}
                      /\ m.status[d] \in {"canceling", "canceled"} => Granted(m, d)
                      /\ m.status[d] = "canceling" => m.cancelHead[d] = m.head[d]
    BY DEF GrantLeadsToCancel
  <2>1. CASE d = c
    BY <2>1, <1>1, <1>3, <1>4, <1>6, LedgerParts
       DEF LedgerOK, GrantLeadsToCancel, Terminal
  <2>2. CASE d # c
    BY <2>2, <1>1, <1>2, <1>6, LedgerParts DEF LedgerOK, GrantLeadsToCancel
  <2>. QED
    BY <2>1, <2>2
<1>10. ToldOnce(m)
  BY <1>1 DEF LedgerOK, ToldOnce
<1>11. \A d \in Commands : m.status[d] = "new" => m.place[d] = "none"
  BY <1>1, <1>4, LedgerParts DEF LedgerOK
<1>12. Ahead(l, m)
  BY <1>1, <1>4, <1>6, LedgerParts DEF Ahead, GoesOn
<1>. QED
  BY <1>13, <1>7, <1>8, <1>9, <1>10, <1>11, <1>12 DEF Sound, LedgerOK, m

\* A target decides about a dispatched cancellation.
LEMMA DecisionSound ==
    ASSUME NEW l \in Ledger, LedgerOK(l), NEW p, NEW c \in Commands, NEW k \in Cancels,
           NEW accepted \in BOOLEAN, NEW cites \in BOOLEAN, l.request[k] # None,
           DecisionAllowed(l, p, c, k, accepted, cites)
    PROVE  Sound(l, Decided(l, c, k, accepted))
<1> DEFINE m == Decided(l, c, k, accepted)
           v == IF accepted THEN "accepted" ELSE "rejected"
<1>1. /\ l.request[k].cmd = c /\ l.verdict[k] = "none" /\ l.place[k] = "dispatched"
      /\ accepted => l.status[c] \in {"accepted", "executing"}
  BY DEF DecisionAllowed, Authorized
<1>2. /\ m.place = l.place /\ m.request = l.request
      /\ m.verdict = [l.verdict EXCEPT ![k] = v]
      /\ m.told = [l.told EXCEPT ![k] = l.told[k] + DecisionRoutes(l, c, k)]
  BY DEF Decided, Ledger
<1>3. /\ m.status = IF accepted THEN [l.status EXCEPT ![c] = "canceling"] ELSE l.status
      /\ m.head = IF accepted THEN [l.head EXCEPT ![c] = l.head[c] + 1] ELSE l.head
      /\ m.cancelHead = IF accepted THEN [l.cancelHead EXCEPT ![c] = l.head[c] + 1]
                        ELSE l.cancelHead
  BY DEF Decided, Ledger
<1>4. DecisionRoutes(l, c, k) \in {0, 1} /\
      (l.request[k].by \in Partitions => DecisionRoutes(l, c, k) = 1)
  BY <1>1, LedgerParts, ActionsAssumption DEF DecisionRoutes
<1>5. m \in Ledger
  <2>1. m = [status |-> m.status, place |-> m.place, head |-> m.head,
             cancelHead |-> m.cancelHead, request |-> m.request,
             verdict |-> m.verdict, told |-> m.told]
    BY DEF Decided, Ledger
  <2> HIDE DEF m
  <2>2. m.told \in [Cancels -> Nat] /\ m.verdict \in [Cancels -> {"none", "accepted", "rejected"}]
    BY <1>2, <1>4, LedgerParts
  <2>3. m.head \in [Commands -> Nat] /\ m.cancelHead \in [Commands -> Nat]
    BY <1>3, LedgerParts
  <2>4. m.status \in [Commands -> Status]
    BY <1>3, LedgerParts DEF Status
  <2>. QED
    BY <2>1, <2>2, <2>3, <2>4, <1>2, LedgerParts DEF Ledger
<1> HIDE DEF m
<1>6. \A d \in Commands : Granted(m, d) <=> Granted(l, d) \/ (accepted /\ d = c)
  BY <1>1, <1>2, LedgerParts DEF Granted
<1>7. accepted => ~Granted(l, c)
  BY <1>1 DEF LedgerOK, GrantLeadsToCancel
<1>8. DispatchedFirst(m)
  BY <1>1, <1>2, <1>3, LedgerParts DEF LedgerOK, DispatchedFirst
<1>9. OneGrant(m)
  <2> SUFFICES ASSUME NEW i \in Cancels, NEW j \in Cancels,
                      m.verdict[i] = "accepted", m.verdict[j] = "accepted",
                      m.request[i].cmd = m.request[j].cmd
               PROVE  i = j
    BY DEF OneGrant
  <2>1. CASE i # k /\ j # k
    BY <2>1, <1>2, LedgerParts DEF LedgerOK, OneGrant
  <2>2. CASE i = k /\ j # k
    BY <2>2, <1>1, <1>2, <1>7, LedgerParts DEF Granted
  <2>3. CASE j = k /\ i # k
    BY <2>3, <1>1, <1>2, <1>7, LedgerParts DEF Granted
  <2>. QED
    BY <2>1, <2>2, <2>3
<1>10. GrantLeadsToCancel(m)
  <2> SUFFICES ASSUME NEW d \in Commands
               PROVE  /\ Granted(m, d) => m.status[d] \in {"canceling", "canceled", "failed"}
                      /\ m.status[d] \in {"canceling", "canceled"} => Granted(m, d)
                      /\ m.status[d] = "canceling" => m.cancelHead[d] = m.head[d]
    BY DEF GrantLeadsToCancel
  <2>1. CASE accepted /\ d = c
    BY <2>1, <1>3, <1>6, LedgerParts
  <2>2. CASE ~(accepted /\ d = c)
    BY <2>2, <1>3, <1>6, LedgerParts DEF LedgerOK, GrantLeadsToCancel
  <2>. QED
    BY <2>1, <2>2
<1>11. ToldOnce(m)
  <2> SUFFICES ASSUME NEW j \in Cancels
               PROVE  /\ m.verdict[j] # "none" => m.place[j] = "dispatched"
                      /\ m.request[j] = None => m.verdict[j] = "none" /\ m.told[j] = 0
                      /\ m.request[j] # None /\ m.request[j].by \in Partitions =>
                            m.told[j] = IF m.verdict[j] = "none" THEN 0 ELSE 1
    BY DEF ToldOnce
  <2>1. CASE j = k
    <3>1. l.request[k].by \in Partitions => l.told[k] = 0
      BY <1>1 DEF LedgerOK, ToldOnce
    <3>. QED
      BY <2>1, <3>1, <1>1, <1>2, <1>4, LedgerParts
  <2>2. CASE j # k
    BY <2>2, <1>2, LedgerParts DEF LedgerOK, ToldOnce
  <2>. QED
    BY <2>1, <2>2
<1>12. \A d \in Commands : m.status[d] = "new" => m.place[d] = "none"
  BY <1>2, <1>3, LedgerParts DEF LedgerOK
<1>13. Ahead(l, m)
  BY <1>1, <1>2, <1>3, <1>6, LedgerParts DEF Ahead, GoesOn, Terminal
<1>. QED
  BY <1>5, <1>8, <1>9, <1>10, <1>11, <1>12, <1>13 DEF Sound, LedgerOK, m

\* A partition or the host asks for a cancellation; it is placed in a queue.
LEMMA RequestSound ==
    ASSUME NEW l \in Ledger, LedgerOK(l), NEW by \in Partitions \cup {Host},
           NEW c \in Commands, NEW k \in Cancels, l.request[k] = None,
           NEW place \in {"reserved", "queued"}
    PROVE  Sound(l, Requested(l, by, c, k, place))
<1> DEFINE m == Requested(l, by, c, k, place)
<1>1. /\ m.verdict = l.verdict /\ m.told = l.told /\ m.status = l.status
      /\ m.head = l.head /\ m.cancelHead = l.cancelHead
      /\ m.request = [l.request EXCEPT ![k] = [cmd |-> c, by |-> by]]
      /\ m.place = [l.place EXCEPT ![k] = place]
  BY DEF Requested, Ledger
<1>2. m \in Ledger
  BY DEF Requested, Ledger, Messages
<1> HIDE DEF m
<1>3. l.verdict[k] = "none" /\ l.told[k] = 0
  BY DEF LedgerOK, ToldOnce
<1>4. k \notin Commands
  BY ActionsAssumption
<1>5. \A d \in Commands : Granted(m, d) <=> Granted(l, d)
  BY <1>1, <1>3, LedgerParts DEF Granted
<1>6. \A d \in Commands : m.place[d] = l.place[d]
  BY <1>1, <1>4, LedgerParts DEF Messages
<1>7. DispatchedFirst(m)
  BY <1>1, <1>6 DEF LedgerOK, DispatchedFirst
<1>8. OneGrant(m)
  BY <1>1, <1>3, LedgerParts DEF LedgerOK, OneGrant
<1>9. GrantLeadsToCancel(m)
  BY <1>1, <1>5 DEF LedgerOK, GrantLeadsToCancel
<1>10. ToldOnce(m)
  <2> SUFFICES ASSUME NEW j \in Cancels
               PROVE  /\ m.verdict[j] # "none" => m.place[j] = "dispatched"
                      /\ m.request[j] = None => m.verdict[j] = "none" /\ m.told[j] = 0
                      /\ m.request[j] # None /\ m.request[j].by \in Partitions =>
                            m.told[j] = IF m.verdict[j] = "none" THEN 0 ELSE 1
    BY DEF ToldOnce
  <2>1. CASE j = k
    BY <2>1, <1>1, <1>3, LedgerParts
  <2>2. CASE j # k
    BY <2>2, <1>1, LedgerParts DEF LedgerOK, ToldOnce, Messages
  <2>. QED
    BY <2>1, <2>2
<1>11. \A d \in Commands : m.status[d] = "new" => m.place[d] = "none"
  BY <1>1, <1>6 DEF LedgerOK
<1>12. Ahead(l, m)
  BY <1>1, <1>5, <1>6 DEF Ahead, GoesOn
<1>. QED
  BY <1>2, <1>7, <1>8, <1>9, <1>10, <1>11, <1>12 DEF Sound, LedgerOK, m

\* Messages move along without any other change.  This covers a boundary
\* that queues a cancellation and an invocation that records its dispatches.
LEMMA PlaceSound ==
    ASSUME NEW l \in Ledger, LedgerOK(l),
           NEW f \in [Messages -> {"none", "reserved", "queued", "dispatched"}],
           \A n \in Messages : f[n] = l.place[n] \/ l.place[n] \in {"reserved", "queued"},
           \A n \in Messages : l.place[n] = "dispatched" => f[n] = "dispatched"
    PROVE  LET m == [l EXCEPT !.place = f]
           IN  /\ m \in Ledger /\ LedgerOK(m)
               /\ m.status = l.status /\ m.place = f
               /\ \A c \in Commands : Granted(m, c) <=> Granted(l, c)
<1> DEFINE m == [l EXCEPT !.place = f]
<1>1. /\ m \in Ledger /\ m.status = l.status /\ m.place = f
      /\ m.verdict = l.verdict /\ m.told = l.told /\ m.request = l.request
      /\ m.head = l.head /\ m.cancelHead = l.cancelHead
  BY DEF Ledger
<1> HIDE DEF m
<1>2. \A c \in Commands : Granted(m, c) <=> Granted(l, c)
  BY <1>1 DEF Granted
<1>3. DispatchedFirst(m) /\ OneGrant(m)
  BY <1>1 DEF LedgerOK, DispatchedFirst, OneGrant, Messages
<1>4. GrantLeadsToCancel(m)
  BY <1>1, <1>2 DEF LedgerOK, GrantLeadsToCancel
<1>5. ToldOnce(m)
  BY <1>1 DEF LedgerOK, ToldOnce, Messages
<1>6. \A d \in Commands : m.status[d] = "new" => m.place[d] = "none"
  BY <1>1 DEF LedgerOK, Messages
<1>. QED
  BY <1>1, <1>2, <1>3, <1>4, <1>5, <1>6 DEF LedgerOK, m
-----------------------------------------------------------------------------
(* Steps.                                                                  *)

\* Between waves the store itself moves; in a wave the candidate does.
LEMMA PublishKeeps ==
    ASSUME IInv, NEW m, Sound(store, m), Publish(m), wave' \subseteq Partitions
    PROVE  IInv' /\ Ahead(store, store')
  BY AheadOrder DEF IInv, TypeOK, Sound, Publish

LEMMA ApplyKeeps ==
    ASSUME IInv, NEW m, Sound(draft, m), Apply(m), ops < MaxOps
    PROVE  IInv' /\ Ahead(store, store')
<1>1. Ahead(store, m)
  BY AheadOrder DEF IInv, Sound
<1>2. ops' \in 0 .. MaxOps
  BY ActionsAssumption DEF IInv, TypeOK, Apply
<1>. QED
  BY <1>1, <1>2, AheadOrder DEF IInv, TypeOK, Sound, Apply

LEMMA RefuseKeeps ==
    ASSUME IInv, Refuse
    PROVE  IInv' /\ Ahead(store, store')
<1>1. 0 \in 0 .. MaxOps
  BY ActionsAssumption
<1>. QED
  BY <1>1, AheadOrder DEF IInv, TypeOK, Refuse

LEMMA BoundaryKeeps ==
    ASSUME IInv, Boundary
    PROVE  IInv' /\ Ahead(store, store')
<1>0. store \in Ledger /\ LedgerOK(store) /\ wave \subseteq Partitions
  BY DEF IInv, TypeOK
<1>1. ASSUME NEW c \in Commands, Reserve(c)  PROVE IInv' /\ Ahead(store, store')
  BY <1>0, <1>1, ReserveSound, PublishKeeps DEF Reserve
<1>2. ASSUME NEW c \in Commands, PublishCommand(c)  PROVE IInv' /\ Ahead(store, store')
  BY <1>0, <1>2, SubmitSound, PublishKeeps DEF PublishCommand
<1>3. ASSUME NEW c \in Commands, NEW k \in Cancels, HostCancel(c, k)
      PROVE  IInv' /\ Ahead(store, store')
  BY <1>0, <1>3, RequestSound, PublishKeeps DEF HostCancel
<1>4. ASSUME NEW k \in Cancels, PublishCancel(k)  PROVE IInv' /\ Ahead(store, store')
  <2> DEFINE f == [store.place EXCEPT ![k] = "queued"]
             m == [store EXCEPT !.place = f]
  <2>1. f \in [Messages -> {"none", "reserved", "queued", "dispatched"}]
        /\ k \in Messages /\ k \notin Commands /\ store.place[k] = "reserved"
    BY <1>0, <1>4, LedgerParts, ActionsAssumption DEF PublishCancel, Messages
  <2>2. \A n \in Messages : f[n] = IF n = k THEN "queued" ELSE store.place[n]
    BY <1>0, LedgerParts
  <2>3. m = [store EXCEPT !.place[k] = "queued"]
    BY <1>0 DEF Ledger
  <2> HIDE DEF f
  <2>4. /\ m \in Ledger /\ LedgerOK(m) /\ m.status = store.status /\ m.place = f
        /\ \A c \in Commands : Granted(m, c) <=> Granted(store, c)
    BY <1>0, <2>1, <2>2, PlaceSound
  <2> HIDE DEF m
  <2>5. Ahead(store, m)
    BY <2>1, <2>2, <2>4 DEF Ahead, GoesOn, Messages
  <2>. QED
    BY <1>0, <1>4, <2>3, <2>4, <2>5, PublishKeeps DEF PublishCancel, Sound
<1>. QED
  BY <1>1, <1>2, <1>3, <1>4 DEF Boundary

LEMMA BatchKeeps ==
    ASSUME IInv, NEW p \in Partitions, Batch(p), ~EndBatch(p)
    PROVE  IInv' /\ Ahead(store, store')
<1>0. draft \in Ledger /\ LedgerOK(draft)
  BY DEF IInv, TypeOK
<1>1. ASSUME NEW c \in Commands, Emit(p, c)  PROVE IInv' /\ Ahead(store, store')
  BY <1>0, <1>1, SubmitSound, ApplyKeeps DEF Emit, InTurn
<1>2. ASSUME NEW c \in Commands, NEW s \in Status, NEW cites \in BOOLEAN,
             Receipt(p, c, s, cites)
      PROVE  IInv' /\ Ahead(store, store')
  BY <1>0, <1>2, ReceiptSound, ApplyKeeps, RefuseKeeps DEF Receipt, InTurn
<1>3. ASSUME NEW c \in Commands, NEW cites \in BOOLEAN, Feedback(p, c, cites)
      PROVE  IInv' /\ Ahead(store, store')
  <2>1. Sound(draft, draft)
    BY <1>0, AheadOrder DEF Sound
  <2>. QED
    BY <1>3, <2>1, ApplyKeeps, RefuseKeeps DEF Feedback, InTurn
<1>4. ASSUME NEW c \in Commands, NEW k \in Cancels, NEW accepted \in BOOLEAN,
             NEW cites \in BOOLEAN, CancelDecision(p, c, k, accepted, cites)
      PROVE  IInv' /\ Ahead(store, store')
  BY <1>0, <1>4, DecisionSound, ApplyKeeps, RefuseKeeps DEF CancelDecision, InTurn
<1>5. ASSUME NEW c \in Commands, NEW k \in Cancels, RequestCancel(p, c, k)
      PROVE  IInv' /\ Ahead(store, store')
  <2>1. Sound(draft, draft)
    BY <1>0, AheadOrder DEF Sound
  <2>2. Sound(draft, Requested(draft, p, c, k, "queued"))
    BY <1>0, <1>5, RequestSound DEF RequestCancel
  <2>. QED
    BY <1>5, <2>1, <2>2, ApplyKeeps, RefuseKeeps DEF RequestCancel, InTurn
<1>. QED
  BY <1>1, <1>2, <1>3, <1>4, <1>5 DEF Batch

LEMMA EndBatchKeeps ==
    ASSUME IInv, NEW p \in Partitions, EndBatch(p)
    PROVE  IInv' /\ Ahead(store, store')
<1>1. 0 \in 0 .. MaxOps
  BY ActionsAssumption
<1>. QED
  BY <1>1, AheadOrder DEF IInv, TypeOK, EndBatch

\* An invocation records its dispatches, and nothing else.
LEMMA InvokeKeeps ==
    ASSUME IInv, NEW sel \in SUBSET Partitions, NEW due \in SUBSET Messages,
           Invoke(sel, due)
    PROVE  /\ IInv' /\ store'.status = store.status
           /\ \A c \in Commands : Granted(store', c) <=> Granted(store, c)
           /\ \A c \in Commands : store.place[c] = "dispatched" =>
                                     store'.place[c] = "dispatched"
<1> DEFINE f == [m \in Messages |-> IF m \in due THEN "dispatched" ELSE store.place[m]]
           l == [store EXCEPT !.place = f]
<1>1. store \in Ledger /\ LedgerOK(store)
  BY DEF IInv, TypeOK
<1>2. /\ f \in [Messages -> {"none", "reserved", "queued", "dispatched"}]
      /\ \A n \in Messages : f[n] = store.place[n] \/ store.place[n] \in {"reserved", "queued"}
      /\ \A n \in Messages : store.place[n] = "dispatched" => f[n] = "dispatched"
  BY <1>1, LedgerParts DEF Invoke
<1>3. store' = l /\ draft' = l /\ wave' \in SUBSET Partitions /\ UNCHANGED <<ops, fault>>
  BY DEF Invoke, Publish
<1> HIDE DEF f
<1>4. /\ l \in Ledger /\ LedgerOK(l) /\ l.status = store.status /\ l.place = f
      /\ \A c \in Commands : Granted(l, c) <=> Granted(store, c)
  BY <1>1, <1>2, PlaceSound
<1> HIDE DEF l
<1>5. IInv'
  BY <1>3, <1>4, AheadOrder DEF IInv, TypeOK
<1>6. \A c \in Commands : store.place[c] = "dispatched" => store'.place[c] = "dispatched"
  BY <1>2, <1>3, <1>4 DEF Messages
<1>. QED
  BY <1>3, <1>4, <1>5, <1>6

LEMMA InitIInv == Init => IInv
<1> SUFFICES ASSUME Init PROVE IInv
  OBVIOUS
<1>1. store \in Ledger
  BY DEF Init, Ledger, Status
<1>2. LedgerOK(store)
  BY DEF Init, LedgerOK, DispatchedFirst, OneGrant, GrantLeadsToCancel, ToldOnce,
         Granted, Messages
<1>3. 0 \in 0 .. MaxOps
  BY ActionsAssumption
<1>. QED
  BY <1>1, <1>2, <1>3, AheadOrder DEF Init, IInv, TypeOK

LEMMA StepIInv == IInv /\ [Next]_vars => IInv'
<1> SUFFICES ASSUME IInv, [Next]_vars PROVE IInv'
  OBVIOUS
<1>1. CASE Boundary
  BY <1>1, BoundaryKeeps
<1>2. ASSUME NEW sel \in SUBSET Partitions, NEW due \in SUBSET Messages, Invoke(sel, due)
      PROVE  IInv'
  BY <1>2, InvokeKeeps
<1>3. ASSUME NEW p \in Partitions, Batch(p)  PROVE IInv'
  BY <1>3, BatchKeeps, EndBatchKeeps
<1>4. CASE BadBatch
  BY <1>4, RefuseKeeps DEF BadBatch
<1>5. CASE UNCHANGED vars
  BY <1>5 DEF vars, IInv, TypeOK
<1>. QED
  BY <1>1, <1>2, <1>3, <1>4, <1>5 DEF Next

(***************************************************************************)
(* The inductive invariant holds, for any partitions, commands, cancels,   *)
(* routes of authority and length of batches.                              *)
(***************************************************************************)
THEOREM LedgersSound == Spec => []IInv
  BY InitIInv, StepIInv, PTL DEF Spec

\* Type correctness of the published ledger and of the candidate.
THEOREM LedgersTyped == Spec => []TypeOK
<1>1. IInv => TypeOK
  BY DEF IInv
<1>. QED
  BY <1>1, LedgersSound, PTL

\* A target's receipts and decisions follow the dispatch of the command.
THEOREM DispatchComesFirst == Spec => []StatusFollowsDispatch
<1>1. IInv => StatusFollowsDispatch
  BY DEF IInv, LedgerOK, StatusFollowsDispatch
<1>. QED
  BY <1>1, LedgersSound, PTL

\* However cancellations and completion race, one cancellation is accepted
\* at most, and success is excluded from then on.
THEOREM CancelsOnce == Spec => []OneCancellation
<1>1. IInv => OneCancellation
  BY DEF IInv, LedgerOK, OneCancellation
<1>. QED
  BY <1>1, LedgersSound, PTL

\* A partition that asked for a cancellation hears of the decision once.
THEOREM RequesterHears == Spec => []RequesterToldOnce
<1>1. IInv => RequesterToldOnce
  BY DEF IInv, LedgerOK, RequesterToldOnce
<1>. QED
  BY <1>1, LedgersSound, PTL
-----------------------------------------------------------------------------
(* The contract with requesters.                                           *)

OutcomeOf(l, c) == IF l.status[c] \in Terminal THEN l.status[c] ELSE "open"

\* What ActionContract asks of every ledger that is published.
LEMMA LedgerFits ==
    ASSUME NEW l \in Ledger, LedgerOK(l), NEW c \in Commands
    PROVE  /\ Granted(l, c) => OutcomeOf(l, c) \in {"open", "failed", "canceled"}
           /\ OutcomeOf(l, c) = "canceled" => Granted(l, c)
           /\ OutcomeOf(l, c) # "open" \/ Granted(l, c) => l.place[c] = "dispatched"
           /\ OutcomeOf(l, c) \in Contract!Outcomes \cup {"open"}
           /\ Granted(l, c) \in BOOLEAN
  BY LedgerParts DEF LedgerOK, DispatchedFirst, GrantLeadsToCancel, OutcomeOf, Terminal,
     Contract!Outcomes, Granted, Status

\* A publication that goes on from the store is progress of every command.
LEMMA AheadIsProgress ==
    ASSUME IInv, IInv', Ahead(store, store')
    PROVE  Contract!Next
<1>1. store \in Ledger /\ LedgerOK(store) /\ store' \in Ledger /\ LedgerOK(store')
  BY DEF IInv, TypeOK
<1>2. ASSUME NEW c \in Commands  PROVE Contract!Progress(c)
  <2>1. GoesOn(store, store', c)
    BY DEF Ahead
  <2>. QED
    BY <1>1, <1>2, <2>1, LedgerFits
       DEF Contract!Progress, Contract!Fits, GoesOn, OutcomeOf
<1>. QED
  BY <1>1, <1>2, LedgerFits DEF Contract!Next, OutcomeOf

LEMMA InvokeIsProgress ==
    ASSUME IInv, NEW sel \in SUBSET Partitions, NEW due \in SUBSET Messages,
           Invoke(sel, due)
    PROVE  Contract!Next
<1>1. store \in Ledger /\ store' \in Ledger /\ LedgerOK(store')
  BY InvokeKeeps DEF IInv, TypeOK
<1>2. ASSUME NEW c \in Commands  PROVE Contract!Progress(c)
  <2>1. /\ Granted(store', c) <=> Granted(store, c)
        /\ store.place[c] = "dispatched" => store'.place[c] = "dispatched"
        /\ OutcomeOf(store', c) = OutcomeOf(store, c)
    BY <1>2, InvokeKeeps DEF OutcomeOf
  <2>2. Granted(store, c) \in BOOLEAN /\ Granted(store', c) \in BOOLEAN
    BY DEF Granted
  <2>3. Contract!Fits(c)'
    BY <1>1, <1>2, LedgerFits DEF Contract!Fits, OutcomeOf
  <2>. QED
    BY <1>2, <2>1, <2>2, <2>3 DEF Contract!Progress, OutcomeOf
<1>. QED
  BY <1>1, <1>2, LedgerFits DEF Contract!Next, OutcomeOf

(***************************************************************************)
(* The published ledger implements the contract: what a batch does to its  *)
(* candidate is invisible until the whole wave is published, and what is   *)
(* published never takes back a dispatch, a grant or an outcome.           *)
(***************************************************************************)
THEOREM KeepsContract == Spec => ContractKept
<1>1. Init => Contract!Init
  <2> SUFFICES ASSUME Init PROVE Contract!Init
    OBVIOUS
  <2>1. \A c \in Commands : (store.place[c] = "dispatched") = FALSE
    BY DEF Init, Messages
  <2>2. \A c \in Commands : Granted(store, c) = FALSE
    BY DEF Init, Granted
  <2>3. \A c \in Commands : store.status[c] \notin Terminal
    BY DEF Init, Terminal
  <2>. QED
    BY <2>1, <2>2, <2>3 DEF Contract!Init
<1>2. IInv /\ IInv' /\ [Next]_vars => [Contract!Next]_(Contract!vars)
  <2> SUFFICES ASSUME IInv, IInv', [Next]_vars
               PROVE  [Contract!Next]_(Contract!vars)
    OBVIOUS
  <2>1. CASE Boundary
    BY <2>1, BoundaryKeeps, AheadIsProgress
  <2>2. ASSUME NEW sel \in SUBSET Partitions, NEW due \in SUBSET Messages, Invoke(sel, due)
        PROVE  Contract!Next
    BY <2>2, InvokeIsProgress
  <2>3. ASSUME NEW p \in Partitions, Batch(p)  PROVE Contract!Next
    BY <2>3, BatchKeeps, EndBatchKeeps, AheadIsProgress
  <2>4. CASE BadBatch
    BY <2>4, RefuseKeeps, AheadIsProgress DEF BadBatch
  <2>5. CASE UNCHANGED vars
    BY <2>5 DEF vars, Contract!vars, Granted
  <2>. QED
    BY <2>1, <2>2, <2>3, <2>4, <2>5 DEF Next
<1>. QED
  BY <1>1, <1>2, LedgersSound, PTL DEF Spec, ContractKept, Contract!Spec
=============================================================================
