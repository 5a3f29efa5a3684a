--------------------------------- MODULE Rpc ---------------------------------
(***************************************************************************)
(* One connection of a remote engine (aerokernel/rpc_transport.py and the  *)
(* ends of it in rpc.py): threads of the client that call through one      *)
(* RPCConnection, two byte pipes, and the server of the engine.            *)
(*                                                                         *)
(* Every blocking piece of work is `bounded`: it runs in a thread of its   *)
(* own and is left running when its deadline expires.  So an exchange may  *)
(* still write its request after its caller has given up, and a handler    *)
(* may enter the engine after the server has answered with a fault.        *)
(*                                                                         *)
(* Left out: framing, payloads, the budgets behind the deadlines (each may *)
(* expire at any time), the negotiation of hello, and the abort callback   *)
(* of the server.  "work" stands for horizon, advance, react and hold,     *)
(* which the lifecycle treats alike.                                       *)
(***************************************************************************)
EXTENDS Integers, Sequences

CONSTANTS
    Runner,    \* the thread that constructs, resets and drives the engine
    Closer,    \* the thread that closes it, at any moment after that
    MaxCalls,  \* bound on the requests of the connection
    None

Threads == {Runner, Closer}

ASSUME RpcAssumption ==
    MaxCalls \in Nat /\ Runner # Closer /\ None \notin Threads /\ None \notin Nat

VARIABLES
    conn,      \* state of the connection
    requestId, \* last request identity
    lock,      \* thread that holds the one-flight lock, or None
    stage,     \* stage[t]: where thread t is in its call
    asking,    \* asking[t]: the operation it calls
    exchanges, \* threads that exchange a request for a response
    streamOpen,\* the client has not closed its stream
    requests,  \* bytes under way to the server
    answers,   \* bytes under way to the client
    serving,   \* where the server loop is
    peer,      \* lifecycle state of the server
    servedId,  \* last request identity the server has taken
    handlers,  \* threads that handle a request
    engineLock,\* request whose handler is inside the engine, or None
    log,       \* requests that have entered the engine, in order
    accepted,  \* requests whose results were handed to their callers
    engine     \* the RemoteEngine: "constructing", "open", "closing"

client == <<conn, requestId, lock, stage, asking, exchanges, streamOpen>>
server == <<serving, peer, servedId, handlers, engineLock, log>>
pipes == <<requests, answers>>
vars == <<client, server, pipes, accepted, engine>>

Operations == {"hello", "reset", "work", "close"}

Results == {"good", "bad", "error"}

\* The lifecycle that both ends check an operation against.
Legal(state, op) ==
    \/ state = "new" /\ op = "hello"
    \/ state = "hello" /\ op \in {"reset", "close"}
    \/ state = "ready" /\ op \in {"work", "close"}

\* And where a completed operation takes it.
Moved(state, op) ==
    CASE op = "hello" -> "hello" [] op = "reset" -> "ready"
      [] op = "close" -> "closed" [] OTHER -> state

Exchange == [id : Nat, op : Operations, by : Threads,
             stage : {"write", "read"} \cup Results]

Handler == [id : Nat, op : Operations, stage : {"start", "inside"} \cup Results]

Request == [id : Nat, op : Operations]

Answer == [id : Nat, op : Operations, result : Results]

Init ==
    /\ conn = "new" /\ requestId = 0 /\ lock = None
    /\ stage = [t \in Threads |-> "idle"] /\ asking = [t \in Threads |-> "hello"]
    /\ exchanges = {} /\ streamOpen = TRUE /\ requests = <<>> /\ answers = <<>>
    /\ serving = "read" /\ peer = "new" /\ servedId = 0
    /\ handlers = {} /\ engineLock = None /\ log = <<>>
    /\ accepted = <<>> /\ engine = "constructing"
-----------------------------------------------------------------------------
(* The client: RPCConnection.call.                                         *)

GoTo(t, s) == stage' = [stage EXCEPT ![t] = s]

\* A bug: the one-flight lock is not looked at.
AcquireShared(t, op) ==
    /\ lock' = t /\ GoTo(t, "locked") /\ asking' = [asking EXCEPT ![t] = op]
    /\ UNCHANGED conn

\* The lock is tried without blocking; who does not get it taints.
Acquire(t, op) ==
    \/ /\ lock = None
       /\ lock' = t /\ GoTo(t, "locked") /\ asking' = [asking EXCEPT ![t] = op]
       /\ UNCHANGED conn
    \/ /\ lock # None
       /\ conn' = "tainted" /\ GoTo(t, "idle")
       /\ UNCHANGED <<lock, asking>>

\* The operations of the runner in program order, each tried again at will,
\* except that an engine whose hello failed was never constructed.
NextOperation ==
    CASE Len(accepted) = 0 -> "hello" [] Len(accepted) = 1 -> "reset" [] OTHER -> "work"

Call ==
    /\ stage[Runner] = "idle" /\ requestId < MaxCalls
    /\ engine = "constructing" => requestId = 0
    /\ Acquire(Runner, NextOperation)
    /\ UNCHANGED <<requestId, exchanges, streamOpen, server, pipes, accepted,
                   engine>>

\* RemoteEngine.close looks at the state of the connection, without a lock.
LookAndClose ==
    /\ stage[Closer] = "idle"
    /\ engine' = "closing"
    /\ GoTo(Closer, CASE conn = "closed" -> "idle" [] conn = "tainted" -> "cleanup"
                      [] OTHER -> "calling")
    /\ UNCHANGED <<conn, requestId, lock, asking, exchanges, streamOpen, server,
                   pipes, accepted>>

Close == engine = "open" /\ LookAndClose

\* Only in SpecAgain: close() is said to be idempotent.
CloseAgain == engine = "closing" /\ LookAndClose

CloseCall ==
    /\ stage[Closer] = "calling" /\ requestId < MaxCalls
    /\ Acquire(Closer, "close")
    /\ UNCHANGED <<requestId, exchanges, streamOpen, server, pipes, accepted,
                   engine>>

\* A tainted connection is closed by closing its stream; when that takes too
\* long, the stream is closed or not, and the connection stays tainted.
Cleanup ==
    /\ stage[Closer] = "cleanup"
    /\ \/ streamOpen' = FALSE /\ conn' = "closed"
       \/ streamOpen' \in {streamOpen, FALSE} /\ UNCHANGED conn
    /\ GoTo(Closer, "idle")
    /\ UNCHANGED <<requestId, lock, asking, exchanges, server, pipes, accepted,
                   engine>>

\* A bug: a failed exchange is an ordinary failure of one call.
RaiseUntainted(t) ==
    /\ lock' = None /\ GoTo(t, "idle")
    /\ UNCHANGED <<conn, requestId, asking>>

\* The call raises; the result is uncertain and the connection tainted.
Raise(t) ==
    /\ conn' = "tainted" /\ lock' = None /\ GoTo(t, "idle")
    /\ UNCHANGED <<requestId, asking>>

\* A legal call gets an identity and an exchange of its own.
Issue(t) ==
    /\ stage[t] = "locked" /\ Legal(conn, asking[t])
    /\ requestId' = requestId + 1
    /\ exchanges' = exchanges \cup
           {[id |-> requestId + 1, op |-> asking[t], by |-> t, stage |-> "write"]}
    /\ GoTo(t, "wait")
    /\ UNCHANGED <<conn, lock, asking, streamOpen, server, pipes, accepted,
                   engine>>

Refuse(t) ==
    /\ stage[t] = "locked" /\ ~Legal(conn, asking[t])
    /\ Raise(t)
    /\ UNCHANGED <<exchanges, streamOpen, server, pipes, accepted, engine>>

Becomes(x, s) == exchanges' = (exchanges \ {x}) \cup {[x EXCEPT !.stage = s]}

\* Writing fails when a stream breaks or the payload exceeds its budget.
Write(x) ==
    /\ x.stage = "write"
    /\ \/ /\ streamOpen /\ serving # "gone"
          /\ requests' = Append(requests, [id |-> x.id, op |-> x.op])
          /\ Becomes(x, "read")
       \/ Becomes(x, "error") /\ UNCHANGED requests
    /\ UNCHANGED <<conn, requestId, lock, stage, asking, streamOpen, server,
                   answers, accepted, engine>>

\* One response is read, and has to echo the identity of the request.  A read
\* that waits already still gets its bytes when the stream is closed under it.
Read(x) ==
    /\ x.stage = "read" /\ answers # <<>>
    /\ answers' = Tail(answers)
    /\ Becomes(x, IF Head(answers).id = x.id /\ Head(answers).op = x.op
                  THEN Head(answers).result ELSE "error")
    /\ UNCHANGED <<conn, requestId, lock, stage, asking, streamOpen, server,
                   requests, accepted, engine>>

\* The stream ends or breaks, or what came is no frame of the protocol.
ReadFails(x) ==
    /\ x.stage = "read"
    /\ Becomes(x, "error")
    /\ UNCHANGED <<conn, requestId, lock, stage, asking, streamOpen, server, pipes,
                   accepted, engine>>

\* A bug: the state is not looked at again before the result is handed over.
SettleBlindly(x) ==
    /\ x.stage \in {"good", "bad"} /\ stage[x.by] = "wait"
    /\ conn' = Moved(conn, x.op)
    /\ GoTo(x.by, IF x.stage = "good" THEN "settled" ELSE "misfit")
    /\ exchanges' = exchanges \ {x} /\ accepted' = Append(accepted, x.id)
    /\ UNCHANGED <<requestId, lock, asking, streamOpen, server, pipes, engine>>

\* The result of an exchange arrives in time, at a connection not tainted.
Settle(x) ==
    /\ x.stage \in {"good", "bad"} /\ stage[x.by] = "wait" /\ conn # "tainted"
    /\ conn' = Moved(conn, x.op)
    /\ GoTo(x.by, IF x.stage = "good" THEN "settled" ELSE "misfit")
    /\ exchanges' = exchanges \ {x} /\ accepted' = Append(accepted, x.id)
    /\ UNCHANGED <<requestId, lock, asking, streamOpen, server, pipes, engine>>

\* It failed, or somebody has tainted the connection meanwhile.
Discard(x) ==
    /\ stage[x.by] = "wait"
    /\ x.stage = "error" \/ (x.stage \in {"good", "bad"} /\ conn = "tainted")
    /\ Raise(x.by)
    /\ exchanges' = exchanges \ {x}
    /\ UNCHANGED <<streamOpen, server, pipes, accepted, engine>>

\* The deadline of the call expires; the exchange goes on without a caller.
Expire(t) ==
    /\ stage[t] = "wait"
    /\ Raise(t)
    /\ UNCHANGED <<exchanges, streamOpen, server, pipes, accepted, engine>>

\* An exchange nobody waits for comes to its end.
Fade(x) ==
    /\ x.stage \in Results /\ stage[x.by] # "wait"
    /\ exchanges' = exchanges \ {x}
    /\ UNCHANGED <<conn, requestId, lock, stage, asking, streamOpen, server, pipes,
                   accepted, engine>>

\* The lock is released; the constructor returns when hello has settled.
Release(t) ==
    /\ stage[t] \in {"settled", "misfit"}
    /\ lock' = None
    /\ \/ stage[t] = "misfit" /\ GoTo(t, "verify") /\ UNCHANGED engine
       \/ /\ stage[t] = "settled" /\ GoTo(t, "idle")
          /\ engine' = IF engine = "constructing" THEN "open" ELSE engine
    /\ UNCHANGED <<conn, requestId, asking, exchanges, streamOpen, server, pipes,
                   accepted>>

\* RemoteEngine finds a token, frontier or cut that does not fit: it taints.
Verify(t) ==
    /\ stage[t] = "verify"
    /\ conn' = "tainted" /\ GoTo(t, "idle")
    /\ UNCHANGED <<requestId, lock, asking, exchanges, streamOpen, server, pipes,
                   accepted, engine>>
-----------------------------------------------------------------------------
(* The server: serve_requests and serve_engine.                            *)

Respond(r, result) ==
    answers' = Append(answers, [id |-> r.id, op |-> r.op, result |-> result])

\* A request is taken if its identity has grown.
Receive ==
    /\ serving = "read" /\ requests # <<>>
    /\ LET r == Head(requests)
       IN  /\ requests' = Tail(requests)
           /\ \/ /\ r.id <= servedId
                 /\ serving' = "ending"
                 /\ UNCHANGED <<servedId, handlers, answers>>
              \/ /\ r.id > servedId /\ Legal(peer, r.op)
                 /\ servedId' = r.id /\ serving' = "run"
                 /\ handlers' = handlers \cup
                        {[id |-> r.id, op |-> r.op, stage |-> "start"]}
                 /\ UNCHANGED answers
              \/ /\ r.id > servedId /\ ~Legal(peer, r.op)
                 /\ servedId' = r.id /\ serving' = "ending"
                 /\ UNCHANGED answers \/ Respond(r, "error")
                 /\ UNCHANGED handlers
    /\ UNCHANGED <<peer, engineLock, log, client, accepted, engine>>

\* No request in time, or the end of the stream.
GiveUp ==
    /\ serving = "read" /\ serving' = "ending"
    /\ UNCHANGED <<peer, servedId, handlers, engineLock, log, client, pipes,
                   accepted, engine>>

Turns(h, s) == handlers' = (handlers \ {h}) \cup {[h EXCEPT !.stage = s]}

Enter(h) ==
    /\ h.stage = "start" /\ engineLock = None
    /\ engineLock' = h.id /\ log' = Append(log, h.id) /\ Turns(h, "inside")
    /\ UNCHANGED <<serving, peer, servedId, client, pipes, accepted, engine>>

\* The engine returns something, that may not fit the call, or raises.
Leave(h, result) ==
    /\ h.stage = "inside"
    /\ engineLock' = None /\ Turns(h, result)
    /\ UNCHANGED <<serving, peer, servedId, log, client, pipes, accepted, engine>>

\* The handler is back in time: answer, and go on if it did not raise.
Reply(h) ==
    /\ serving = "run" /\ h.id = servedId /\ h.stage \in Results
    /\ Respond(h, h.stage)
    /\ handlers' = handlers \ {h}
    /\ IF h.stage = "error" THEN serving' = "ending" /\ UNCHANGED peer
       ELSE /\ peer' = Moved(peer, h.op)
            /\ serving' = IF h.op = "close" THEN "ending" ELSE "read"
    /\ UNCHANGED <<servedId, engineLock, log, client, requests, accepted, engine>>

\* The answer cannot be written: the client closed, or does not drain it.
ReplyFails(h) ==
    /\ serving = "run" /\ h.id = servedId /\ h.stage \in Results
    /\ UNCHANGED answers \/ Respond(h, h.stage)
    /\ handlers' = handlers \ {h} /\ serving' = "ending"
    /\ UNCHANGED <<peer, servedId, engineLock, log, client, requests, accepted,
                   engine>>

\* The handler overruns its deadline: a fault is returned, and it runs on.
Overrun(h) ==
    /\ serving = "run" /\ h.id = servedId
    /\ UNCHANGED answers \/ Respond(h, "error")
    /\ serving' = "ending"
    /\ UNCHANGED <<peer, servedId, handlers, engineLock, log, client, requests,
                   accepted, engine>>

\* The engine is cleaned up behind its lock, within a deadline; the end of
\* the process closes the stream.
ServerEnds ==
    /\ serving = "ending" /\ serving' = "gone"
    /\ UNCHANGED <<peer, servedId, handlers, engineLock, log, client, pipes,
                   accepted, engine>>

\* The process of the engine dies, with all its threads.
Crash ==
    /\ serving # "gone" /\ serving' = "gone"
    /\ handlers' = {} /\ engineLock' = None
    /\ UNCHANGED <<peer, servedId, log, client, pipes, accepted, engine>>
-----------------------------------------------------------------------------
Next ==
    \/ Call \/ Close \/ CloseCall \/ Cleanup
    \/ \E t \in Threads : Issue(t) \/ Refuse(t) \/ Expire(t) \/ Release(t) \/ Verify(t)
    \/ \E x \in exchanges :
          Write(x) \/ Read(x) \/ ReadFails(x) \/ Settle(x) \/ Discard(x) \/ Fade(x)
    \/ Receive \/ GiveUp \/ ServerEnds \/ Crash
    \/ \E h \in handlers :
          \/ Enter(h) \/ Reply(h) \/ ReplyFails(h) \/ Overrun(h)
          \/ \E result \in Results : Leave(h, result)

Spec == Init /\ [][Next]_vars

SpecAgain == Init /\ [][Next \/ CloseAgain]_vars
-----------------------------------------------------------------------------
(* Correctness.                                                            *)

TypeOK ==
    /\ conn \in {"new", "hello", "ready", "closed", "tainted"}
    /\ requestId \in Nat /\ lock \in Threads \cup {None}
    /\ stage \in [Threads -> {"idle", "calling", "locked", "wait", "settled",
                              "misfit", "verify", "cleanup"}]
    /\ asking \in [Threads -> Operations]
    /\ exchanges \subseteq Exchange /\ streamOpen \in BOOLEAN
    /\ requests \in Seq(Request) /\ answers \in Seq(Answer)
    /\ serving \in {"read", "run", "ending", "gone"}
    /\ peer \in {"new", "hello", "ready", "closed"} /\ servedId \in Nat
    /\ handlers \subseteq Handler /\ engineLock \in Nat \cup {None}
    /\ log \in Seq(Nat) /\ accepted \in Seq(Nat)
    /\ engine \in {"constructing", "open", "closing"}

Usable == conn \notin {"tainted", "closed"}

(***************************************************************************)
(* A connection that may be used and is not in use has no past: no request *)
(* or response is under way, nothing runs on behalf of an earlier call,    *)
(* and both ends agree on what the engine has run and on the lifecycle.    *)
(* Calls that outlive their deadline on either side, and calls of a second *)
(* thread, are what could break it.                                        *)
(***************************************************************************)
Quiet ==
    /\ exchanges = {} /\ handlers = {} /\ requests = <<>> /\ answers = <<>>
    /\ log = accepted /\ Len(accepted) = requestId
    /\ serving = "read" => peer = conn

AgreedWhenUsable == Usable /\ lock = None => Quiet

(***************************************************************************)
(* A server that still reads never has to refuse what this client sends:   *)
(* the identity has grown and the operation fits the server's own          *)
(* lifecycle, whatever became of the caller since it was issued.           *)
(***************************************************************************)
RequestsAreLegal ==
    serving = "read" /\ requests # <<>> =>
        Head(requests).id > servedId /\ Legal(peer, Head(requests).op)

(***************************************************************************)
(* The promise to callers: at most once, in order, no retry, and "any      *)
(* uncertain response permanently taints the connection".                  *)
(***************************************************************************)
Remote == INSTANCE RemoteCalls WITH
    asked <- requestId, ran <- log, got <- accepted, usable <- Usable

CallsKept == Remote!Spec
-----------------------------------------------------------------------------
(* The inductive invariant.  One call is under way between its identity    *)
(* and its result; each conjunct says what there is of it where it is.     *)

UnderWay == requestId # Len(accepted)

\* Identities are handed out, run and accepted one by one.
Counted ==
    /\ Len(accepted) <= Len(log) /\ Len(log) <= requestId
    /\ requestId <= Len(accepted) + 1
    /\ \A i \in 1 .. Len(log) : log[i] = i
    /\ \A i \in 1 .. Len(accepted) : accepted[i] = i
    /\ servedId <= requestId

\* The lock is held from the attempt to the result, and a caller waits only
\* for the call under way; one that gave up left a tainted connection, which
\* only close() closes.
ClientOK ==
    /\ \A t \in Threads :
          stage[t] \in {"locked", "wait", "settled", "misfit"} <=> lock = t
    /\ \A t \in Threads : stage[t] = "wait" =>
          UnderWay /\ conn # "closed" /\ stage[Closer] # "cleanup"
    /\ stage[Runner] = "wait" /\ conn = "tainted" => engine = "closing"
    /\ stage[Closer] # "idle" => engine = "closing"
    /\ Usable /\ UnderWay => lock # None /\ stage[lock] = "wait"
    /\ Usable => streamOpen
    /\ \A t \in Threads : stage[t] = "cleanup" => ~Usable

\* The exchange of the call under way, alone and with its operation.
ExchangeOK ==
    \A x \in exchanges :
        /\ UnderWay /\ x.id = requestId
        /\ \A y \in exchanges : x = y
        /\ Usable => stage[x.by] = "wait"
        /\ x.stage = "write" =>
              /\ requests = <<>> /\ answers = <<>> /\ handlers = {}
              /\ Len(log) = Len(accepted) /\ servedId < requestId
              /\ serving = "read" => Legal(peer, x.op)
        /\ x.stage \in {"good", "bad"} =>
              /\ requests = <<>> /\ answers = <<>> /\ handlers = {}
              /\ Len(log) = requestId

RequestOK ==
    requests # <<>> =>
        /\ UnderWay /\ Len(requests) = 1 /\ Head(requests).id = requestId
        /\ answers = <<>> /\ handlers = {}
        /\ Len(log) = Len(accepted) /\ servedId < requestId
        /\ serving = "read" => Legal(peer, Head(requests).op)
        /\ \A x \in exchanges : x.op = Head(requests).op

HandlerOK ==
    /\ \A h \in handlers :
          /\ UnderWay /\ h.id = requestId /\ servedId = requestId
          /\ h.stage = "start" => Len(log) = Len(accepted)
          /\ h.stage # "start" => Len(log) = requestId
          /\ serving # "read"
          /\ \A k \in handlers : h = k
          /\ \A x \in exchanges : x.op = h.op
          /\ serving = "run" => answers = <<>>
    /\ serving = "run" => handlers # {}

AnswerOK ==
    answers # <<>> =>
        /\ UnderWay /\ Len(answers) = 1 /\ Head(answers).id = requestId
        /\ Head(answers).result \in {"good", "bad"} =>
              Len(log) = requestId /\ handlers = {}
        /\ \A x \in exchanges : x.op = Head(answers).op
        /\ serving = "read" => Head(answers).result \in {"good", "bad"}

\* The lifecycle of the server is that of the client, or a step ahead of it
\* when it has answered.
Unanswered == answers = <<>> /\ \A x \in exchanges : x.stage \notin {"good", "bad"}

LifecycleOK ==
    Usable /\ serving \in {"read", "run"} =>
        /\ Unanswered => peer = conn
        /\ answers # <<>> => peer = Moved(conn, Head(answers).op)
        /\ \A x \in exchanges :
              x.stage \in {"good", "bad"} => peer = Moved(conn, x.op)

IInv ==
    /\ TypeOK /\ Counted /\ ClientOK /\ ExchangeOK /\ RequestOK /\ HandlerOK
    /\ AnswerOK /\ LifecycleOK
=============================================================================
