------------------------------ MODULE RpcProofs ------------------------------
(***************************************************************************)
(* Proofs about the connection of a remote engine.  IInv is inductive: one *)
(* lemma per action, with a step for each conjunct the action disturbs and *)
(* one for those it leaves alone.                                          *)
(***************************************************************************)
EXTENDS Rpc, SequenceTheorems, TLAPS

USE RpcAssumption

\* What is queued on an empty pipe is alone in it.
LEMMA Queued ==
    ASSUME NEW S, NEW q \in Seq(S), NEW e \in S
    PROVE  /\ Append(q, e) \in Seq(S) /\ Append(q, e) # <<>>
           /\ q = <<>> => Len(Append(q, e)) = 1 /\ Head(Append(q, e)) = e
  BY AppendProperties

\* Taking the only element of a pipe leaves it empty.
LEMMA Taken ==
    ASSUME NEW S, NEW q \in Seq(S), q # <<>>
    PROVE  /\ Head(q) \in S /\ Tail(q) \in Seq(S)
           /\ Len(q) = 1 => Tail(q) = <<>>
<1>1. Head(q) \in S /\ Tail(q) \in Seq(S) /\ Len(Tail(q)) = Len(q) - 1
  BY HeadTailProperties
<1>2. Len(q) = 1 => Len(Tail(q)) = 0
  BY <1>1
<1>3. \A p \in Seq(S) : Len(p) = 0 => p = <<>>
  BY EmptySeq
<1>. QED
  BY <1>1, <1>2, <1>3

\* The exchange that takes a step is the only one, and stays so.
LEMMA Alone ==
    ASSUME IInv, NEW x \in exchanges, NEW s \in {"write", "read"} \cup Results,
           Becomes(x, s)
    PROVE  /\ x \in Exchange /\ exchanges = {x}
           /\ exchanges' = {[x EXCEPT !.stage = s]}
           /\ [x EXCEPT !.stage = s] \in Exchange
           /\ [x EXCEPT !.stage = s].id = x.id /\ [x EXCEPT !.stage = s].op = x.op
           /\ [x EXCEPT !.stage = s].by = x.by /\ [x EXCEPT !.stage = s].stage = s
<1>1. x \in Exchange /\ exchanges = {x}
  BY DEF IInv, TypeOK, ExchangeOK
<1>2. exchanges' = {[x EXCEPT !.stage = s]}
  BY <1>1 DEF Becomes
<1>. QED
  BY <1>1, <1>2 DEF Exchange

\* So is the handler.
LEMMA OneHandler ==
    ASSUME IInv, NEW h \in handlers
    PROVE  h \in Handler /\ handlers = {h}
  BY DEF IInv, TypeOK, HandlerOK

LEMMA InitInv == Init => IInv
<1>. SUFFICES ASSUME Init PROVE IInv
  OBVIOUS
<1>1. TypeOK
  <2>1. requests \in Seq(Request) /\ answers \in Seq(Answer) /\ log \in Seq(Nat)
        /\ accepted \in Seq(Nat)
    BY DEF Init
  <2>2. streamOpen \in BOOLEAN /\ engine \in {"constructing", "open", "closing"}
    BY DEF Init
  <2>. QED
    BY <2>1, <2>2 DEF Init, TypeOK, Operations
<1>2. Counted /\ ClientOK
  BY DEF Init, Counted, ClientOK, UnderWay, Usable, Threads
<1>3. ExchangeOK /\ RequestOK /\ HandlerOK /\ AnswerOK /\ LifecycleOK
  BY DEF Init, ExchangeOK, RequestOK, HandlerOK, AnswerOK, LifecycleOK
<1>. QED
  BY <1>1, <1>2, <1>3 DEF IInv

LEMMA CallKeeps ==
    ASSUME IInv, Call
    PROVE  IInv'
<1>1. TypeOK'
  BY DEF Call, Acquire, server, pipes, GoTo, IInv, TypeOK, Exchange,
         Handler, Request, Answer, Results, Threads, Operations, Moved,
         NextOperation, ClientOK
<1>2. Counted' /\ RequestOK' /\ HandlerOK' /\ AnswerOK'
  BY DEF Call, Acquire, server, pipes, GoTo, IInv, Counted, RequestOK,
         HandlerOK, AnswerOK, UnderWay
<1>3. ClientOK'
  BY DEF Call, Acquire, server, pipes, GoTo, IInv, ClientOK, UnderWay,
         Usable, TypeOK, Counted, ExchangeOK, HandlerOK, RequestOK,
         AnswerOK, Threads
<1>4. ExchangeOK'
  BY DEF Call, Acquire, server, pipes, GoTo, IInv, ExchangeOK, UnderWay,
         Usable, TypeOK, ClientOK
<1>5. LifecycleOK'
  BY DEF Call, Acquire, server, pipes, GoTo, IInv, LifecycleOK, Usable,
         Unanswered
<1>. QED
  BY <1>1, <1>2, <1>3, <1>4, <1>5 DEF IInv

LEMMA CloseKeeps ==
    ASSUME IInv, Close
    PROVE  IInv'
<1>1. TypeOK'
  BY DEF Close, LookAndClose, GoTo, server, pipes, IInv, TypeOK
<1>2. Counted' /\ RequestOK' /\ HandlerOK' /\ AnswerOK' /\ LifecycleOK'
  BY DEF Close, LookAndClose, GoTo, server, pipes, IInv, Counted, RequestOK,
         HandlerOK, AnswerOK, LifecycleOK, UnderWay, Usable, Unanswered
<1>3. ClientOK'
  BY DEF Close, LookAndClose, GoTo, server, pipes, IInv, ClientOK, UnderWay,
         Usable, TypeOK, Counted, ExchangeOK, HandlerOK, RequestOK,
         AnswerOK, Threads
<1>4. ExchangeOK'
  BY DEF Close, LookAndClose, GoTo, server, pipes, IInv, ExchangeOK,
         UnderWay, Usable
<1>. QED
  BY <1>1, <1>2, <1>3, <1>4 DEF IInv

LEMMA CloseCallKeeps ==
    ASSUME IInv, CloseCall
    PROVE  IInv'
<1>1. TypeOK'
  BY DEF CloseCall, Acquire, server, pipes, GoTo, IInv, TypeOK, Exchange,
         Handler, Request, Answer, Results, Threads, Operations, Moved,
         NextOperation, ClientOK
<1>2. Counted' /\ RequestOK' /\ HandlerOK' /\ AnswerOK'
  BY DEF CloseCall, Acquire, server, pipes, GoTo, IInv, Counted, RequestOK,
         HandlerOK, AnswerOK, UnderWay
<1>3. ClientOK'
  <2>1. /\ stage[Closer] = "calling" /\ engine = "closing" /\ engine' = engine
        /\ requestId' = requestId /\ accepted' = accepted /\ streamOpen' = streamOpen
        /\ lock # Closer
    BY DEF CloseCall, IInv, ClientOK, Threads
  <2>2. Closer \in Threads /\ stage \in [Threads -> {"idle", "calling", "locked", "wait",
                       "settled", "misfit", "verify", "cleanup"}]
    BY DEF Threads, IInv, TypeOK
  <2>3. \A t \in Threads : t # Closer => stage'[t] = stage[t]
    BY <2>2 DEF CloseCall, Acquire, GoTo
  <2>4. CASE lock = None
    <3>1. lock' = Closer /\ conn' = conn /\ stage'[Closer] = "locked"
      BY <2>2, <2>4 DEF CloseCall, Acquire, GoTo
    <3>. QED
      BY <2>1, <2>3, <2>4, <3>1 DEF IInv, ClientOK, UnderWay, Usable, Threads
  <2>5. CASE lock # None
    <3>1. lock' = lock /\ conn' = "tainted" /\ stage'[Closer] = "idle"
      BY <2>2, <2>5 DEF CloseCall, Acquire, GoTo
    <3>. QED
      BY <2>1, <2>3, <2>5, <3>1 DEF IInv, ClientOK, UnderWay, Usable, Threads
  <2>. QED
    BY <2>4, <2>5
<1>4. ExchangeOK'
  BY DEF CloseCall, Acquire, server, pipes, GoTo, IInv, ExchangeOK,
         UnderWay, Usable, TypeOK, ClientOK
<1>5. LifecycleOK'
  BY DEF CloseCall, Acquire, server, pipes, GoTo, IInv, LifecycleOK, Usable,
         Unanswered
<1>. QED
  BY <1>1, <1>2, <1>3, <1>4, <1>5 DEF IInv

LEMMA CleanupKeeps ==
    ASSUME IInv, Cleanup
    PROVE  IInv'
<1>1. TypeOK'
  <2>1. streamOpen' \in BOOLEAN
    BY DEF Cleanup, IInv, TypeOK
  <2>2. conn' \in {"new", "hello", "ready", "closed", "tainted"}
    BY DEF Cleanup, IInv, TypeOK
  <2>. QED
    BY <2>1, <2>2 DEF Cleanup, GoTo, server, pipes, IInv, TypeOK
<1>2. Counted' /\ RequestOK' /\ HandlerOK' /\ AnswerOK'
  BY DEF Cleanup, GoTo, server, pipes, IInv, Counted, RequestOK, HandlerOK,
         AnswerOK, UnderWay
<1>3. ClientOK'
  BY DEF Cleanup, GoTo, server, pipes, IInv, ClientOK, UnderWay, Usable,
         TypeOK, Counted, ExchangeOK, HandlerOK, RequestOK, AnswerOK,
         Threads
<1>4. ExchangeOK'
  <2>1. ~Usable'
    BY DEF Cleanup, Usable, IInv, ClientOK, Threads
  <2>. QED
    BY <2>1 DEF Cleanup, server, pipes, IInv, ExchangeOK, UnderWay
<1>5. LifecycleOK'
  BY DEF Cleanup, GoTo, server, pipes, IInv, LifecycleOK, Usable, Unanswered
<1>. QED
  BY <1>1, <1>2, <1>3, <1>4, <1>5 DEF IInv

LEMMA IssueKeeps ==
    ASSUME IInv, NEW t \in Threads, Issue(t)
    PROVE  IInv'
<1>1. TypeOK'
  BY DEF Issue, GoTo, server, pipes, IInv, TypeOK, Exchange, Handler,
         Request, Answer
<1>2. Counted'
  <2>1. /\ requestId' = requestId + 1 /\ requestId \in Nat /\ servedId' = servedId
        /\ accepted' = accepted /\ log' = log /\ servedId \in Nat
        /\ Len(accepted) \in Nat /\ Len(log) \in Nat
    BY LenProperties DEF Issue, server, IInv, TypeOK
  <2>2. requestId = Len(accepted)
    BY DEF Issue, Legal, Usable, UnderWay, IInv, ClientOK, TypeOK
  <2>. QED
    BY <2>1, <2>2 DEF Counted, IInv
<1>3. ClientOK'
  BY DEF Issue, GoTo, server, pipes, IInv, ClientOK, UnderWay, Usable,
         TypeOK, Counted, ExchangeOK, HandlerOK, RequestOK, AnswerOK,
         LifecycleOK, Unanswered, Exchange, Handler, Request, Answer,
         Results, Threads, Operations, Moved, Legal
<1>4. ExchangeOK'
  <2> DEFINE e == [id |-> requestId + 1, op |-> asking[t], by |-> t, stage |-> "write"]
  <2>1. Usable /\ ~UnderWay
    BY DEF Issue, Legal, Usable, IInv, ClientOK
  <2>2. exchanges = {} /\ handlers = {} /\ requests = <<>> /\ answers = <<>>
    BY <2>1 DEF IInv, ExchangeOK, HandlerOK, RequestOK, AnswerOK
  <2>3. peer = conn \/ serving \notin {"read", "run"}
    BY <2>1, <2>2 DEF IInv, LifecycleOK, Unanswered
  <2>4. /\ exchanges' = {e} /\ requestId' = requestId + 1 /\ stage'[t] = "wait"
        /\ Legal(conn, asking[t])
    BY <2>2 DEF Issue, GoTo, IInv, TypeOK
  <2>5. /\ requestId \in Nat /\ accepted' = accepted /\ servedId' = servedId
        /\ servedId \in Nat /\ peer' = peer /\ serving' = serving /\ log' = log
        /\ requests' = <<>> /\ answers' = <<>> /\ handlers' = {}
    BY <2>2 DEF Issue, server, pipes, IInv, TypeOK
  <2>6. Len(log) = requestId /\ Len(accepted) = requestId /\ servedId <= requestId
    BY <2>1, <2>5, LenProperties DEF IInv, TypeOK, Counted, UnderWay
  <2>7. e.id = requestId + 1 /\ e.by = t /\ e.op = asking[t] /\ e.stage = "write"
    OBVIOUS
  <2> HIDE DEF e
  <2>. QED
    BY <2>3, <2>4, <2>5, <2>6, <2>7 DEF ExchangeOK, UnderWay
<1>5. RequestOK'
  BY DEF Issue, GoTo, server, pipes, IInv, RequestOK, UnderWay, TypeOK,
         Counted, ClientOK, ExchangeOK, HandlerOK, AnswerOK, LifecycleOK,
         Unanswered, Usable, Exchange, Handler, Request, Answer, Results,
         Threads, Operations, Moved, Legal
<1>6. HandlerOK'
  BY DEF Issue, GoTo, server, pipes, IInv, HandlerOK, UnderWay, TypeOK,
         Counted, ClientOK, ExchangeOK, RequestOK, AnswerOK, LifecycleOK,
         Unanswered, Usable, Exchange, Handler, Request, Answer, Results,
         Threads, Operations, Moved, Legal
<1>7. AnswerOK'
  BY DEF Issue, GoTo, server, pipes, IInv, AnswerOK, UnderWay, TypeOK,
         Counted, ClientOK, ExchangeOK, HandlerOK, RequestOK, LifecycleOK,
         Unanswered, Usable, Exchange, Handler, Request, Answer, Results,
         Threads, Operations, Moved, Legal
<1>8. LifecycleOK'
  BY DEF Issue, GoTo, server, pipes, IInv, LifecycleOK, Usable, Unanswered
<1>. QED
  BY <1>1, <1>2, <1>3, <1>4, <1>5, <1>6, <1>7, <1>8 DEF IInv

LEMMA RefuseKeeps ==
    ASSUME IInv, NEW t \in Threads, Refuse(t)
    PROVE  IInv'
<1>1. TypeOK'
  BY DEF Refuse, Raise, server, pipes, GoTo, IInv, TypeOK
<1>2. Counted' /\ RequestOK' /\ HandlerOK' /\ AnswerOK'
  BY DEF Refuse, Raise, server, pipes, GoTo, IInv, Counted, RequestOK,
         HandlerOK, AnswerOK, UnderWay
<1>3. ClientOK'
  BY DEF Refuse, Raise, server, pipes, GoTo, IInv, ClientOK, UnderWay,
         Usable, TypeOK, Counted, ExchangeOK, HandlerOK, RequestOK,
         AnswerOK, Threads
<1>4. ExchangeOK'
  BY DEF Refuse, Raise, server, pipes, GoTo, IInv, ExchangeOK, UnderWay,
         Usable
<1>5. LifecycleOK'
  BY DEF Refuse, Raise, server, pipes, GoTo, IInv, LifecycleOK, Usable,
         Unanswered
<1>. QED
  BY <1>1, <1>2, <1>3, <1>4, <1>5 DEF IInv

LEMMA ExpireKeeps ==
    ASSUME IInv, NEW t \in Threads, Expire(t)
    PROVE  IInv'
<1>1. TypeOK'
  BY DEF Expire, Raise, server, pipes, GoTo, IInv, TypeOK
<1>2. Counted' /\ RequestOK' /\ HandlerOK' /\ AnswerOK'
  BY DEF Expire, Raise, server, pipes, GoTo, IInv, Counted, RequestOK,
         HandlerOK, AnswerOK, UnderWay
<1>3. ClientOK'
  BY DEF Expire, Raise, server, pipes, GoTo, IInv, ClientOK, UnderWay,
         Usable, TypeOK, Counted, ExchangeOK, HandlerOK, RequestOK,
         AnswerOK, Threads
<1>4. ExchangeOK'
  BY DEF Expire, Raise, server, pipes, GoTo, IInv, ExchangeOK, UnderWay,
         Usable
<1>5. LifecycleOK'
  BY DEF Expire, Raise, server, pipes, GoTo, IInv, LifecycleOK, Usable,
         Unanswered
<1>. QED
  BY <1>1, <1>2, <1>3, <1>4, <1>5 DEF IInv

LEMMA ReleaseKeeps ==
    ASSUME IInv, NEW t \in Threads, Release(t)
    PROVE  IInv'
<1>1. TypeOK'
  <2>1. stage' \in [Threads -> {"idle", "calling", "locked", "wait", "settled",
                              "misfit", "verify", "cleanup"}]
    BY DEF Release, GoTo, IInv, TypeOK
  <2>2. engine' \in {"constructing", "open", "closing"} /\ lock' = None
    BY DEF Release, IInv, TypeOK
  <2>. QED
    BY <2>1, <2>2 DEF Release, server, pipes, IInv, TypeOK
<1>2. Counted' /\ RequestOK' /\ HandlerOK' /\ AnswerOK' /\ LifecycleOK'
  BY DEF Release, GoTo, server, pipes, IInv, Counted, RequestOK, HandlerOK,
         AnswerOK, LifecycleOK, UnderWay, Usable, Unanswered
<1>3. ClientOK'
  <2>1. lock = t /\ lock' = None /\ stage' = [stage EXCEPT ![t] = stage'[t]]
        /\ stage'[t] \in {"idle", "verify"}
    BY DEF Release, GoTo, IInv, TypeOK, ClientOK
  <2>2. \A u \in Threads : u # t => stage'[u] = stage[u]
    BY <2>1 DEF IInv, TypeOK
  <2>3. ~(Usable /\ UnderWay)
    BY <2>1 DEF Release, IInv, ClientOK
  <2>4. /\ conn' = conn /\ requestId' = requestId /\ accepted' = accepted
        /\ streamOpen' = streamOpen
    BY DEF Release
  <2>5. \A u \in Threads : stage'[u] \notin {"locked", "wait", "settled", "misfit"}
    BY <2>1, <2>2 DEF IInv, ClientOK
  <2>6. stage'[Closer] # "idle" => engine' = "closing"
    <3>1. stage'[Closer] # "idle" => stage[Closer] # "idle"
      BY <2>1, <2>2 DEF Release, Threads
    <3>2. engine = "closing" => engine' = "closing"
      BY DEF Release
    <3>. QED
      BY <3>1, <3>2 DEF IInv, ClientOK
  <2>7. \A u \in Threads : stage'[u] = "cleanup" => ~Usable
    BY <2>1, <2>2 DEF IInv, ClientOK
  <2>8. \A u \in Threads : lock' # u
    BY <2>1
  <2>9. stage'[Runner] # "wait"
    BY <2>5 DEF Threads
  <2>. QED
    BY <2>3, <2>4, <2>5, <2>6, <2>7, <2>8, <2>9 DEF IInv, ClientOK, Usable, UnderWay
<1>4. ExchangeOK'
  <2>1. exchanges # {} => ~Usable
    BY DEF Release, IInv, ClientOK, ExchangeOK
  <2>2. Usable' = Usable
    BY DEF Release, Usable
  <2>. QED
    BY <2>1, <2>2 DEF Release, server, pipes, IInv, ExchangeOK, UnderWay
<1>. QED
  BY <1>1, <1>2, <1>3, <1>4 DEF IInv

LEMMA VerifyKeeps ==
    ASSUME IInv, NEW t \in Threads, Verify(t)
    PROVE  IInv'
<1>1. TypeOK'
  BY DEF Verify, GoTo, server, pipes, IInv, TypeOK
<1>2. Counted' /\ RequestOK' /\ HandlerOK' /\ AnswerOK'
  BY DEF Verify, GoTo, server, pipes, IInv, Counted, RequestOK, HandlerOK,
         AnswerOK, UnderWay
<1>3. ClientOK'
  BY DEF Verify, GoTo, server, pipes, IInv, ClientOK, UnderWay, Usable,
         TypeOK, Counted, ExchangeOK, HandlerOK, RequestOK, AnswerOK,
         Threads
<1>4. ExchangeOK'
  BY DEF Verify, GoTo, server, pipes, IInv, ExchangeOK, UnderWay, Usable
<1>5. LifecycleOK'
  BY DEF Verify, GoTo, server, pipes, IInv, LifecycleOK, Usable, Unanswered
<1>. QED
  BY <1>1, <1>2, <1>3, <1>4, <1>5 DEF IInv

LEMMA WriteKeeps ==
    ASSUME IInv, NEW x \in exchanges, Write(x)
    PROVE  IInv'
<1> DEFINE e == [id |-> x.id, op |-> x.op]
<1>a. /\ x \in Exchange /\ exchanges = {x} /\ requests = <<>> /\ answers = <<>>
      /\ handlers = {} /\ e \in Request /\ e.id = x.id /\ e.op = x.op
  BY DEF Write, IInv, TypeOK, ExchangeOK, Exchange, Request
<1>b. \/ /\ streamOpen /\ serving # "gone" /\ Becomes(x, "read")
         /\ requests' \in Seq(Request) /\ Len(requests') = 1 /\ Head(requests') = e
         /\ requests' # <<>>
      \/ Becomes(x, "error") /\ requests' = requests
  <2>1. Append(requests, e) \in Seq(Request) /\ Append(requests, e) # <<>>
        /\ Len(Append(requests, e)) = 1 /\ Head(Append(requests, e)) = e
    BY <1>a, Queued DEF IInv, TypeOK
  <2>. QED
    BY <2>1, <1>a DEF Write
<1>c. \E s \in {"read", "error"} :
         /\ s = "read" => streamOpen /\ serving # "gone" /\ requests' # <<>>
         /\ s = "error" => requests' = <<>>
         /\ exchanges' = {[x EXCEPT !.stage = s]}
         /\ [x EXCEPT !.stage = s] \in Exchange
         /\ [x EXCEPT !.stage = s].id = x.id /\ [x EXCEPT !.stage = s].op = x.op
         /\ [x EXCEPT !.stage = s].stage = s
  BY <1>a, <1>b, Alone DEF Results
<1>d. requests' \in Seq(Request)
  BY <1>b DEF IInv, TypeOK
<1>e. UNCHANGED <<conn, requestId, lock, stage, asking, streamOpen, server, answers,
                  accepted, engine>>
  BY DEF Write
<1> HIDE DEF e
<1>1. TypeOK'
  BY <1>c, <1>d, <1>e DEF server, IInv, TypeOK
<1>2. Counted' /\ ClientOK'
  BY DEF Write, Becomes, server, IInv, Counted, ClientOK, UnderWay, Usable
<1>3. ExchangeOK'
  BY <1>a, <1>b, <1>c DEF Write, Becomes, server, IInv, ExchangeOK,
         UnderWay, Usable, TypeOK, Counted, ClientOK, HandlerOK, RequestOK,
         AnswerOK, LifecycleOK, Unanswered, Exchange, Handler, Request,
         Answer, Results, Threads, Operations, Moved, Legal
<1>4. RequestOK'
  BY <1>a, <1>b, <1>c DEF Write, Becomes, server, IInv, RequestOK, UnderWay,
         TypeOK, Counted, ClientOK, ExchangeOK, HandlerOK, AnswerOK,
         LifecycleOK, Unanswered, Usable, Exchange, Handler, Request,
         Answer, Results, Threads, Operations, Moved, Legal
<1>5. HandlerOK'
  BY <1>a, <1>b, <1>c DEF Write, Becomes, server, IInv, HandlerOK, UnderWay,
         TypeOK, ExchangeOK, Usable
<1>6. AnswerOK'
  BY <1>a, <1>b, <1>c DEF Write, Becomes, server, IInv, AnswerOK, UnderWay,
         TypeOK, ExchangeOK, HandlerOK, Usable
<1>7. LifecycleOK'
  BY <1>a, <1>b, <1>c DEF Write, Becomes, server, IInv, LifecycleOK, Usable,
         Unanswered, TypeOK, Counted, ClientOK, ExchangeOK, HandlerOK,
         RequestOK, AnswerOK, UnderWay, Exchange, Handler, Request, Answer,
         Results, Threads, Operations, Moved, Legal
<1>. QED
  BY <1>1, <1>2, <1>3, <1>4, <1>5, <1>6, <1>7 DEF IInv

LEMMA ReadKeeps ==
    ASSUME IInv, NEW x \in exchanges, Read(x)
    PROVE  IInv'
<1>a. /\ Head(answers) \in Answer /\ answers' \in Seq(Answer) /\ answers' = <<>>
      /\ Len(answers) = 1
  BY Taken DEF Read, IInv, TypeOK, AnswerOK
<1> DEFINE s == IF Head(answers).id = x.id /\ Head(answers).op = x.op
                THEN Head(answers).result ELSE "error"
<1>b. s \in Results
  BY <1>a DEF Answer, Results
<1>c. /\ x \in Exchange /\ exchanges = {x}
      /\ exchanges' = {[x EXCEPT !.stage = s]}
      /\ [x EXCEPT !.stage = s] \in Exchange
      /\ [x EXCEPT !.stage = s].id = x.id /\ [x EXCEPT !.stage = s].op = x.op
      /\ [x EXCEPT !.stage = s].by = x.by /\ [x EXCEPT !.stage = s].stage = s
  <2>1. Becomes(x, s)
    BY DEF Read
  <2>. QED
    BY <2>1, <1>b, Alone
<1>d. Head(answers).id = x.id /\ Head(answers).op = x.op /\ s = Head(answers).result
  BY <1>a, <1>c DEF IInv, AnswerOK, ExchangeOK, Read
<1>e. UNCHANGED <<conn, requestId, lock, stage, asking, streamOpen, server, requests,
                  accepted, engine>>
  BY DEF Read
<1> HIDE DEF s
<1>1. TypeOK'
  BY <1>a, <1>c, <1>e DEF server, IInv, TypeOK
<1>2. Counted' /\ ClientOK'
  BY DEF Read, Becomes, server, IInv, Counted, ClientOK, UnderWay, Usable
<1>3. ExchangeOK'
  <2>1. /\ UnderWay /\ x.id = requestId
        /\ Usable => stage[x.by] = "wait"
        /\ s \in {"good", "bad"} => Len(log) = requestId /\ handlers = {}
        /\ requests = <<>>
    BY <1>a, <1>b, <1>c, <1>d DEF Read, IInv, ExchangeOK, RequestOK, HandlerOK, AnswerOK, Results
  <2>a. /\ conn' = conn /\ requestId' = requestId /\ accepted' = accepted
        /\ requests' = requests /\ stage' = stage
    BY <1>e
  <2>b. handlers' = handlers /\ log' = log /\ serving' = serving
    BY <1>e DEF server
  <2>c. UnderWay' /\ (Usable' => Usable)
    BY <2>a, <2>1 DEF UnderWay, Usable
  <2>2. requests' = <<>>
    BY <2>a, <2>1
  <2>3. s # "write"
    BY <1>b DEF Results
  <2>4. SUFFICES ASSUME NEW y \in exchanges'
                 PROVE  /\ y.id = requestId /\ \A z \in exchanges' : y = z
                        /\ Usable' => stage[y.by] = "wait"
                        /\ y.stage # "write"
                        /\ y.stage \in {"good", "bad"} =>
                              answers' = <<>> /\ handlers = {} /\ Len(log) = requestId
    BY <2>a, <2>b, <2>c, <2>2 DEF ExchangeOK
  <2>5. y.id = x.id /\ y.by = x.by /\ y.stage = s /\ \A z \in exchanges' : y = z
    BY <1>c
  <2>. QED
    BY <1>a, <2>1, <2>a, <2>b, <2>c, <2>3, <2>5
<1>4. RequestOK'
  BY <1>a, <1>b, <1>c, <1>d DEF Read, Becomes, server, IInv, RequestOK,
         UnderWay
<1>5. HandlerOK'
  <2>1. \A h \in handlers : s \notin {"good", "bad"} /\ serving # "run"
    BY <1>a, <1>d DEF Read, IInv, AnswerOK, HandlerOK
  <2>2. /\ requestId' = requestId /\ accepted' = accepted /\ handlers' = handlers
        /\ servedId' = servedId /\ serving' = serving /\ log' = log
    BY <1>e DEF server
  <2>3. \A h \in handlers : \A y \in exchanges' : y.op = h.op
    BY <1>c DEF IInv, HandlerOK
  <2>. QED
    BY <1>a, <2>2, <2>3 DEF IInv, HandlerOK, UnderWay
<1>6. AnswerOK'
  BY <1>a, <1>b, <1>c, <1>d DEF Read, Becomes, server, IInv, AnswerOK,
         UnderWay, TypeOK, Counted, ClientOK, ExchangeOK, HandlerOK,
         RequestOK, LifecycleOK, Unanswered, Usable, Exchange, Handler,
         Request, Answer, Results, Threads, Operations, Moved, Legal
<1>7. LifecycleOK'
  <2>1. Usable /\ serving \in {"read", "run"} => peer = Moved(conn, x.op)
    BY <1>a, <1>d DEF Read, IInv, LifecycleOK
  <2>2. s = "error" => serving \notin {"read", "run"}
    BY <1>a, <1>d DEF Read, IInv, AnswerOK, HandlerOK
  <2>. QED
    BY <1>a, <1>b, <1>c, <1>e, <2>1, <2>2 DEF LifecycleOK, Unanswered, Usable, server, Results
<1>. QED
  BY <1>1, <1>2, <1>3, <1>4, <1>5, <1>6, <1>7 DEF IInv

LEMMA ReadFailsKeeps ==
    ASSUME IInv, NEW x \in exchanges, ReadFails(x)
    PROVE  IInv'
<1>a. /\ x \in Exchange /\ exchanges = {x}
      /\ exchanges' = {[x EXCEPT !.stage = "error"]}
      /\ [x EXCEPT !.stage = "error"] \in Exchange
      /\ [x EXCEPT !.stage = "error"].id = x.id /\ [x EXCEPT !.stage = "error"].op = x.op
      /\ [x EXCEPT !.stage = "error"].by = x.by
      /\ [x EXCEPT !.stage = "error"].stage = "error"
  BY Alone DEF ReadFails, Results
<1>1. TypeOK'
  <2>1. exchanges' \subseteq Exchange
    BY <1>a
  <2>. QED
    BY <2>1 DEF ReadFails, server, pipes, IInv, TypeOK
<1>2. Counted' /\ ClientOK'
  BY DEF ReadFails, Becomes, server, pipes, IInv, Counted, ClientOK,
         UnderWay, Usable
<1>3. ExchangeOK'
  <2>1. /\ conn' = conn /\ requestId' = requestId /\ accepted' = accepted
        /\ stage' = stage
    BY DEF ReadFails
  <2>2. UnderWay /\ x.id = requestId /\ (Usable => stage[x.by] = "wait")
    BY DEF IInv, ExchangeOK
  <2>3. UnderWay' /\ (Usable' => Usable)
    BY <2>1, <2>2 DEF UnderWay, Usable
  <2>4. SUFFICES ASSUME NEW y \in exchanges'
                 PROVE  /\ y.id = requestId /\ \A z \in exchanges' : y = z
                        /\ Usable' => stage[y.by] = "wait"
                        /\ y.stage = "error"
    BY <2>1, <2>3 DEF ExchangeOK
  <2>. QED
    BY <1>a, <2>2, <2>3
<1>4. RequestOK'
  BY <1>a DEF ReadFails, Becomes, server, pipes, IInv, RequestOK, UnderWay,
         TypeOK, Counted, ClientOK, ExchangeOK, HandlerOK, AnswerOK,
         LifecycleOK, Unanswered, Usable, Exchange, Handler, Request,
         Answer, Results, Threads, Operations, Moved, Legal
<1>5. HandlerOK'
  BY <1>a DEF ReadFails, Becomes, server, pipes, IInv, HandlerOK, UnderWay,
         TypeOK, Counted, ClientOK, ExchangeOK, RequestOK, AnswerOK,
         LifecycleOK, Unanswered, Usable, Exchange, Handler, Request,
         Answer, Results, Threads, Operations, Moved, Legal
<1>6. AnswerOK'
  BY <1>a DEF ReadFails, Becomes, server, pipes, IInv, AnswerOK, UnderWay,
         TypeOK, Counted, ClientOK, ExchangeOK, HandlerOK, RequestOK,
         LifecycleOK, Unanswered, Usable, Exchange, Handler, Request,
         Answer, Results, Threads, Operations, Moved, Legal
<1>7. LifecycleOK'
  BY <1>a DEF ReadFails, Becomes, server, pipes, IInv, LifecycleOK, Usable,
         Unanswered, TypeOK, ClientOK, UnderWay
<1>. QED
  BY <1>1, <1>2, <1>3, <1>4, <1>5, <1>6, <1>7 DEF IInv

LEMMA SettleKeeps ==
    ASSUME IInv, NEW x \in exchanges, Settle(x)
    PROVE  IInv'
<1>a. /\ x \in Exchange /\ exchanges = {x} /\ exchanges' = {} /\ x.by = lock
      /\ x.id = requestId /\ requests = <<>> /\ answers = <<>> /\ handlers = {}
      /\ Len(log) = requestId /\ x.by \in Threads
  BY DEF Settle, IInv, TypeOK, ExchangeOK, Exchange, ClientOK
<1>b. /\ accepted' \in Seq(Nat) /\ Len(accepted') = Len(accepted) + 1
      /\ Len(accepted) \in Nat /\ Len(accepted') = requestId
      /\ \A i \in 1 .. Len(accepted) : accepted'[i] = accepted[i]
      /\ accepted'[requestId] = requestId
  BY <1>a, AppendProperties DEF Settle, IInv, TypeOK, Exchange, Counted, ExchangeOK, UnderWay
<1>c. /\ stage' = [stage EXCEPT ![x.by] = stage'[x.by]]
      /\ stage'[x.by] \in {"settled", "misfit"}
      /\ \A t \in Threads : t # x.by => stage'[t] = stage[t]
  BY <1>a DEF Settle, GoTo, IInv, TypeOK
<1>1. TypeOK'
  <2>1. conn' \in {"new", "hello", "ready", "closed", "tainted"}
    BY DEF Settle, Moved, IInv, TypeOK
  <2>2. stage' \in [Threads -> {"idle", "calling", "locked", "wait", "settled",
                              "misfit", "verify", "cleanup"}]
    BY <1>a DEF Settle, GoTo, IInv, TypeOK
  <2>. QED
    BY <1>a, <1>b, <2>1, <2>2 DEF Settle, server, pipes, IInv, TypeOK
<1>2. Counted'
  BY <1>a, <1>b, <1>c DEF Settle, GoTo, server, pipes, IInv, Counted,
         TypeOK, ExchangeOK, HandlerOK, RequestOK, AnswerOK, UnderWay,
         Usable, Results
<1>3. ClientOK'
  <2>1. \A t \in Threads :
           stage'[t] \in {"settled", "misfit"} \/ (t # lock /\ stage'[t] = stage[t])
    BY <1>a, <1>c
  <2>2. lock' = lock /\ streamOpen' = streamOpen
    BY DEF Settle
  <2>3. \A t \in Threads : stage'[t] \in {"locked", "wait", "settled", "misfit"} <=> lock' = t
    BY <1>a, <1>c, <2>1, <2>2 DEF IInv, ClientOK
  <2>4. requestId' = requestId /\ requestId' = Len(accepted')
    BY <1>b DEF Settle
  <2>5. \A t \in Threads : stage'[t] # "wait"
    BY <2>1, <2>2, <1>a DEF IInv, ClientOK
  <2>6. Usable /\ engine' = engine
    BY <1>a DEF Settle, Usable, IInv, ClientOK
  <2>7. \A t \in Threads : stage'[t] # "cleanup"
    BY <2>1, <2>6 DEF IInv, ClientOK
  <2>8. stage'[Closer] # "idle" => engine' = "closing"
    <3>1. Closer \in Threads /\ stage[x.by] = "wait"
      BY DEF Settle, Threads
    <3>2. stage[Closer] = "idle" => stage'[Closer] = "idle"
      BY <3>1, <1>c
    <3>. QED
      BY <3>2, <2>6 DEF IInv, ClientOK
  <2>9. (Usable /\ UnderWay)' => FALSE
    BY <2>4 DEF UnderWay
  <2>10. streamOpen'
    BY <2>2, <2>6 DEF IInv, ClientOK
  <2>11. stage'[Runner] # "wait"
    BY <2>5 DEF Threads
  <2>. QED
    BY <2>3, <2>5, <2>7, <2>8, <2>9, <2>10, <2>11 DEF ClientOK
<1>4. ExchangeOK'
  BY <1>a, <1>b, <1>c DEF Settle, GoTo, server, pipes, IInv, ExchangeOK,
         UnderWay, Usable
<1>5. RequestOK'
  BY <1>a, <1>b, <1>c DEF Settle, GoTo, server, pipes, IInv, RequestOK,
         UnderWay, TypeOK, ExchangeOK, HandlerOK, Usable
<1>6. HandlerOK'
  BY <1>a, <1>b, <1>c DEF Settle, GoTo, server, pipes, IInv, HandlerOK,
         UnderWay, TypeOK, ExchangeOK, Usable
<1>7. AnswerOK'
  BY <1>a, <1>b, <1>c DEF Settle, GoTo, server, pipes, IInv, AnswerOK,
         UnderWay, TypeOK, ExchangeOK, HandlerOK, Usable
<1>8. LifecycleOK'
  <2>1. /\ peer' = peer /\ answers' = answers /\ serving' = serving
        /\ conn' = Moved(conn, x.op) /\ conn # "tainted"
    BY DEF Settle, pipes, server
  <2>2. Usable
    BY <2>1, <1>a DEF Settle, Usable, IInv, ClientOK
  <2>3. Usable' /\ serving \in {"read", "run"} => peer = conn'
    BY <2>1, <2>2 DEF Settle, IInv, LifecycleOK
  <2>. QED
    BY <1>a, <2>1, <2>3 DEF LifecycleOK, Unanswered, Usable
<1>. QED
  BY <1>1, <1>2, <1>3, <1>4, <1>5, <1>6, <1>7, <1>8 DEF IInv

LEMMA DiscardKeeps ==
    ASSUME IInv, NEW x \in exchanges, Discard(x)
    PROVE  IInv'
<1>1. TypeOK'
  BY DEF Discard, Raise, server, pipes, GoTo, IInv, TypeOK
<1>2. Counted'
  BY DEF Discard, Raise, server, pipes, GoTo, IInv, Counted
<1>3. ClientOK'
  BY DEF Discard, Raise, server, pipes, GoTo, IInv, ClientOK, UnderWay,
         Usable, TypeOK, Counted, ExchangeOK, HandlerOK, RequestOK,
         AnswerOK, LifecycleOK, Unanswered, Exchange, Handler, Request,
         Answer, Results, Threads, Operations, Moved, Legal
<1>4. ExchangeOK'
  BY DEF Discard, Raise, server, pipes, GoTo, IInv, ExchangeOK, UnderWay,
         Usable
<1>5. RequestOK'
  BY DEF Discard, Raise, server, pipes, GoTo, IInv, RequestOK, UnderWay
<1>6. HandlerOK'
  BY DEF Discard, Raise, server, pipes, GoTo, IInv, HandlerOK, UnderWay
<1>7. AnswerOK'
  BY DEF Discard, Raise, server, pipes, GoTo, IInv, AnswerOK, UnderWay
<1>8. LifecycleOK'
  BY DEF Discard, Raise, server, pipes, GoTo, IInv, LifecycleOK, Usable,
         Unanswered
<1>. QED
  BY <1>1, <1>2, <1>3, <1>4, <1>5, <1>6, <1>7, <1>8 DEF IInv

LEMMA FadeKeeps ==
    ASSUME IInv, NEW x \in exchanges, Fade(x)
    PROVE  IInv'
<1>a. x \in Exchange /\ exchanges = {x} /\ exchanges' = {}
  BY DEF Fade, IInv, TypeOK, ExchangeOK
<1>1. TypeOK'
  BY <1>a DEF Fade, server, pipes, IInv, TypeOK
<1>2. Counted' /\ ClientOK'
  BY DEF Fade, server, pipes, IInv, Counted, ClientOK, UnderWay, Usable
<1>3. ExchangeOK'
  BY <1>a DEF Fade, server, pipes, IInv, ExchangeOK, UnderWay, Usable
<1>4. RequestOK'
  BY <1>a DEF Fade, server, pipes, IInv, RequestOK, UnderWay
<1>5. HandlerOK'
  BY <1>a DEF Fade, server, pipes, IInv, HandlerOK, UnderWay
<1>6. AnswerOK'
  BY <1>a DEF Fade, server, pipes, IInv, AnswerOK, UnderWay
<1>7. LifecycleOK'
  <2>1. ~Usable
    BY DEF Fade, IInv, ExchangeOK
  <2>. QED
    BY <2>1 DEF Fade, LifecycleOK, Usable
<1>. QED
  BY <1>1, <1>2, <1>3, <1>4, <1>5, <1>6, <1>7 DEF IInv

LEMMA ReceiveKeeps ==
    ASSUME IInv, Receive
    PROVE  IInv'
<1>a. /\ Head(requests) \in Request /\ requests' \in Seq(Request) /\ requests' = <<>>
      /\ answers = <<>> /\ handlers = {} /\ Head(requests).id = requestId
      /\ Len(log) = Len(accepted) /\ servedId < requestId /\ UnderWay
      /\ Legal(peer, Head(requests).op)
      /\ \A x \in exchanges : x.op = Head(requests).op
  BY Taken DEF Receive, IInv, TypeOK, RequestOK
<1> DEFINE h == [id |-> Head(requests).id, op |-> Head(requests).op, stage |-> "start"]
<1>b. h \in Handler /\ h.id = requestId /\ h.op = Head(requests).op /\ h.stage = "start"
  BY <1>a DEF Handler, Request
<1>c. /\ servedId' = requestId /\ serving' = "run" /\ handlers' = {h}
      /\ answers' = <<>> /\ answers' = answers
  BY <1>a DEF Receive, IInv, TypeOK, Request
<1>d. UNCHANGED <<peer, engineLock, log, client, accepted, engine>>
  BY DEF Receive
<1> HIDE DEF h
<1>1. TypeOK'
  <2>1. servedId' \in Nat /\ handlers' \subseteq Handler /\ answers' \in Seq(Answer)
    BY <1>b, <1>c DEF IInv, TypeOK
  <2>. QED
    BY <1>a, <1>c, <1>d, <2>1 DEF client, IInv, TypeOK
<1>2. ClientOK'
  BY DEF Receive, Respond, client, IInv, ClientOK, UnderWay, Usable
<1>3. Counted'
  BY <1>a, <1>b, <1>c, <1>d DEF Receive, Respond, client, IInv, Counted,
         TypeOK, ExchangeOK, HandlerOK, RequestOK, AnswerOK, UnderWay,
         Usable, Results
<1>4. ExchangeOK'
  BY <1>a, <1>b, <1>c, <1>d DEF Receive, Respond, client, IInv, ExchangeOK,
         UnderWay, Usable
<1>5. RequestOK'
  BY <1>a, <1>b, <1>c, <1>d DEF Receive, Respond, client, IInv, RequestOK,
         UnderWay, TypeOK
<1>6. HandlerOK'
  BY <1>a, <1>b, <1>c, <1>d DEF Receive, Respond, client, IInv, HandlerOK,
         UnderWay, TypeOK, Counted, ClientOK, ExchangeOK, RequestOK,
         AnswerOK, LifecycleOK, Unanswered, Usable, Exchange, Handler,
         Request, Answer, Results, Threads, Operations, Moved, Legal
<1>7. AnswerOK'
  BY <1>a, <1>b, <1>c, <1>d DEF Receive, Respond, client, IInv, AnswerOK,
         UnderWay, TypeOK, ExchangeOK, HandlerOK, RequestOK, Usable, Results
<1>8. LifecycleOK'
  BY <1>a, <1>b, <1>c, <1>d DEF Receive, Respond, client, IInv, LifecycleOK,
         Usable, Unanswered
<1>. QED
  BY <1>1, <1>2, <1>3, <1>4, <1>5, <1>6, <1>7, <1>8 DEF IInv

LEMMA GiveUpKeeps ==
    ASSUME IInv, GiveUp
    PROVE  IInv'
<1>1. TypeOK'
  BY DEF GiveUp, client, pipes, IInv, TypeOK
<1>2. Counted' /\ ClientOK'
  BY DEF GiveUp, client, pipes, IInv, Counted, ClientOK, UnderWay, Usable
<1>3. ExchangeOK'
  BY DEF GiveUp, client, pipes, IInv, ExchangeOK, UnderWay, Usable
<1>4. RequestOK'
  BY DEF GiveUp, client, pipes, IInv, RequestOK, UnderWay
<1>5. HandlerOK'
  BY DEF GiveUp, client, pipes, IInv, HandlerOK, UnderWay
<1>6. AnswerOK'
  BY DEF GiveUp, client, pipes, IInv, AnswerOK, UnderWay
<1>7. LifecycleOK'
  BY DEF GiveUp, client, pipes, IInv, LifecycleOK, Usable, Unanswered
<1>. QED
  BY <1>1, <1>2, <1>3, <1>4, <1>5, <1>6, <1>7 DEF IInv

LEMMA ServerEndsKeeps ==
    ASSUME IInv, ServerEnds
    PROVE  IInv'
<1>1. TypeOK'
  BY DEF ServerEnds, client, pipes, IInv, TypeOK
<1>2. Counted' /\ ClientOK'
  BY DEF ServerEnds, client, pipes, IInv, Counted, ClientOK, UnderWay,
         Usable
<1>3. ExchangeOK'
  BY DEF ServerEnds, client, pipes, IInv, ExchangeOK, UnderWay, Usable
<1>4. RequestOK'
  BY DEF ServerEnds, client, pipes, IInv, RequestOK, UnderWay
<1>5. HandlerOK'
  BY DEF ServerEnds, client, pipes, IInv, HandlerOK, UnderWay
<1>6. AnswerOK'
  BY DEF ServerEnds, client, pipes, IInv, AnswerOK, UnderWay
<1>7. LifecycleOK'
  BY DEF ServerEnds, client, pipes, IInv, LifecycleOK, Usable, Unanswered
<1>. QED
  BY <1>1, <1>2, <1>3, <1>4, <1>5, <1>6, <1>7 DEF IInv

LEMMA CrashKeeps ==
    ASSUME IInv, Crash
    PROVE  IInv'
<1>1. TypeOK'
  BY DEF Crash, client, pipes, IInv, TypeOK
<1>2. Counted' /\ ClientOK'
  BY DEF Crash, client, pipes, IInv, Counted, ClientOK, UnderWay, Usable
<1>3. ExchangeOK'
  BY DEF Crash, client, pipes, IInv, ExchangeOK, UnderWay, Usable
<1>4. RequestOK'
  BY DEF Crash, client, pipes, IInv, RequestOK, UnderWay
<1>5. HandlerOK'
  BY DEF Crash, client, pipes, IInv, HandlerOK, UnderWay
<1>6. AnswerOK'
  BY DEF Crash, client, pipes, IInv, AnswerOK, UnderWay
<1>7. LifecycleOK'
  BY DEF Crash, client, pipes, IInv, LifecycleOK, Usable, Unanswered
<1>. QED
  BY <1>1, <1>2, <1>3, <1>4, <1>5, <1>6, <1>7 DEF IInv

LEMMA EnterKeeps ==
    ASSUME IInv, NEW h \in handlers, Enter(h)
    PROVE  IInv'
<1> DEFINE k == [h EXCEPT !.stage = "inside"]
<1>a. /\ h \in Handler /\ handlers = {h} /\ handlers' = {k} /\ k \in Handler
      /\ k.id = h.id /\ k.op = h.op /\ k.stage = "inside"
  BY OneHandler DEF Enter, Turns, Handler
<1>b. /\ h.id \in Nat /\ h.id = requestId /\ log \in Seq(Nat) /\ Len(log) \in Nat
      /\ Len(accepted) \in Nat
      /\ requestId = Len(log) + 1 /\ Len(accepted) = Len(log)
  BY <1>a DEF Enter, IInv, TypeOK, Handler, HandlerOK, Counted, UnderWay
<1>c. /\ log' \in Seq(Nat) /\ Len(log') = requestId
      /\ \A i \in 1 .. Len(log) : log'[i] = log[i]
      /\ log'[requestId] = requestId
  BY <1>b, AppendProperties DEF Enter
<1> HIDE DEF k
<1>1. TypeOK'
  BY <1>a, <1>b, <1>c DEF Enter, Turns, client, pipes, IInv, TypeOK,
         Exchange, Handler, Request, Answer, Results, Threads, Operations,
         Moved, NextOperation, ClientOK
<1>2. ClientOK' /\ LifecycleOK'
  BY DEF Enter, Turns, client, pipes, IInv, ClientOK, LifecycleOK, UnderWay,
         Usable, Unanswered
<1>3. Counted'
  BY <1>a, <1>b, <1>c DEF Enter, Turns, client, pipes, IInv, Counted,
         TypeOK, ExchangeOK, HandlerOK, UnderWay, Usable
<1>4. ExchangeOK'
  BY <1>a, <1>b, <1>c DEF Enter, Turns, client, pipes, IInv, ExchangeOK,
         UnderWay, Usable
<1>5. RequestOK'
  BY <1>a, <1>b, <1>c DEF Enter, Turns, client, pipes, IInv, RequestOK,
         UnderWay
<1>6. HandlerOK'
  <2>1. /\ requestId' = requestId /\ servedId' = servedId /\ serving' = serving
        /\ answers' = answers /\ exchanges' = exchanges /\ accepted' = accepted
    BY DEF Enter, client, pipes
  <2>2. /\ servedId = requestId /\ serving # "read" /\ h.id = requestId /\ UnderWay
        /\ \A y \in exchanges : y.op = h.op
        /\ serving = "run" => answers = <<>>
    BY <1>a DEF IInv, HandlerOK
  <2>. QED
    BY <1>a, <1>b, <1>c, <2>1, <2>2 DEF HandlerOK, UnderWay
<1>7. AnswerOK'
  BY <1>a, <1>b, <1>c DEF Enter, Turns, client, pipes, IInv, AnswerOK,
         UnderWay
<1>. QED
  BY <1>1, <1>2, <1>3, <1>4, <1>5, <1>6, <1>7 DEF IInv

LEMMA ReplyKeeps ==
    ASSUME IInv, NEW h \in handlers, Reply(h)
    PROVE  IInv'
<1>a. h \in Handler /\ handlers = {h} /\ answers = <<>>
  BY OneHandler DEF Reply, IInv, HandlerOK
<1>b. \/ answers' = <<>>
      \/ \E e \in Answer : /\ answers' \in Seq(Answer) /\ answers' # <<>>
                            /\ Len(answers') = 1 /\ Head(answers') = e
                            /\ e.id = h.id /\ e.op = h.op /\ e.result = h.stage
  <2> DEFINE e == [id |-> h.id, op |-> h.op, result |-> h.stage]
  <2>1. e \in Answer /\ e.id = h.id /\ e.op = h.op /\ e.result = h.stage
    BY <1>a DEF Reply, Answer, Handler, Results
  <2>2. answers' = answers \/ answers' = Append(answers, e)
    BY DEF Reply, Respond
  <2>3. Append(answers, e) \in Seq(Answer) /\ Append(answers, e) # <<>>
        /\ Len(Append(answers, e)) = 1 /\ Head(Append(answers, e)) = e
    BY <2>1, <1>a, Queued DEF IInv, TypeOK
  <2>. QED
    BY <2>1, <2>2, <2>3, <1>a
<1>1. TypeOK'
  <2>1. answers' \in Seq(Answer) /\ handlers' \subseteq Handler
    BY <1>a, <1>b DEF Reply, IInv, TypeOK
  <2>2. serving' \in {"ending", "read"} /\ peer' \in {"new", "hello", "ready", "closed"}
    BY DEF Reply, Moved, IInv, TypeOK
  <2>. QED
    BY <2>1, <2>2 DEF Reply, client, IInv, TypeOK
<1>2. Counted' /\ ClientOK'
  BY DEF Reply, Respond, client, IInv, Counted, ClientOK, UnderWay, Usable
<1>3. ExchangeOK'
  BY <1>a, <1>b DEF Reply, Respond, client, IInv, ExchangeOK, UnderWay,
         Usable
<1>4. RequestOK'
  BY <1>a, <1>b DEF Reply, Respond, client, IInv, RequestOK, UnderWay
<1>5. HandlerOK'
  BY <1>a, <1>b DEF Reply, Respond, client, IInv, HandlerOK, UnderWay
<1>6. AnswerOK'
  BY <1>a, <1>b DEF Reply, Respond, client, IInv, AnswerOK, UnderWay,
         TypeOK, ExchangeOK, HandlerOK, RequestOK, Usable, Results
<1>7. LifecycleOK'
  BY <1>a, <1>b DEF Reply, Respond, client, IInv, LifecycleOK, Usable,
         Unanswered, TypeOK, Counted, ClientOK, ExchangeOK, HandlerOK,
         RequestOK, AnswerOK, UnderWay, Exchange, Handler, Request, Answer,
         Results, Threads, Operations, Moved, Legal
<1>. QED
  BY <1>1, <1>2, <1>3, <1>4, <1>5, <1>6, <1>7 DEF IInv

LEMMA ReplyFailsKeeps ==
    ASSUME IInv, NEW h \in handlers, ReplyFails(h)
    PROVE  IInv'
<1>a. h \in Handler /\ handlers = {h} /\ answers = <<>>
  BY OneHandler DEF ReplyFails, IInv, HandlerOK
<1>b. \/ answers' = <<>>
      \/ \E e \in Answer : /\ answers' \in Seq(Answer) /\ answers' # <<>>
                            /\ Len(answers') = 1 /\ Head(answers') = e
                            /\ e.id = h.id /\ e.op = h.op /\ e.result = h.stage
  <2> DEFINE e == [id |-> h.id, op |-> h.op, result |-> h.stage]
  <2>1. e \in Answer /\ e.id = h.id /\ e.op = h.op /\ e.result = h.stage
    BY <1>a DEF ReplyFails, Answer, Handler, Results
  <2>2. answers' = answers \/ answers' = Append(answers, e)
    BY DEF ReplyFails, Respond
  <2>3. Append(answers, e) \in Seq(Answer) /\ Append(answers, e) # <<>>
        /\ Len(Append(answers, e)) = 1 /\ Head(Append(answers, e)) = e
    BY <2>1, <1>a, Queued DEF IInv, TypeOK
  <2>. QED
    BY <2>1, <2>2, <2>3, <1>a
<1>1. TypeOK'
  <2>1. answers' \in Seq(Answer)
    BY <1>a, <1>b DEF IInv, TypeOK
  <2>. QED
    BY <1>a, <2>1 DEF ReplyFails, client, IInv, TypeOK
<1>2. Counted' /\ ClientOK'
  BY DEF ReplyFails, Respond, client, IInv, Counted, ClientOK, UnderWay,
         Usable
<1>3. ExchangeOK'
  BY <1>a, <1>b DEF ReplyFails, Respond, client, IInv, ExchangeOK, UnderWay,
         Usable
<1>4. RequestOK'
  BY <1>a, <1>b DEF ReplyFails, Respond, client, IInv, RequestOK, UnderWay
<1>5. HandlerOK'
  BY <1>a, <1>b DEF ReplyFails, Respond, client, IInv, HandlerOK, UnderWay
<1>6. AnswerOK'
  BY <1>a, <1>b DEF ReplyFails, Respond, client, IInv, AnswerOK, UnderWay,
         TypeOK, Counted, ClientOK, ExchangeOK, HandlerOK, RequestOK,
         LifecycleOK, Unanswered, Usable, Exchange, Handler, Request,
         Answer, Results, Threads, Operations, Moved, Legal
<1>7. LifecycleOK'
  BY <1>a, <1>b DEF ReplyFails, Respond, client, IInv, LifecycleOK, Usable,
         Unanswered
<1>. QED
  BY <1>1, <1>2, <1>3, <1>4, <1>5, <1>6, <1>7 DEF IInv

LEMMA OverrunKeeps ==
    ASSUME IInv, NEW h \in handlers, Overrun(h)
    PROVE  IInv'
<1>a. h \in Handler /\ handlers = {h} /\ answers = <<>>
  BY OneHandler DEF Overrun, IInv, HandlerOK
<1>b. \/ answers' = <<>>
      \/ \E e \in Answer : /\ answers' \in Seq(Answer) /\ answers' # <<>>
                            /\ Len(answers') = 1 /\ Head(answers') = e
                            /\ e.id = h.id /\ e.op = h.op /\ e.result = "error"
  <2> DEFINE e == [id |-> h.id, op |-> h.op, result |-> "error"]
  <2>1. e \in Answer /\ e.id = h.id /\ e.op = h.op /\ e.result = "error"
    BY <1>a DEF Overrun, Answer, Handler, Results
  <2>2. answers' = answers \/ answers' = Append(answers, e)
    BY DEF Overrun, Respond
  <2>3. Append(answers, e) \in Seq(Answer) /\ Append(answers, e) # <<>>
        /\ Len(Append(answers, e)) = 1 /\ Head(Append(answers, e)) = e
    BY <2>1, <1>a, Queued DEF IInv, TypeOK
  <2>. QED
    BY <2>1, <2>2, <2>3, <1>a
<1>1. TypeOK'
  <2>1. answers' \in Seq(Answer)
    BY <1>a, <1>b DEF IInv, TypeOK
  <2>. QED
    BY <1>a, <2>1 DEF Overrun, client, IInv, TypeOK
<1>2. Counted' /\ ClientOK'
  BY DEF Overrun, Respond, client, IInv, Counted, ClientOK, UnderWay, Usable
<1>3. ExchangeOK'
  BY <1>a, <1>b DEF Overrun, Respond, client, IInv, ExchangeOK, UnderWay,
         Usable
<1>4. RequestOK'
  BY <1>a, <1>b DEF Overrun, Respond, client, IInv, RequestOK, UnderWay
<1>5. HandlerOK'
  BY <1>a, <1>b DEF Overrun, Respond, client, IInv, HandlerOK, UnderWay
<1>6. AnswerOK'
  BY <1>a, <1>b DEF Overrun, Respond, client, IInv, AnswerOK, UnderWay,
         TypeOK, Counted, ClientOK, ExchangeOK, HandlerOK, RequestOK,
         LifecycleOK, Unanswered, Usable, Exchange, Handler, Request,
         Answer, Results, Threads, Operations, Moved, Legal
<1>7. LifecycleOK'
  BY <1>a, <1>b DEF Overrun, Respond, client, IInv, LifecycleOK, Usable,
         Unanswered
<1>. QED
  BY <1>1, <1>2, <1>3, <1>4, <1>5, <1>6, <1>7 DEF IInv

LEMMA LeaveKeeps ==
    ASSUME IInv, NEW h \in handlers, NEW r \in Results, Leave(h, r)
    PROVE  IInv'
<1> DEFINE k == [h EXCEPT !.stage = r]
<1>a. /\ h \in Handler /\ handlers = {h} /\ handlers' = {k} /\ k \in Handler
      /\ k.id = h.id /\ k.op = h.op /\ k.stage = r
  BY OneHandler DEF Leave, Turns, Handler
<1>b. k.stage # "start"
  BY <1>a DEF Results
<1> HIDE DEF k
<1>1. TypeOK'
  <2>1. handlers' \subseteq Handler /\ engineLock' \in Nat \cup {None}
    BY <1>a DEF Leave
  <2>. QED
    BY <2>1 DEF Leave, client, pipes, IInv, TypeOK
<1>2. Counted' /\ ClientOK' /\ LifecycleOK'
  BY DEF Leave, Turns, client, pipes, IInv, Counted, ClientOK, LifecycleOK,
         UnderWay, Usable, Unanswered
<1>3. ExchangeOK'
  BY <1>a, <1>b DEF Leave, Turns, client, pipes, IInv, ExchangeOK, UnderWay,
         Usable
<1>4. RequestOK'
  BY <1>a, <1>b DEF Leave, Turns, client, pipes, IInv, RequestOK, UnderWay
<1>5. HandlerOK'
  <2>1. /\ requestId' = requestId /\ servedId' = servedId /\ serving' = serving
        /\ answers' = answers /\ exchanges' = exchanges /\ accepted' = accepted
        /\ log' = log
    BY DEF Leave, client, pipes
  <2>2. /\ servedId = requestId /\ serving # "read" /\ h.id = requestId /\ UnderWay
        /\ \A y \in exchanges : y.op = h.op
        /\ serving = "run" => answers = <<>>
        /\ Len(log) = requestId
    BY <1>a DEF Leave, IInv, HandlerOK
  <2>. QED
    BY <1>a, <1>b, <2>1, <2>2 DEF HandlerOK, UnderWay
<1>6. AnswerOK'
  BY <1>a, <1>b DEF Leave, Turns, client, pipes, IInv, AnswerOK, UnderWay
<1>. QED
  BY <1>1, <1>2, <1>3, <1>4, <1>5, <1>6 DEF IInv

LEMMA NextKeeps == IInv /\ [Next]_vars => IInv'
<1> SUFFICES ASSUME IInv, [Next]_vars PROVE IInv'
  OBVIOUS
<1>1. CASE Call \/ Close \/ CloseCall \/ Cleanup
  BY <1>1, CallKeeps, CloseKeeps, CloseCallKeeps, CleanupKeeps
<1>2. ASSUME NEW t \in Threads,
             Issue(t) \/ Refuse(t) \/ Expire(t) \/ Release(t) \/ Verify(t)
      PROVE  IInv'
  BY <1>2, IssueKeeps, RefuseKeeps, ExpireKeeps, ReleaseKeeps, VerifyKeeps
<1>3. ASSUME NEW x \in exchanges,
             Write(x) \/ Read(x) \/ ReadFails(x) \/ Settle(x) \/ Discard(x) \/ Fade(x)
      PROVE  IInv'
  BY <1>3, WriteKeeps, ReadKeeps, ReadFailsKeeps, SettleKeeps, DiscardKeeps, FadeKeeps
<1>4. CASE Receive \/ GiveUp \/ ServerEnds \/ Crash
  BY <1>4, ReceiveKeeps, GiveUpKeeps, ServerEndsKeeps, CrashKeeps
<1>5. ASSUME NEW h \in handlers,
             \/ Enter(h) \/ Reply(h) \/ ReplyFails(h) \/ Overrun(h)
             \/ \E r \in Results : Leave(h, r)
      PROVE  IInv'
  BY <1>5, EnterKeeps, ReplyKeeps, ReplyFailsKeeps, OverrunKeeps, LeaveKeeps
<1>6. CASE UNCHANGED vars
  <2>1. UNCHANGED client /\ UNCHANGED server /\ UNCHANGED pipes
        /\ UNCHANGED <<accepted, engine>>
    BY <1>6 DEF vars
  <2>2. TypeOK'
    BY <2>1 DEF IInv, TypeOK, client, server, pipes
  <2>3. Counted' /\ ClientOK' /\ ExchangeOK'
    BY <2>1 DEF IInv, Counted, ClientOK, ExchangeOK, UnderWay, Usable, client, server, pipes
  <2>4. RequestOK' /\ HandlerOK' /\ AnswerOK' /\ LifecycleOK'
    BY <2>1 DEF IInv, RequestOK, HandlerOK, AnswerOK, LifecycleOK, UnderWay, Usable,
           Unanswered, client, server, pipes
  <2>. QED
    BY <2>2, <2>3, <2>4 DEF IInv
<1>. QED
  BY <1>1, <1>2, <1>3, <1>4, <1>5, <1>6 DEF Next

(***************************************************************************)
(* The inductive invariant holds: what is left of the call under way (its  *)
(* exchange, its request, its handler, its answer) is where the states of  *)
(* the two ends say, however the deadlines of RPCConnection.call and       *)
(* serve_requests expire.                                                  *)
(***************************************************************************)
THEOREM ConnectionSound == Spec => []IInv
  BY InitInv, NextKeeps, PTL DEF Spec

(***************************************************************************)
(* Every variable of the connection keeps its type.                        *)
(***************************************************************************)
THEOREM ConnectionTypes == Spec => []TypeOK
<1>1. IInv => TypeOK
  BY DEF IInv
<1>. QED
  BY <1>1, ConnectionSound, PTL

\* When no call is under way, every identity was run and accepted.
LEMMA Even ==
    ASSUME IInv, ~UnderWay
    PROVE  log = accepted /\ Len(log) = requestId
<1>1. /\ log \in Seq(Nat) /\ accepted \in Seq(Nat) /\ requestId \in Nat
      /\ Len(log) \in Nat /\ Len(accepted) \in Nat
  BY LenProperties DEF IInv, TypeOK
<1>2. Len(log) = requestId /\ Len(accepted) = requestId
  BY <1>1 DEF IInv, Counted, UnderWay
<1>3. \A i \in 1 .. Len(log) : log[i] = accepted[i]
  BY <1>1, <1>2 DEF IInv, Counted
<1>. QED
  BY <1>1, <1>2, <1>3, SeqEqual

(***************************************************************************)
(* A connection that may be used and is not in use has no past: no bounded *)
(* thread of an earlier call is left on either side, no bytes are under    *)
(* way, and client and server agree on what has run and on the lifecycle.  *)
(***************************************************************************)
THEOREM UsableMeansAgreed == Spec => []AgreedWhenUsable
<1>1. ASSUME IInv, Usable, lock = None PROVE Quiet
  <2>1. ~UnderWay
    BY <1>1 DEF IInv, ClientOK
  <2>2. exchanges = {} /\ handlers = {} /\ requests = <<>> /\ answers = <<>>
    BY <1>1, <2>1 DEF IInv, ExchangeOK, HandlerOK, RequestOK, AnswerOK
  <2>3. serving = "read" => peer = conn
    BY <1>1, <2>2 DEF IInv, LifecycleOK, Unanswered
  <2>. QED
    BY <1>1, <2>1, <2>2, <2>3, Even DEF Quiet
<1>2. IInv => AgreedWhenUsable
  BY <1>1 DEF AgreedWhenUsable
<1>. QED
  BY <1>2, ConnectionSound, PTL

(***************************************************************************)
(* A server that reads a request finds the identity grown and the          *)
(* operation legal in its own lifecycle: the checks of serve_requests and  *)
(* of read_request never refuse what this client sends.                    *)
(***************************************************************************)
THEOREM SentIsLegal == Spec => []RequestsAreLegal
<1>1. IInv => RequestsAreLegal
  BY DEF IInv, TypeOK, RequestOK, RequestsAreLegal
<1>. QED
  BY <1>1, ConnectionSound, PTL

\* A step that leaves the three histories alone at most ends the connection.
LEMMA StutterOrFail ==
    ASSUME UNCHANGED <<requestId, log, accepted>>,
           conn' = conn \/ (conn' \in {"tainted", "closed"} /\ (Usable' => Usable))
    PROVE  Remote!Fail \/ UNCHANGED Remote!vars
<1>1. CASE Usable /\ ~Usable'
  BY <1>1 DEF Remote!Fail
<1>2. CASE Usable' = Usable
  BY <1>2 DEF Remote!vars
<1>. QED
  BY <1>1, <1>2 DEF Usable

LEMMA IssueAsks ==
    ASSUME IInv, NEW t \in Threads, Issue(t)
    PROVE  Remote!Ask
<1>1. Usable /\ ~UnderWay
  BY DEF Issue, Legal, Usable, IInv, ClientOK
<1>2. Usable' = Usable
  BY DEF Issue, Usable
<1>3. log' = log /\ accepted' = accepted /\ requestId' = requestId + 1
  BY DEF Issue, server
<1>. QED
  BY <1>1, <1>2, <1>3, Even DEF Remote!Ask

LEMMA EnterRuns ==
    ASSUME IInv, NEW h \in handlers, Enter(h)
    PROVE  Remote!Run
<1>1. h.id = requestId /\ Len(log) < requestId
  <2>1. h.id = requestId /\ UnderWay /\ Len(log) = Len(accepted)
    BY DEF Enter, IInv, HandlerOK
  <2>2. requestId \in Nat /\ Len(log) \in Nat
    BY LenProperties DEF IInv, TypeOK
  <2>. QED
    BY <2>1, <2>2 DEF UnderWay, IInv, Counted
<1>2. /\ log' = Append(log, h.id) /\ requestId' = requestId /\ accepted' = accepted
      /\ Usable' = Usable
  BY DEF Enter, client, Usable
<1>. QED
  BY <1>1, <1>2 DEF Remote!Run

LEMMA SettleGets ==
    ASSUME IInv, IInv', NEW x \in exchanges, Settle(x)
    PROVE  Remote!Get
<1>1. /\ UnderWay /\ x.id = requestId /\ Len(log) = requestId
      /\ conn # "tainted" /\ stage[x.by] = "wait"
  BY DEF Settle, IInv, ExchangeOK
<1>2. Usable
  BY <1>1 DEF Usable, IInv, ClientOK, TypeOK, Exchange
<1>3. /\ log' = log /\ requestId' = requestId /\ accepted' = Append(accepted, x.id)
  BY DEF Settle, server
<1>4. /\ Len(accepted) \in Nat /\ requestId \in Nat /\ accepted \in Seq(Nat)
      /\ Len(accepted) < requestId /\ Len(accepted') = Len(accepted) + 1
  <2>1. Len(accepted) \in Nat /\ requestId \in Nat /\ accepted \in Seq(Nat)
    BY LenProperties DEF IInv, TypeOK
  <2>2. Len(accepted') = Len(accepted) + 1
    BY <1>1, <1>3, <2>1, AppendProperties
  <2>. QED
    BY <1>1, <2>1, <2>2 DEF UnderWay, IInv, Counted
<1>5. ~UnderWay'
  BY <1>1, <1>3, <1>4 DEF UnderWay, IInv, Counted
<1>6. accepted' = log
  <2>1. log' = accepted'
    BY <1>5, <1>3, <1>4, <1>1, SeqEqual DEF IInv, TypeOK, Counted, UnderWay
  <2>. QED
    BY <2>1, <1>3
<1>7. Usable' \in BOOLEAN
  BY DEF Usable
<1>. QED
  BY <1>1, <1>2, <1>3, <1>4, <1>6, <1>7 DEF Remote!Get

(***************************************************************************)
(* The connection implements RemoteCalls: each call of a remote engine is  *)
(* run at most once, in order, with no retry, results are handed over only *)
(* for calls that ran, and a connection that became unusable stays so.     *)
(***************************************************************************)
THEOREM RemoteCallsKept == Spec => CallsKept
<1>1. Init => Remote!Init
  BY DEF Init, Remote!Init, Usable
<1>2. IInv /\ IInv' /\ [Next]_vars => [Remote!Next]_(Remote!vars)
  <2> SUFFICES ASSUME IInv, IInv', [Next]_vars
               PROVE  [Remote!Next]_(Remote!vars)
    OBVIOUS
  <2>1. CASE Call \/ Close \/ CloseCall \/ Cleanup
    <3>1. UNCHANGED <<requestId, log, accepted>>
      BY <2>1 DEF Call, Close, LookAndClose, CloseCall, Cleanup, server
    <3>2. conn' = conn \/ (conn' \in {"tainted", "closed"} /\ (Usable' => Usable))
      BY <2>1 DEF Call, Close, LookAndClose, CloseCall, Cleanup, Acquire, Usable
    <3>. QED
      BY <3>1, <3>2, StutterOrFail DEF Remote!Next
  <2>2. ASSUME NEW t \in Threads, Refuse(t) \/ Expire(t) \/ Release(t) \/ Verify(t)
        PROVE  [Remote!Next]_(Remote!vars)
    <3>1. UNCHANGED <<requestId, log, accepted>>
      BY <2>2 DEF Refuse, Expire, Release, Verify, Raise, server
    <3>2. conn' = conn \/ (conn' \in {"tainted", "closed"} /\ (Usable' => Usable))
      BY <2>2 DEF Refuse, Expire, Release, Verify, Raise, Usable
    <3>. QED
      BY <3>1, <3>2, StutterOrFail DEF Remote!Next
  <2>3. ASSUME NEW t \in Threads, Issue(t)  PROVE Remote!Next
    BY <2>3, IssueAsks DEF Remote!Next
  <2>4. ASSUME NEW x \in exchanges,
               Write(x) \/ Read(x) \/ ReadFails(x) \/ Discard(x) \/ Fade(x)
        PROVE  [Remote!Next]_(Remote!vars)
    <3>1. UNCHANGED <<requestId, log, accepted>>
      BY <2>4 DEF Write, Read, ReadFails, Discard, Fade, Raise, server
    <3>2. conn' = conn \/ (conn' \in {"tainted", "closed"} /\ (Usable' => Usable))
      BY <2>4 DEF Write, Read, ReadFails, Discard, Fade, Raise, Usable
    <3>. QED
      BY <3>1, <3>2, StutterOrFail DEF Remote!Next
  <2>5. ASSUME NEW x \in exchanges, Settle(x)  PROVE Remote!Next
    BY <2>5, SettleGets DEF Remote!Next
  <2>6. CASE Receive \/ GiveUp \/ ServerEnds \/ Crash
    <3>1. UNCHANGED <<requestId, log, accepted>>
      BY <2>6 DEF Receive, GiveUp, ServerEnds, Crash, client
    <3>2. conn' = conn
      BY <2>6 DEF Receive, GiveUp, ServerEnds, Crash, client
    <3>. QED
      BY <3>1, <3>2, StutterOrFail DEF Usable, Remote!vars, Remote!Next
  <2>7. ASSUME NEW h \in handlers,
               \/ Reply(h) \/ ReplyFails(h) \/ Overrun(h)
               \/ \E r \in Results : Leave(h, r)
        PROVE  [Remote!Next]_(Remote!vars)
    <3>1. UNCHANGED <<requestId, log, accepted>>
      BY <2>7 DEF Reply, ReplyFails, Overrun, Leave, client
    <3>2. conn' = conn
      BY <2>7 DEF Reply, ReplyFails, Overrun, Leave, client
    <3>. QED
      BY <3>1, <3>2, StutterOrFail DEF Usable, Remote!vars, Remote!Next
  <2>8. ASSUME NEW h \in handlers, Enter(h)  PROVE Remote!Next
    BY <2>8, EnterRuns DEF Remote!Next
  <2>9. CASE UNCHANGED vars
    BY <2>9 DEF vars, client, server, Remote!vars, Usable
  <2>. QED
    BY <2>1, <2>2, <2>3, <2>4, <2>5, <2>6, <2>7, <2>8, <2>9 DEF Next
<1>. QED
  BY <1>1, <1>2, ConnectionSound, PTL DEF Spec, CallsKept, Remote!Spec
=============================================================================
