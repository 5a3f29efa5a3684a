---------------------------- MODULE WorkersProofs ---------------------------
(***************************************************************************)
(* Proofs about a worker and its callers: the lock is passed from a caller *)
(* to its exchange, so the pipe never has more than one input or reply in  *)
(* it while the worker lives, and nobody reads another's reply or closes a *)
(* descriptor under someone.                                               *)
(***************************************************************************)
EXTENDS Workers, TLAPS

USE CallsAssumption

-----------------------------------------------------------------------------
(* The inductive invariant.                                                *)

\* Where an exchange has the channel.
Using == {"start", "send", "poll", "finally"}

\* input_lock is passed from the caller to its exchange, and held all the while.
LockPassed == \A c \in Calls :
    lock = c <=> (caller[c] = "locked" \/ exchange[c] \in Using)

\* A caller is told once, as it leaves, and starts its exchange as it begins to wait.
CallerFirst == \A c \in Calls :
    /\ caller[c] \in {"idle", "locking", "locked"} => exchange[c] = "none"
    /\ caller[c] # "done" => told[c] = "none"

\* Who uses the channel has claimed it, and a closed one has no users any more.
Claimed ==
    /\ \A c \in Calls : exchange[c] \in Using => busy
    /\ conn = "closed" => shutting /\ \A c \in Calls : exchange[c] \notin Using

\* Only a dead worker is seen to have exited, and only its connection is shut down.
DeadFirst == (shutting \/ exited \/ monitor = "finish") => Dead

\* What an exchange has got, and what its input has come to.
Results == \A c \in Calls :
    /\ got[c] # "none" => exchange[c] \in {"finally", "ended"}
    /\ got[c] \in Calls => got[c] = c /\ c \in executed
    /\ c \in executed => exchange[c] = "poll" \/ got[c] # "none"

\* An input that was reported as not submitted never will be.
NeverSubmitted == \A c \in Calls : told[c] = "not_submitted" =>
    /\ c \notin executed
    /\ \/ exchange[c] \in {"none", "start"}
       \/ exchange[c] \in {"finally", "ended"} /\ got[c] = "none"

\* While the worker lives, the pipe has what its one user has sent, or its reply.
OneAtATime == ~Dead =>
    \/ requests = <<>> /\ handling = "none" /\ replies = <<>>
    \/ \E d \in Calls :
        /\ exchange[d] = "poll"
        /\ \/ requests = <<d>> /\ handling = "none" /\ replies = <<>> /\ d \notin executed
           \/ requests = <<>> /\ handling = d /\ replies = <<>> /\ d \in executed
           \/ requests = <<>> /\ handling = "none" /\ replies = <<d>> /\ d \in executed

\* A reply that nobody waits for stays in a pipe that nobody will use again: its worker has
\* exited, or been released, before the lock was free.
ReplyIsMine ==
    /\ shutting => released
    /\ replies # <<>> => \E d \in Calls :
           replies = <<d>> /\ d \in executed /\ (exchange[d] = "poll" \/ exited \/ released)
    /\ \A c \in Calls : replies # <<>> =>
           /\ caller[c] # "locked" /\ exchange[c] \notin {"start", "send"}
           /\ exchange[c] = "poll" => replies = <<c>>

IInv ==
    /\ TypeOK /\ LockPassed /\ CallerFirst /\ Claimed /\ DeadFirst
    /\ Results /\ NeverSubmitted /\ OneAtATime /\ ReplyIsMine
-----------------------------------------------------------------------------
LEMMA InitInv == Init => IInv
<1>. SUFFICES ASSUME Init PROVE IInv
  OBVIOUS
<1>1. TypeOK
  <2>1. /\ killed \in BOOLEAN /\ exited \in BOOLEAN /\ released \in BOOLEAN
        /\ busy \in BOOLEAN /\ shutting \in BOOLEAN
    BY Zenon DEF Init
  <2>. QED
    BY <2>1 DEF Init, TypeOK
<1>2. LockPassed /\ CallerFirst /\ Claimed /\ DeadFirst
  BY DEF Init, LockPassed, CallerFirst, Claimed, DeadFirst, Using
<1>3. Results /\ NeverSubmitted /\ OneAtATime /\ ReplyIsMine
  BY DEF Init, Results, NeverSubmitted, OneAtATime, ReplyIsMine
<1>. QED
  BY <1>1, <1>2, <1>3 DEF IInv

LEMMA ReadyKeeps ==
    ASSUME IInv, Ready
    PROVE  IInv'
<1>1. TypeOK'
  BY DEF Ready, loop, channel, pipe, calls, TypeOK, IInv
<1>2. DeadFirst'
  BY DEF Ready, loop, channel, pipe, calls, IInv, DeadFirst, Dead
<1>3. OneAtATime'
  BY DEF Ready, loop, channel, pipe, calls, IInv, OneAtATime, Dead
<1>4. /\ LockPassed' /\ CallerFirst' /\ Claimed' /\ Results' /\ NeverSubmitted'
      /\ ReplyIsMine'
  BY DEF Ready, loop, channel, pipe, calls, IInv, LockPassed, CallerFirst,
         Claimed, Results, NeverSubmitted, ReplyIsMine, Using
<1>. QED
  BY <1>1, <1>2, <1>3, <1>4 DEF IInv

LEMMA ExitKeeps ==
    ASSUME IInv, Exit
    PROVE  IInv'
<1>1. TypeOK'
  BY DEF Exit, Alive, loop, channel, pipe, calls, TypeOK, IInv
<1>2. DeadFirst'
  BY DEF Exit, Alive, loop, channel, pipe, calls, IInv, DeadFirst, Dead
<1>3. OneAtATime'
  BY DEF Exit, Alive, loop, channel, pipe, calls, IInv, OneAtATime, Dead
<1>4. /\ LockPassed' /\ CallerFirst' /\ Claimed' /\ Results' /\ NeverSubmitted'
      /\ ReplyIsMine'
  BY DEF Exit, Alive, loop, channel, pipe, calls, IInv, LockPassed,
         CallerFirst, Claimed, Results, NeverSubmitted, ReplyIsMine, Using
<1>. QED
  BY <1>1, <1>2, <1>3, <1>4 DEF IInv

LEMMA WorkerTakesKeeps ==
    ASSUME IInv, WorkerTakes
    PROVE  IInv'
<1>1. TypeOK'
  <2>1. PICK d \in Calls : requests = <<d>>
    BY DEF WorkerTakes, Dead, IInv, OneAtATime
  <2>2. handling' = d /\ requests' = <<>> /\ executed' = executed \cup {d}
    BY <2>1 DEF WorkerTakes
  <2>3. handling' \in Calls \cup {"none"} /\ requests' \in Seq(Calls)
        /\ executed' \subseteq Calls
    BY <2>2 DEF IInv, TypeOK
  <2>4. UNCHANGED <<replies, process, loop, channel, calls>>
    BY DEF WorkerTakes
  <2>. QED
    BY <2>3, <2>4 DEF process, loop, channel, calls, IInv, TypeOK
<1>2. Results'
  BY DEF WorkerTakes, process, loop, channel, calls, IInv, Results,
         OneAtATime, ReplyIsMine, CallerFirst, Dead
<1>3. NeverSubmitted'
  BY DEF WorkerTakes, process, loop, channel, calls, IInv, NeverSubmitted,
         CallerFirst, Results, OneAtATime, Dead
<1>4. OneAtATime'
  BY DEF WorkerTakes, process, loop, channel, calls, IInv, OneAtATime, Dead,
         TypeOK
<1>5. ReplyIsMine'
  BY DEF WorkerTakes, process, loop, channel, calls, IInv, ReplyIsMine
<1>6. LockPassed' /\ CallerFirst' /\ Claimed' /\ DeadFirst'
  BY DEF WorkerTakes, process, loop, channel, calls, IInv, LockPassed,
         CallerFirst, Claimed, DeadFirst, Using, Dead
<1>. QED
  BY <1>1, <1>2, <1>3, <1>4, <1>5, <1>6 DEF IInv

LEMMA WorkerRepliesKeeps ==
    ASSUME IInv, WorkerReplies
    PROVE  IInv'
<1>0. /\ requests = <<>> /\ replies = <<>> /\ handling \in executed
       /\ handling \in Calls /\ exchange[handling] = "poll"
  BY DEF WorkerReplies, Alive, Dead, IInv, TypeOK, OneAtATime
<1>1. TypeOK'
  BY DEF WorkerReplies, Alive, process, loop, channel, calls, TypeOK, IInv
<1>2. OneAtATime'
  <2>1. requests' = <<>> /\ handling' = "none" /\ replies' = <<handling>>
    BY <1>0 DEF WorkerReplies
  <2>. QED
    BY <1>0, <2>1 DEF WorkerReplies, process, calls, OneAtATime
<1>3. ReplyIsMine'
  <2>1. replies' = <<handling>>
    BY <1>0 DEF WorkerReplies
  <2>2. \A c \in Calls : exchange[c] \in {"start", "send", "poll"} => c = handling
    BY <1>0 DEF IInv, LockPassed, Using
  <2>3. \A c \in Calls : caller[c] # "locked"
    BY <1>0 DEF IInv, LockPassed, CallerFirst, Using
  <2>4. shutting => released
    BY DEF IInv, ReplyIsMine
  <2>. QED
    BY <1>0, <2>1, <2>2, <2>3, <2>4 DEF WorkerReplies, calls, channel, loop, ReplyIsMine
<1>4. /\ LockPassed' /\ CallerFirst' /\ Claimed' /\ DeadFirst' /\ Results'
      /\ NeverSubmitted'
  BY DEF WorkerReplies, Alive, process, loop, channel, calls, IInv,
         LockPassed, CallerFirst, Claimed, DeadFirst, Results,
         NeverSubmitted, Using, Dead
<1>. QED
  BY <1>1, <1>2, <1>3, <1>4 DEF IInv

LEMMA LaunchKeeps ==
    ASSUME IInv, Launch
    PROVE  IInv'
<1>1. TypeOK'
  BY DEF Launch, Closing, Release, pipe, calls, TypeOK, IInv
<1>2. Claimed'
  BY DEF Launch, Closing, Release, pipe, calls, IInv, Claimed, Using
<1>3. DeadFirst'
  BY DEF Launch, Closing, Release, pipe, calls, IInv, DeadFirst, Dead
<1>4. OneAtATime'
  BY DEF Launch, Closing, Release, pipe, calls, IInv, OneAtATime, Dead
<1>5. ReplyIsMine'
  BY DEF Launch, Closing, Release, pipe, calls, IInv, ReplyIsMine
<1>6. LockPassed' /\ CallerFirst' /\ Results' /\ NeverSubmitted'
  BY DEF Launch, Closing, Release, pipe, calls, IInv, LockPassed,
         CallerFirst, Results, NeverSubmitted, Using
<1>. QED
  BY <1>1, <1>2, <1>3, <1>4, <1>5, <1>6 DEF IInv

LEMMA StartupTimeoutKeeps ==
    ASSUME IInv, StartupTimeout
    PROVE  IInv'
<1>1. TypeOK'
  BY DEF StartupTimeout, process, channel, pipe, calls, TypeOK, IInv
<1>2. /\ LockPassed' /\ CallerFirst' /\ Claimed' /\ DeadFirst' /\ Results'
      /\ NeverSubmitted' /\ OneAtATime' /\ ReplyIsMine'
  BY DEF StartupTimeout, process, channel, pipe, calls, IInv, LockPassed,
         CallerFirst, Claimed, DeadFirst, Results, NeverSubmitted,
         OneAtATime, ReplyIsMine, Using, Dead
<1>. QED
  BY <1>1, <1>2 DEF IInv

LEMMA StartupExitKeeps ==
    ASSUME IInv, StartupExit
    PROVE  IInv'
<1>1. TypeOK'
  BY DEF StartupExit, process, channel, pipe, calls, TypeOK, IInv
<1>2. /\ LockPassed' /\ CallerFirst' /\ Claimed' /\ DeadFirst' /\ Results'
      /\ NeverSubmitted' /\ OneAtATime' /\ ReplyIsMine'
  BY DEF StartupExit, process, channel, pipe, calls, IInv, LockPassed,
         CallerFirst, Claimed, DeadFirst, Results, NeverSubmitted,
         OneAtATime, ReplyIsMine, Using, Dead
<1>. QED
  BY <1>1, <1>2 DEF IInv

LEMMA EscalateKeeps ==
    ASSUME IInv, Escalate
    PROVE  IInv'
<1>1. TypeOK'
  BY DEF Escalate, Alive, channel, pipe, calls, TypeOK, IInv
<1>2. /\ LockPassed' /\ CallerFirst' /\ Claimed' /\ DeadFirst' /\ Results'
      /\ NeverSubmitted' /\ OneAtATime' /\ ReplyIsMine'
  BY DEF Escalate, Alive, channel, pipe, calls, IInv, LockPassed,
         CallerFirst, Claimed, DeadFirst, Results, NeverSubmitted,
         OneAtATime, ReplyIsMine, Using, Dead
<1>. QED
  BY <1>1, <1>2 DEF IInv

LEMMA ObserveExitKeeps ==
    ASSUME IInv, ObserveExit
    PROVE  IInv'
<1>1. TypeOK'
  BY DEF ObserveExit, Dead, Controlling, process, channel, pipe, calls,
         TypeOK, IInv
<1>2. DeadFirst'
  BY DEF ObserveExit, Dead, Controlling, process, channel, pipe, calls,
         IInv, DeadFirst
<1>3. /\ LockPassed' /\ CallerFirst' /\ Claimed' /\ Results' /\ NeverSubmitted'
      /\ OneAtATime' /\ ReplyIsMine'
  BY DEF ObserveExit, Dead, Controlling, process, channel, pipe, calls,
         IInv, LockPassed, CallerFirst, Claimed, Results, NeverSubmitted,
         OneAtATime, ReplyIsMine, Using
<1>. QED
  BY <1>1, <1>2, <1>3 DEF IInv

LEMMA FinishKeeps ==
    ASSUME IInv, Finish
    PROVE  IInv'
<1>1. TypeOK'
  <2>1. released' \in BOOLEAN /\ shutting' \in BOOLEAN
    BY Zenon DEF Finish, Release, IInv, TypeOK
  <2>. QED
    BY <2>1 DEF Finish, Release, process, pipe, calls, IInv, TypeOK
<1>2. Claimed'
  BY DEF Finish, Release, process, pipe, calls, IInv, Claimed, Using
<1>3. DeadFirst'
  BY DEF Finish, Release, process, pipe, calls, IInv, DeadFirst, Dead
<1>4. ReplyIsMine'
  BY DEF Finish, Release, process, pipe, calls, IInv, ReplyIsMine
<1>5. LockPassed' /\ CallerFirst' /\ Results' /\ NeverSubmitted' /\ OneAtATime'
  BY DEF Finish, Release, process, pipe, calls, IInv, LockPassed,
         CallerFirst, Results, NeverSubmitted, OneAtATime, Using, Dead
<1>. QED
  BY <1>1, <1>2, <1>3, <1>4, <1>5 DEF IInv

LEMMA CloseBeginKeeps ==
    ASSUME IInv, CloseBegin
    PROVE  IInv'
<1>1. TypeOK'
  BY DEF CloseBegin, process, channel, pipe, calls, TypeOK, IInv
<1>2. /\ LockPassed' /\ CallerFirst' /\ Claimed' /\ DeadFirst' /\ Results'
      /\ NeverSubmitted' /\ OneAtATime' /\ ReplyIsMine'
  BY DEF CloseBegin, process, channel, pipe, calls, IInv, LockPassed,
         CallerFirst, Claimed, DeadFirst, Results, NeverSubmitted,
         OneAtATime, ReplyIsMine, Using, Dead
<1>. QED
  BY <1>1, <1>2 DEF IInv

LEMMA CloseKillKeeps ==
    ASSUME IInv, CloseKill
    PROVE  IInv'
<1>1. TypeOK'
  BY DEF CloseKill, Alive, channel, pipe, calls, TypeOK, IInv
<1>2. /\ LockPassed' /\ CallerFirst' /\ Claimed' /\ DeadFirst' /\ Results'
      /\ NeverSubmitted' /\ OneAtATime' /\ ReplyIsMine'
  BY DEF CloseKill, Alive, channel, pipe, calls, IInv, LockPassed,
         CallerFirst, Claimed, DeadFirst, Results, NeverSubmitted,
         OneAtATime, ReplyIsMine, Using, Dead
<1>. QED
  BY <1>1, <1>2 DEF IInv

LEMMA CloseObserveKeeps ==
    ASSUME IInv, CloseObserve
    PROVE  IInv'
<1>1. TypeOK'
  BY DEF CloseObserve, Dead, process, channel, pipe, calls, TypeOK, IInv
<1>2. /\ LockPassed' /\ CallerFirst' /\ Claimed' /\ DeadFirst' /\ Results'
      /\ NeverSubmitted' /\ OneAtATime' /\ ReplyIsMine'
  BY DEF CloseObserve, Dead, process, channel, pipe, calls, IInv,
         LockPassed, CallerFirst, Claimed, DeadFirst, Results,
         NeverSubmitted, OneAtATime, ReplyIsMine, Using
<1>. QED
  BY <1>1, <1>2 DEF IInv

LEMMA CloseReleaseKeeps ==
    ASSUME IInv, CloseRelease
    PROVE  IInv'
<1>1. TypeOK'
  <2>1. released' \in BOOLEAN /\ shutting' \in BOOLEAN
    BY Zenon DEF CloseRelease, Release, IInv, TypeOK
  <2>. QED
    BY <2>1 DEF CloseRelease, Release, process, pipe, calls, IInv, TypeOK
<1>2. Claimed'
  BY DEF CloseRelease, Dead, Release, process, pipe, calls, IInv, Claimed,
         Using
<1>3. DeadFirst'
  BY DEF CloseRelease, Dead, Release, process, pipe, calls, IInv, DeadFirst
<1>4. ReplyIsMine'
  BY DEF CloseRelease, Dead, Release, process, pipe, calls, IInv,
         ReplyIsMine
<1>5. LockPassed' /\ CallerFirst' /\ Results' /\ NeverSubmitted' /\ OneAtATime'
  BY DEF CloseRelease, Dead, Release, process, pipe, calls, IInv,
         LockPassed, CallerFirst, Results, NeverSubmitted, OneAtATime, Using
<1>. QED
  BY <1>1, <1>2, <1>3, <1>4, <1>5 DEF IInv

LEMMA CallKeeps ==
    ASSUME IInv, NEW c \in Calls, Call(c)
    PROVE  IInv'
<1>1. TypeOK'
  BY DEF Call, Answer, Gone, process, loop, channel, pipe, Closing, TypeOK,
         IInv
<1>2. LockPassed'
  BY DEF Call, Answer, Gone, process, loop, channel, pipe, Closing, IInv,
         LockPassed, Using, TypeOK
<1>3. CallerFirst'
  BY DEF Call, Answer, Gone, process, loop, channel, pipe, Closing, IInv,
         CallerFirst, TypeOK
<1>4. NeverSubmitted'
  BY DEF Call, Answer, Gone, process, loop, channel, pipe, Closing, IInv,
         NeverSubmitted, TypeOK, CallerFirst, Results, OneAtATime, Dead
<1>5. ReplyIsMine'
  BY DEF Call, Answer, Gone, process, loop, channel, pipe, Closing, IInv,
         ReplyIsMine, TypeOK, LockPassed, Using
<1>6. Claimed' /\ DeadFirst' /\ Results' /\ OneAtATime'
  BY DEF Call, Answer, Gone, process, loop, channel, pipe, Closing, IInv,
         Claimed, DeadFirst, Results, OneAtATime, Using, Dead
<1>. QED
  BY <1>1, <1>2, <1>3, <1>4, <1>5, <1>6 DEF IInv

LEMMA BusyKeeps ==
    ASSUME IInv, NEW c \in Calls, Busy(c)
    PROVE  IInv'
<1>1. TypeOK'
  BY DEF Busy, Answer, process, loop, channel, pipe, TypeOK, IInv
<1>2. LockPassed'
  BY DEF Busy, Answer, process, loop, channel, pipe, IInv, LockPassed, Using
<1>3. CallerFirst'
  BY DEF Busy, Answer, process, loop, channel, pipe, IInv, CallerFirst,
         TypeOK
<1>4. NeverSubmitted'
  BY DEF Busy, Answer, process, loop, channel, pipe, IInv, NeverSubmitted,
         CallerFirst, Results, OneAtATime, Dead
<1>5. Claimed' /\ DeadFirst' /\ Results' /\ OneAtATime' /\ ReplyIsMine'
  BY DEF Busy, Answer, process, loop, channel, pipe, IInv, Claimed,
         DeadFirst, Results, OneAtATime, ReplyIsMine, Using, Dead
<1>. QED
  BY <1>1, <1>2, <1>3, <1>4, <1>5 DEF IInv

LEMMA AcquireKeeps ==
    ASSUME IInv, NEW c \in Calls, Acquire(c)
    PROVE  IInv'
<1>1. TypeOK'
  BY DEF Acquire, Answer, Gone, process, loop, pipe, Closing, TypeOK, IInv
<1>2. LockPassed'
  BY DEF Acquire, Answer, Gone, process, loop, pipe, Closing, IInv,
         LockPassed, Using, TypeOK
<1>3. CallerFirst'
  BY DEF Acquire, Answer, Gone, process, loop, pipe, Closing, IInv,
         CallerFirst, TypeOK
<1>4. NeverSubmitted'
  BY DEF Acquire, Answer, Gone, process, loop, pipe, Closing, IInv,
         NeverSubmitted, TypeOK, CallerFirst, Results, OneAtATime, Dead
<1>5. ReplyIsMine'
  BY DEF Acquire, Answer, Gone, process, loop, pipe, Closing, IInv,
         ReplyIsMine, TypeOK, LockPassed, Using
<1>6. Claimed' /\ DeadFirst' /\ Results' /\ OneAtATime'
  BY DEF Acquire, Answer, Gone, process, loop, pipe, Closing, IInv, Claimed,
         DeadFirst, Results, OneAtATime, Using, Dead
<1>. QED
  BY <1>1, <1>2, <1>3, <1>4, <1>5, <1>6 DEF IInv

LEMMA ClaimKeeps ==
    ASSUME IInv, NEW c \in Calls, Claim(c)
    PROVE  IInv'
<1>1. TypeOK'
  <2>1. busy' \in BOOLEAN
    BY Zenon DEF Claim, IInv, TypeOK
  <2>. QED
    BY <2>1 DEF Claim, Answer, process, loop, pipe, IInv, TypeOK
<1>2. LockPassed'
  BY DEF Claim, Answer, process, loop, pipe, IInv, LockPassed, Using,
         TypeOK, CallerFirst
<1>3. CallerFirst'
  BY DEF Claim, Answer, process, loop, pipe, IInv, CallerFirst, TypeOK
<1>4. Claimed'
  BY DEF Claim, Answer, process, loop, pipe, IInv, Claimed, Using
<1>5. Results'
  BY DEF Claim, Answer, process, loop, pipe, IInv, Results, TypeOK,
         OneAtATime, ReplyIsMine, CallerFirst, Dead
<1>6. NeverSubmitted'
  BY DEF Claim, Answer, process, loop, pipe, IInv, NeverSubmitted, TypeOK,
         CallerFirst, Results, OneAtATime, Dead
<1>7. OneAtATime'
  BY DEF Claim, Answer, process, loop, pipe, IInv, OneAtATime, Dead, TypeOK,
         LockPassed, CallerFirst, Claimed, DeadFirst, Results,
         NeverSubmitted, ReplyIsMine, Using
<1>8. ReplyIsMine'
  BY DEF Claim, Answer, process, loop, pipe, IInv, ReplyIsMine, TypeOK,
         LockPassed, CallerFirst, Claimed, DeadFirst, Results,
         NeverSubmitted, OneAtATime, Using, Dead
<1>9. DeadFirst'
  BY DEF Claim, Answer, process, loop, pipe, IInv, DeadFirst, Dead
<1>. QED
  BY <1>1, <1>2, <1>3, <1>4, <1>5, <1>6, <1>7, <1>8, <1>9 DEF IInv

LEMMA ReturnKeeps ==
    ASSUME IInv, NEW c \in Calls, Return(c)
    PROVE  IInv'
<1>1. TypeOK'
  BY DEF Return, Answer, Attempted, process, loop, channel, pipe, TypeOK,
         IInv
<1>2. LockPassed'
  BY DEF Return, Answer, Attempted, process, loop, channel, pipe, IInv,
         LockPassed, Using
<1>3. CallerFirst'
  BY DEF Return, Answer, Attempted, process, loop, channel, pipe, IInv,
         CallerFirst, TypeOK
<1>4. NeverSubmitted'
  BY DEF Return, Answer, Attempted, process, loop, channel, pipe, IInv,
         NeverSubmitted, TypeOK, CallerFirst, Results, OneAtATime, Dead
<1>5. Claimed' /\ DeadFirst' /\ Results' /\ OneAtATime' /\ ReplyIsMine'
  BY DEF Return, Answer, Attempted, process, loop, channel, pipe, IInv,
         Claimed, DeadFirst, Results, OneAtATime, ReplyIsMine, Using, Dead
<1>. QED
  BY <1>1, <1>2, <1>3, <1>4, <1>5 DEF IInv

LEMMA BeginKeeps ==
    ASSUME IInv, NEW c \in Calls, Begin(c)
    PROVE  IInv'
<1>1. TypeOK'
  BY DEF Begin, Expired, Got, process, loop, channel, pipe, TypeOK, IInv
<1>2. LockPassed'
  BY DEF Begin, Expired, Got, process, loop, channel, pipe, IInv,
         LockPassed, Using, TypeOK
<1>3. CallerFirst'
  BY DEF Begin, Expired, Got, process, loop, channel, pipe, IInv,
         CallerFirst, TypeOK
<1>4. Claimed'
  BY DEF Begin, Expired, Got, process, loop, channel, pipe, IInv, Claimed,
         Using
<1>5. Results'
  BY DEF Begin, Expired, Got, process, loop, channel, pipe, IInv, Results,
         TypeOK
<1>6. NeverSubmitted'
  BY DEF Begin, Expired, Got, process, loop, channel, pipe, IInv,
         NeverSubmitted, TypeOK, CallerFirst, Results, OneAtATime, Dead
<1>7. OneAtATime'
  BY DEF Begin, Expired, Got, process, loop, channel, pipe, IInv,
         OneAtATime, Dead, TypeOK
<1>8. ReplyIsMine'
  BY DEF Begin, Expired, Got, process, loop, channel, pipe, IInv,
         ReplyIsMine, TypeOK
<1>9. DeadFirst'
  BY DEF Begin, Expired, Got, process, loop, channel, pipe, IInv, DeadFirst,
         Dead
<1>. QED
  BY <1>1, <1>2, <1>3, <1>4, <1>5, <1>6, <1>7, <1>8, <1>9 DEF IInv

LEMMA SendKeeps ==
    ASSUME IInv, NEW c \in Calls, Send(c)
    PROVE  IInv'
<1>1. TypeOK'
  BY DEF Send, process, loop, channel, TypeOK, IInv
<1>2. LockPassed'
  BY DEF Send, process, loop, channel, IInv, LockPassed, Using
<1>3. CallerFirst'
  BY DEF Send, process, loop, channel, IInv, CallerFirst
<1>4. Claimed'
  BY DEF Send, process, loop, channel, IInv, Claimed, Using
<1>5. Results'
  BY DEF Send, process, loop, channel, IInv, Results
<1>6. NeverSubmitted'
  BY DEF Send, process, loop, channel, IInv, NeverSubmitted
<1>7. OneAtATime'
  <2>1. ASSUME ~Dead PROVE requests = <<>> /\ handling = "none" /\ replies = <<>>
    BY <2>1 DEF Send, IInv, OneAtATime, LockPassed, Using
  <2>2. exchange'[c] = "poll" /\ c \notin executed
    BY DEF Send, IInv, TypeOK, Results
  <2>3. ASSUME ~Dead PROVE requests' = <<c>>
    BY <2>1, <2>3 DEF Send
  <2>. QED
    BY <2>1, <2>2, <2>3 DEF Send, process, Dead, OneAtATime
<1>8. ReplyIsMine'
  BY DEF Send, process, loop, channel, IInv, ReplyIsMine, OneAtATime,
         LockPassed, DeadFirst, Dead, Using
<1>9. DeadFirst'
  BY DEF Send, process, loop, channel, IInv, DeadFirst, Dead
<1>. QED
  BY <1>1, <1>2, <1>3, <1>4, <1>5, <1>6, <1>7, <1>8, <1>9 DEF IInv

LEMMA ReceiveKeeps ==
    ASSUME IInv, NEW c \in Calls, Receive(c)
    PROVE  IInv'
<1>1. TypeOK'
  BY DEF Receive, Got, process, loop, channel, TypeOK, IInv
<1>2. LockPassed'
  BY DEF Receive, Got, process, loop, channel, IInv, LockPassed, Using
<1>3. CallerFirst'
  BY DEF Receive, Got, process, loop, channel, IInv, CallerFirst
<1>4. Claimed'
  BY DEF Receive, Got, process, loop, channel, IInv, Claimed, Using
<1>5. Results'
  BY DEF Receive, Got, process, loop, channel, IInv, Results, TypeOK,
         OneAtATime, ReplyIsMine, CallerFirst, Dead
<1>6. NeverSubmitted'
  BY DEF Receive, Got, process, loop, channel, IInv, NeverSubmitted
<1>7. OneAtATime'
  BY DEF Receive, Got, process, loop, channel, IInv, OneAtATime, Dead,
         TypeOK
<1>8. ReplyIsMine'
  BY DEF Receive, Got, process, loop, channel, IInv, ReplyIsMine, TypeOK, Results
<1>9. DeadFirst'
  BY DEF Receive, Got, process, loop, channel, IInv, DeadFirst, Dead
<1>. QED
  BY <1>1, <1>2, <1>3, <1>4, <1>5, <1>6, <1>7, <1>8, <1>9 DEF IInv

LEMMA WakeKeeps ==
    ASSUME IInv, NEW c \in Calls, Wake(c)
    PROVE  IInv'
<1>1. TypeOK'
  BY DEF Wake, Got, process, loop, channel, pipe, TypeOK, IInv
<1>2. LockPassed'
  BY DEF Wake, Got, process, loop, channel, pipe, IInv, LockPassed, Using
<1>3. CallerFirst'
  BY DEF Wake, Got, process, loop, channel, pipe, IInv, CallerFirst
<1>4. Claimed'
  BY DEF Wake, Got, process, loop, channel, pipe, IInv, Claimed, Using
<1>5. Results'
  BY DEF Wake, Got, process, loop, channel, pipe, IInv, Results, TypeOK
<1>6. NeverSubmitted'
  BY DEF Wake, Got, process, loop, channel, pipe, IInv, NeverSubmitted
<1>7. OneAtATime'
  BY DEF Wake, Got, process, loop, channel, pipe, IInv, OneAtATime, Dead,
         LockPassed, Results, DeadFirst, ReplyIsMine, Using
<1>8. ReplyIsMine'
  BY DEF Wake, Got, process, loop, channel, pipe, IInv, ReplyIsMine
<1>9. DeadFirst'
  BY DEF Wake, Got, process, loop, channel, pipe, IInv, DeadFirst, Dead
<1>. QED
  BY <1>1, <1>2, <1>3, <1>4, <1>5, <1>6, <1>7, <1>8, <1>9 DEF IInv

LEMMA PeerGoneKeeps ==
    ASSUME IInv, NEW c \in Calls, PeerGone(c)
    PROVE  IInv'
<1>1. TypeOK'
  BY DEF PeerGone, Dead, Got, process, loop, channel, pipe, TypeOK, IInv
<1>2. LockPassed'
  BY DEF PeerGone, Dead, Got, process, loop, channel, pipe, IInv,
         LockPassed, Using
<1>3. CallerFirst'
  BY DEF PeerGone, Dead, Got, process, loop, channel, pipe, IInv,
         CallerFirst
<1>4. Claimed'
  BY DEF PeerGone, Dead, Got, process, loop, channel, pipe, IInv, Claimed,
         Using
<1>5. Results'
  BY DEF PeerGone, Dead, Got, process, loop, channel, pipe, IInv, Results,
         TypeOK
<1>6. NeverSubmitted'
  BY DEF PeerGone, Dead, Got, process, loop, channel, pipe, IInv,
         NeverSubmitted
<1>7. OneAtATime'
  BY DEF PeerGone, Dead, Got, process, loop, channel, pipe, IInv, OneAtATime,
         DeadFirst
<1>8. ReplyIsMine'
  BY DEF PeerGone, Dead, Got, process, loop, channel, pipe, IInv,
         ReplyIsMine
<1>9. DeadFirst'
  BY DEF PeerGone, Dead, Got, process, loop, channel, pipe, IInv, DeadFirst
<1>. QED
  BY <1>1, <1>2, <1>3, <1>4, <1>5, <1>6, <1>7, <1>8, <1>9 DEF IInv

LEMMA GiveBackKeeps ==
    ASSUME IInv, NEW c \in Calls, GiveBack(c)
    PROVE  IInv'
<1>1. TypeOK'
  <2>1. busy' \in BOOLEAN
    BY Zenon DEF GiveBack
  <2>. QED
    BY <2>1 DEF GiveBack, process, loop, pipe, IInv, TypeOK
<1>2. LockPassed'
  BY DEF GiveBack, process, loop, pipe, IInv, LockPassed, Using, TypeOK,
         CallerFirst
<1>3. CallerFirst'
  BY DEF GiveBack, process, loop, pipe, IInv, CallerFirst
<1>4. Claimed'
  BY DEF GiveBack, process, loop, pipe, IInv, Claimed, Using, TypeOK,
         LockPassed, DeadFirst, Dead
<1>5. Results'
  BY DEF GiveBack, process, loop, pipe, IInv, Results
<1>6. NeverSubmitted'
  BY DEF GiveBack, process, loop, pipe, IInv, NeverSubmitted
<1>7. OneAtATime'
  BY DEF GiveBack, process, loop, pipe, IInv, OneAtATime, Dead
<1>8. ReplyIsMine'
  BY DEF GiveBack, process, loop, pipe, IInv, ReplyIsMine
<1>9. DeadFirst'
  BY DEF GiveBack, process, loop, pipe, IInv, DeadFirst, Dead
<1>. QED
  BY <1>1, <1>2, <1>3, <1>4, <1>5, <1>6, <1>7, <1>8, <1>9 DEF IInv

-----------------------------------------------------------------------------
LEMMA StepInv == IInv /\ [Next]_vars => IInv'
<1>. SUFFICES ASSUME IInv, [Next]_vars PROVE IInv'
  OBVIOUS
<1>1. CASE UNCHANGED vars
  BY <1>1 DEF vars, process, loop, channel, pipe, calls, IInv, TypeOK, LockPassed,
         CallerFirst, Claimed, DeadFirst, Dead, Results, NeverSubmitted, OneAtATime,
         ReplyIsMine
<1>2. CASE Process
  BY <1>2, ReadyKeeps, ExitKeeps, WorkerTakesKeeps, WorkerRepliesKeeps DEF Process
<1>3. CASE Registry
  BY <1>3, LaunchKeeps, StartupTimeoutKeeps, StartupExitKeeps, EscalateKeeps,
     ObserveExitKeeps, FinishKeeps, CloseBeginKeeps, CloseKillKeeps, CloseObserveKeeps,
     CloseReleaseKeeps DEF Registry
<1>4. ASSUME NEW c \in Calls, Call(c) \/ Caller(c) PROVE IInv'
  BY <1>4, CallKeeps, BusyKeeps, AcquireKeeps, ClaimKeeps, ReturnKeeps DEF Caller
<1>5. ASSUME NEW c \in Calls, Exchange(c) \/ Send(c) \/ PeerGone(c) PROVE IInv'
  BY <1>5, BeginKeeps, ReceiveKeeps, WakeKeeps, GiveBackKeeps, SendKeeps, PeerGoneKeeps
     DEF Exchange
<1>. QED
  BY <1>1, <1>2, <1>3, <1>4, <1>5 DEF Next

\* What is known of the lock, the pipe and every call at any moment of
\* input_call, _release and close.
THEOREM WorkersSound == Spec => []IInv
<1>1. Init => IInv
  BY InitInv
<1>2. IInv /\ [Next]_vars => IInv'
  BY StepInv
<1>. QED
  BY <1>1, <1>2, PTL DEF Spec

\* Every variable of the registry, the channel and the calls keeps its type.
THEOREM WorkersTypes == Spec => []TypeOK
<1>1. IInv => TypeOK
  BY DEF IInv
<1>. QED
  BY <1>1, WorkersSound, PTL

\* _release closes the descriptor only when no exchange is on it, and no
\* exchange starts on a closed one.
THEOREM DescriptorSafe == Spec => []NotClosedInUse
<1>1. IInv => NotClosedInUse
  BY DEF IInv, Claimed, Using, NotClosedInUse
<1>. QED
  BY <1>1, WorkersSound, PTL

\* A step of the worker, its registry and the callers is a step of what is
\* promised to callers, or one they do not see.
LEMMA StepPromised ==
    ASSUME IInv, IInv', [Next]_vars
    PROVE  [Promise!Next]_(Promise!vars)
<1>. USE DEF Promise!vars
<1>1. CASE UNCHANGED vars
  BY <1>1 DEF vars, pipe, calls
<1>2. CASE WorkerTakes
  <2>1. PICK d \in Calls : requests = <<d>> /\ exchange[d] = "poll" /\ d \notin executed
    BY <1>2 DEF WorkerTakes, Dead, IInv, OneAtATime
  <2>2. executed' = executed \cup {d} /\ UNCHANGED told
    BY <1>2, <2>1 DEF WorkerTakes, calls
  <2>3. told[d] # "not_submitted"
    BY <2>1 DEF IInv, NeverSubmitted
  <2>. QED
    BY <2>1, <2>2, <2>3 DEF Promise!Next, Promise!Execute
<1>3. CASE Ready \/ Exit \/ WorkerReplies
  BY <1>3 DEF Ready, Exit, WorkerReplies, pipe, calls
<1>4. CASE Registry
  BY <1>4 DEF Registry, Launch, StartupTimeout, StartupExit, Escalate, ObserveExit, Finish,
         CloseBegin, CloseKill, CloseObserve, CloseRelease, pipe, calls
<1>5. ASSUME NEW c \in Calls, NEW o \in Calls \cup {"not_submitted", "uncertain"},
             Answer(c, o), caller[c] # "done", UNCHANGED executed,
             o \in Calls => o = c /\ c \in executed,
             o = "not_submitted" => c \notin executed
      PROVE  Promise!Next
  <2>1. told[c] = "none"
    BY <1>5 DEF IInv, CallerFirst
  <2>. QED
    BY <1>5, <2>1 DEF Answer, Promise!Next, Promise!Tell
<1>6. ASSUME NEW c \in Calls, caller[c] \in {"idle", "locking", "locked"}
      PROVE  c \notin executed
  BY <1>6 DEF IInv, TypeOK, CallerFirst, Results
<1>7. ASSUME NEW c \in Calls, Call(c) \/ Busy(c) \/ Acquire(c) \/ Claim(c)
      PROVE  [Promise!Next]_(Promise!vars)
  <2>1. UNCHANGED executed
    BY <1>7 DEF Call, Busy, Acquire, Claim, pipe
  <2>2. \/ UNCHANGED told
        \/ Answer(c, "not_submitted") /\ caller[c] \in {"idle", "locking", "locked"}
    BY <1>7 DEF Call, Busy, Acquire, Claim
  <2>3. "not_submitted" \notin Calls
    BY CallsAssumption
  <2>. QED
    BY <2>1, <2>2, <2>3, <1>5, <1>6
<1>8. ASSUME NEW c \in Calls, Return(c) PROVE [Promise!Next]_(Promise!vars)
  <2>1. UNCHANGED executed /\ caller[c] = "waiting"
    BY <1>8 DEF Return, pipe
  <2>2. CASE exchange[c] = "ended" /\ got[c] \in Calls
    <3>1. Answer(c, c) /\ c \in executed
      BY <1>8, <2>2 DEF Return, IInv, Results
    <3>. QED
      BY <2>1, <3>1, <1>5, CallsAssumption
  <2>3. CASE ~(exchange[c] = "ended" /\ got[c] \in Calls) /\ Attempted(c)
    <3>1. Answer(c, "uncertain")
      BY <1>8, <2>3 DEF Return
    <3>. QED
      BY <2>1, <3>1, <1>5, CallsAssumption
  <2>4. CASE ~(exchange[c] = "ended" /\ got[c] \in Calls) /\ ~Attempted(c)
    <3>1. Answer(c, "not_submitted") /\ c \notin executed
      BY <1>8, <2>4 DEF Return, Attempted, IInv, Results
    <3>. QED
      BY <2>1, <3>1, <1>5, CallsAssumption
  <2>. QED
    BY <2>2, <2>3, <2>4
<1>9. ASSUME NEW c \in Calls, Exchange(c) \/ Send(c) \/ PeerGone(c)
      PROVE  UNCHANGED Promise!vars
  BY <1>9 DEF Exchange, Begin, Receive, Wake, GiveBack, Send, PeerGone, pipe
<1>. QED
  BY <1>1, <1>2, <1>3, <1>4, <1>7, <1>8, <1>9 DEF Next, Process, Caller

\* The registry, its threads and the pipe keep the promise to callers: what was
\* reported as not submitted is never executed, and a receipt is one's own.
THEOREM WorkersKeepPromise == Spec => CallsKept
<1>1. Init => Promise!Init
  BY DEF Init, Promise!Init
<1>2. IInv /\ IInv' /\ [Next]_vars => [Promise!Next]_(Promise!vars)
  BY StepPromised
<1>. QED
  BY <1>1, <1>2, WorkersSound, PTL DEF Spec, CallsKept, Promise!Spec
=============================================================================
