--------------------------- MODULE RunStoreProofs ---------------------------
(***************************************************************************)
(* Proofs about the directory of one run.  TypeOK and IInv are inductive   *)
(* together: one lemma per action, with a step for each conjunct that the  *)
(* action disturbs and one for those it leaves alone.                      *)
(***************************************************************************)
EXTENDS RunStore, TLAPS

USE RunStoreAssumption

LEMMA InitInv == Init => TypeOK /\ IInv
<1>. SUFFICES ASSUME Init PROVE TypeOK /\ IInv
  OBVIOUS
<1>1. TypeOK
  <2>1. /\ alive \in BOOLEAN /\ tainted \in BOOLEAN /\ closed \in BOOLEAN
        /\ kernelClosed \in BOOLEAN /\ hostUp \in BOOLEAN /\ settled \in BOOLEAN
        /\ restarted \in BOOLEAN
    BY Zenon DEF Init
  <2>. QED
    BY <2>1 DEF Init, TypeOK, Counts, Live, Stages, Inputs, Threads
<1>2. JournalInv /\ PublishInv
  BY DEF Init, JournalInv, RecoveryKeepsAcked, PublishInv, AckIsAcknowledged, Threads
<1>3. OutcomeInv /\ SettledIsAcked /\ FailureSettled
  BY DEF Init, OutcomeInv, SettledIsAcked, FailureSettled, Terminal
<1>. QED
  BY <1>1, <1>2, <1>3 DEF IInv

LEMMA BeginKeeps ==
    ASSUME TypeOK, IInv, NEW t \in Threads, Begin(t)
    PROVE  TypeOK' /\ IInv'
<1>1. TypeOK'
  BY DEF Begin, MayAppend, Cleanup, manifest, publication, host, viewer,
         TypeOK, Counts, Terminal, Live, Stages, Inputs, Threads, Observable
<1>2. JournalInv'
  BY DEF Begin, MayAppend, Cleanup, manifest, publication, host, viewer,
         IInv, JournalInv, RecoveryKeepsAcked, TypeOK, Counts, Terminal,
         Live, Stages, Inputs, Threads, Observable
<1>3. PublishInv'
  BY DEF Begin, MayAppend, Cleanup, manifest, publication, host, viewer,
         IInv, PublishInv, AckIsAcknowledged
<1>4. OutcomeInv'
  BY DEF Begin, MayAppend, Cleanup, manifest, publication, host, viewer,
         IInv, OutcomeInv, Terminal
<1>5. SettledIsAcked' /\ FailureSettled'
  BY DEF Begin, MayAppend, Cleanup, manifest, publication, host, viewer,
         IInv, SettledIsAcked, FailureSettled, AtLeastOne
<1>. QED
  BY <1>1, <1>2, <1>3, <1>4, <1>5 DEF IInv

LEMMA LineVisibleKeeps ==
    ASSUME TypeOK, IInv, NEW t \in Threads, LineVisible(t)
    PROVE  TypeOK' /\ IInv'
<1>1. TypeOK'
  BY DEF LineVisible, Unfinished, manifest, writer, host, viewer, session,
         publication, TypeOK, Counts, Terminal, Live, Stages, Inputs,
         Threads, Observable, IInv, JournalInv, RecoveryKeepsAcked
<1>2. JournalInv'
  BY DEF LineVisible, Unfinished, manifest, writer, host, viewer, session,
         publication, IInv, JournalInv, RecoveryKeepsAcked
<1>3. PublishInv'
  BY DEF LineVisible, Unfinished, manifest, writer, host, viewer, session,
         publication, IInv, PublishInv, AckIsAcknowledged, TypeOK, Counts,
         Terminal, Live, Stages, Inputs, Threads, Observable
<1>4. OutcomeInv' /\ SettledIsAcked' /\ FailureSettled'
  BY DEF LineVisible, Unfinished, manifest, writer, host, viewer, session,
         publication, IInv, OutcomeInv, SettledIsAcked, FailureSettled,
         Terminal, AtLeastOne
<1>. QED
  BY <1>1, <1>2, <1>3, <1>4 DEF IInv

LEMMA AcknowledgeKeeps ==
    ASSUME TypeOK, IInv, NEW t \in Threads, Acknowledge(t)
    PROVE  TypeOK' /\ IInv'
<1>1. TypeOK'
  BY DEF Acknowledge, Unfinished, files, session, publication, host, viewer,
         journal, manifest, TypeOK, Counts, Terminal, Live, Stages, Inputs,
         Threads, Observable, IInv, JournalInv, RecoveryKeepsAcked
<1>2. JournalInv'
  BY DEF Acknowledge, Unfinished, files, session, publication, host, viewer,
         journal, manifest, IInv, JournalInv, RecoveryKeepsAcked, TypeOK,
         Counts, Terminal, Live, Stages, Inputs, Threads, Observable
<1>3. PublishInv'
  BY DEF Acknowledge, Unfinished, files, session, publication, host, viewer,
         journal, manifest, IInv, PublishInv, AckIsAcknowledged, TypeOK,
         Counts, Terminal, Live, Stages, Inputs, Threads, Observable,
         JournalInv, RecoveryKeepsAcked, OutcomeInv, SettledIsAcked,
         FailureSettled, AtLeastOne
<1>4. OutcomeInv'
  BY DEF Acknowledge, Unfinished, files, session, publication, host, viewer,
         journal, manifest, IInv, OutcomeInv, Terminal
<1>5. SettledIsAcked'
  BY DEF Acknowledge, Unfinished, files, session, publication, host, viewer,
         journal, manifest, IInv, SettledIsAcked, AtLeastOne, JournalInv,
         RecoveryKeepsAcked, PublishInv, AckIsAcknowledged, OutcomeInv,
         Terminal
<1>6. FailureSettled'
  BY DEF Acknowledge, Unfinished, files, session, publication, host, viewer,
         journal, manifest, IInv, FailureSettled
<1>. QED
  BY <1>1, <1>2, <1>3, <1>4, <1>5, <1>6 DEF IInv

LEMMA AppendFailsKeeps ==
    ASSUME TypeOK, IInv, NEW t \in Threads, AppendFails(t)
    PROVE  TypeOK' /\ IInv'
<1>1. TypeOK'
  BY DEF AppendFails, files, publication, host, viewer, journal, manifest,
         TypeOK, Counts, Terminal, Live, Stages, Inputs, Threads, Observable
<1>2. JournalInv'
  BY DEF AppendFails, files, publication, host, viewer, journal, manifest,
         IInv, JournalInv, RecoveryKeepsAcked
<1>3. PublishInv'
  BY DEF AppendFails, files, publication, host, viewer, journal, manifest,
         IInv, PublishInv, AckIsAcknowledged
<1>4. OutcomeInv'
  BY DEF AppendFails, files, publication, host, viewer, journal, manifest,
         IInv, OutcomeInv, Terminal
<1>5. SettledIsAcked' /\ FailureSettled'
  BY DEF AppendFails, files, publication, host, viewer, journal, manifest,
         IInv, SettledIsAcked, FailureSettled, AtLeastOne
<1>. QED
  BY <1>1, <1>2, <1>3, <1>4, <1>5 DEF IInv

LEMMA ReadCoordinateKeeps ==
    ASSUME TypeOK, IInv, NEW t \in Threads, ReadCoordinate(t)
    PROVE  TypeOK' /\ IInv'
<1>1. TypeOK'
  BY DEF ReadCoordinate, files, session, host, viewer, journal, manifest,
         TypeOK, Counts, Terminal, Live, Stages, Inputs, Threads, Observable
<1>2. PublishInv'
  <2>1. \A s \in Threads : coord'[s] <= acked
    BY DEF ReadCoordinate, TypeOK, Counts, IInv, PublishInv
  <2>2. coord'["input"] > 0 => input = "publish"
    BY DEF ReadCoordinate, MayPublish, TypeOK, IInv, PublishInv, Threads
  <2>. QED
    BY <2>1, <2>2 DEF ReadCoordinate, files, journal, session, host, viewer, IInv,
         PublishInv, AckIsAcknowledged
<1>3. JournalInv' /\ OutcomeInv' /\ SettledIsAcked' /\ FailureSettled'
  BY DEF ReadCoordinate, files, session, host, viewer, journal, manifest,
         IInv, JournalInv, OutcomeInv, SettledIsAcked, FailureSettled,
         RecoveryKeepsAcked, Terminal, AtLeastOne
<1>. QED
  BY <1>1, <1>2, <1>3 DEF IInv

LEMMA PublishKeeps ==
    ASSUME TypeOK, IInv, NEW t \in Threads, Publish(t)
    PROVE  TypeOK' /\ IInv'
<1>1. TypeOK'
  BY DEF Publish, Later, Published, journal, manifest, session, host,
         viewer, TypeOK, Counts, Terminal, Live, Stages, Inputs, Threads,
         Observable
<1>2. PublishInv'
  <2>1. /\ wal \in Nat /\ acked \in Nat /\ ack \in Nat /\ coord[t] \in Nat
        /\ cache = ack /\ ack <= acked /\ coord[t] <= acked /\ coord[t] > 0
        /\ coord \in [Threads -> Nat]
    BY DEF TypeOK, Counts, IInv, PublishInv, AckIsAcknowledged, Publish
  <2>2. ack' \in Nat /\ ack' > 0 /\ ack' <= acked /\ cache' = ack'
    BY <2>1 DEF Publish, Later
  <2>3. UNCHANGED <<wal, acked, rows, index, restarted, viewing, shown, holder>>
    BY DEF Publish, journal, host, viewer
  <2>4. \A s \in Threads : coord'[s] <= acked
    BY <2>1 DEF Publish, Published, IInv, PublishInv
  <2>5. /\ holder = "input" => input' = "request"
        /\ stage' \in {"opened", "loop"} \/ input' # "idle" => acked > 0
    <3>1. t = "input" => input = "publish"
      BY DEF Publish, IInv, PublishInv
    <3>. QED
      BY <2>1, <3>1 DEF Publish, Published, IInv, PublishInv
  <2>6. coord'["input"] > 0 => input' = "publish"
    BY <2>1 DEF Publish, Published, IInv, PublishInv, Threads
  <2>7. stage' = "reporting" => ack' > 0
    BY <2>2
  <2>. QED
    BY <2>1, <2>2, <2>3, <2>4, <2>5, <2>6, <2>7 DEF IInv, PublishInv, AckIsAcknowledged
<1>3. OutcomeInv'
  BY DEF Publish, Later, Published, journal, manifest, session, host, viewer, IInv,
       OutcomeInv, Terminal, Recorded, FailureSettled, Observable
<1>4. SettledIsAcked'
  BY DEF Publish, Later, Published, journal, manifest, session, host,
         viewer, IInv, SettledIsAcked, AtLeastOne, JournalInv,
         RecoveryKeepsAcked, PublishInv, AckIsAcknowledged, OutcomeInv,
         Terminal
<1>5. JournalInv' /\ FailureSettled'
  BY DEF Publish, Later, Published, journal, manifest, session, host, viewer, IInv,
       JournalInv, FailureSettled, RecoveryKeepsAcked, Recorded, OutcomeInv,
       Terminal, Observable
<1>. QED
  BY <1>1, <1>2, <1>3, <1>4, <1>5 DEF IInv

LEMMA StartSessionKeeps ==
    ASSUME TypeOK, IInv, StartSession
    PROVE  TypeOK' /\ IInv'
<1>1. TypeOK'
  BY DEF StartSession, Free, journal, session, publication, host, viewer,
         TypeOK, Counts, Terminal, Live, Stages, Inputs, Threads, Observable
<1>2. PublishInv'
  BY DEF StartSession, Free, journal, session, publication, host, viewer,
         IInv, PublishInv, AckIsAcknowledged
<1>3. OutcomeInv'
  BY DEF StartSession, Free, journal, session, publication, host, viewer, IInv,
       OutcomeInv, Terminal, Recorded, FailureSettled, Observable
<1>4. FailureSettled'
  BY DEF StartSession, Free, journal, session, publication, host, viewer,
         IInv, FailureSettled, JournalInv, RecoveryKeepsAcked, PublishInv,
         AckIsAcknowledged, OutcomeInv, Terminal
<1>5. JournalInv' /\ SettledIsAcked'
  BY DEF StartSession, Free, journal, session, publication, host, viewer,
         IInv, JournalInv, SettledIsAcked, RecoveryKeepsAcked, AtLeastOne
<1>. QED
  BY <1>1, <1>2, <1>3, <1>4, <1>5 DEF IInv

LEMMA StartedKeeps ==
    ASSUME TypeOK, IInv, Started
    PROVE  TypeOK' /\ IInv'
<1>1. TypeOK'
  BY DEF Started, IndexThrough, Free, journal, manifest, session, host,
         viewer, Later, TypeOK, Counts, Terminal, Live, Stages, Inputs,
         Threads, Observable
<1>2. PublishInv'
  BY DEF Started, IndexThrough, Free, journal, manifest, session, host,
         viewer, Later, IInv, PublishInv, AckIsAcknowledged, TypeOK, Counts,
         Terminal, Live, Stages, Inputs, Threads, Observable, JournalInv,
         RecoveryKeepsAcked, OutcomeInv, SettledIsAcked, FailureSettled,
         AtLeastOne, Unfinished
<1>3. OutcomeInv'
  BY DEF Started, IndexThrough, Free, journal, manifest, session, host, viewer,
       Later, IInv, OutcomeInv, Terminal, Recorded, FailureSettled, Observable
<1>4. SettledIsAcked'
  BY DEF Started, IndexThrough, Free, journal, manifest, session, host,
         viewer, Later, IInv, SettledIsAcked, AtLeastOne, JournalInv,
         RecoveryKeepsAcked, PublishInv, AckIsAcknowledged, OutcomeInv,
         Terminal
<1>5. JournalInv' /\ FailureSettled'
  BY DEF Started, IndexThrough, Free, journal, manifest, session, host, viewer,
       Later, IInv, JournalInv, FailureSettled, RecoveryKeepsAcked, Recorded,
       OutcomeInv, Terminal, Observable
<1>. QED
  BY <1>1, <1>2, <1>3, <1>4, <1>5 DEF IInv

LEMMA StartFailsKeeps ==
    ASSUME TypeOK, IInv, StartFails
    PROVE  TypeOK' /\ IInv'
<1>1. TypeOK'
  BY DEF StartFails, Free, files, publication, host, viewer, journal,
         manifest, TypeOK, Counts, Terminal, Live, Stages, Inputs, Threads,
         Observable
<1>2. PublishInv'
  BY DEF StartFails, Free, files, publication, host, viewer, journal,
         manifest, IInv, PublishInv, AckIsAcknowledged
<1>3. OutcomeInv'
  BY DEF StartFails, Free, files, publication, host, viewer, journal, manifest,
       IInv, OutcomeInv, Terminal, Recorded, FailureSettled, Observable
<1>4. JournalInv' /\ SettledIsAcked' /\ FailureSettled'
  BY DEF StartFails, Free, files, publication, host, viewer, journal,
         manifest, IInv, JournalInv, SettledIsAcked, FailureSettled,
         RecoveryKeepsAcked, AtLeastOne
<1>. QED
  BY <1>1, <1>2, <1>3, <1>4 DEF IInv

LEMMA ReportWaitKeeps ==
    ASSUME TypeOK, IInv, ReportWait
    PROVE  TypeOK' /\ IInv'
<1>1. TypeOK'
  BY DEF ReportWait, IndexThrough, Free, journal, session, host, viewer,
         Later, TypeOK, Counts, Terminal, Live, Stages, Inputs, Threads,
         Observable
<1>2. PublishInv'
  BY DEF ReportWait, IndexThrough, Free, journal, session, host, viewer,
         Later, IInv, PublishInv, AckIsAcknowledged, TypeOK, Counts,
         Terminal, Live, Stages, Inputs, Threads, Observable, JournalInv,
         RecoveryKeepsAcked, OutcomeInv, SettledIsAcked, FailureSettled,
         AtLeastOne, Unfinished
<1>3. OutcomeInv'
  BY DEF ReportWait, IndexThrough, Free, journal, session, host, viewer,
         Later, IInv, OutcomeInv, Terminal
<1>4. SettledIsAcked'
  BY DEF ReportWait, IndexThrough, Free, journal, session, host, viewer,
         Later, IInv, SettledIsAcked, AtLeastOne, JournalInv,
         RecoveryKeepsAcked, PublishInv, AckIsAcknowledged, OutcomeInv,
         Terminal
<1>5. FailureSettled'
  BY DEF ReportWait, IndexThrough, Free, journal, session, host, viewer,
         Later, IInv, FailureSettled, JournalInv, RecoveryKeepsAcked,
         PublishInv, AckIsAcknowledged, OutcomeInv, Terminal
<1>6. JournalInv'
  BY DEF ReportWait, IndexThrough, Free, journal, session, host, viewer,
         Later, IInv, JournalInv, RecoveryKeepsAcked
<1>. QED
  BY <1>1, <1>2, <1>3, <1>4, <1>5, <1>6 DEF IInv

LEMMA EndRunKeeps ==
    ASSUME TypeOK, IInv, NEW o \in Terminal, EndRun(o)
    PROVE  TypeOK' /\ IInv'
<1>1. TypeOK'
  BY DEF EndRun, Free, Ends, files, session, publication, host, viewer,
         journal, manifest, TypeOK, Counts, Terminal, Live, Stages, Inputs,
         Threads, Observable
<1>2. PublishInv'
  BY DEF EndRun, Free, Ends, files, session, publication, host, viewer,
         journal, manifest, IInv, PublishInv, AckIsAcknowledged
<1>3. OutcomeInv'
  BY DEF EndRun, Free, Ends, files, session, publication, host, viewer, journal,
       manifest, IInv, OutcomeInv, Terminal, Recorded, FailureSettled, Observable
<1>4. JournalInv' /\ SettledIsAcked' /\ FailureSettled'
  BY DEF EndRun, Free, Ends, files, session, publication, host, viewer, journal,
       manifest, IInv, JournalInv, SettledIsAcked, FailureSettled,
       RecoveryKeepsAcked, AtLeastOne, Recorded, OutcomeInv, Terminal, Observable
<1>. QED
  BY <1>1, <1>2, <1>3, <1>4 DEF IInv

LEMMA EndingReadKeeps ==
    ASSUME TypeOK, IInv, EndingRead
    PROVE  TypeOK' /\ IInv'
<1>1. TypeOK'
  BY DEF EndingRead, Free, files, journal, manifest, session, publication, host, viewer,
         TypeOK, Counts, Terminal, Live, Stages, Inputs, Threads, Observable
<1>2. PublishInv'
  BY DEF EndingRead, Free, files, journal, manifest, session, publication, host, viewer,
         IInv, PublishInv, AckIsAcknowledged
<1>3. OutcomeInv'
  BY DEF EndingRead, Free, files, journal, manifest, session, publication, host,
       viewer, IInv, OutcomeInv, Terminal, Recorded, FailureSettled, Observable
<1>4. FailureSettled'
  BY DEF EndingRead, Free, files, journal, manifest, session, publication, host, viewer,
         IInv, FailureSettled, JournalInv, RecoveryKeepsAcked, PublishInv,
         AckIsAcknowledged, OutcomeInv, Terminal
<1>5. JournalInv' /\ SettledIsAcked'
  BY DEF EndingRead, Free, files, journal, manifest, session, publication, host, viewer,
         IInv, JournalInv, SettledIsAcked, RecoveryKeepsAcked, AtLeastOne
<1>. QED
  BY <1>1, <1>2, <1>3, <1>4, <1>5 DEF IInv

LEMMA RecordOutcomeKeeps ==
    ASSUME TypeOK, IInv, RecordOutcome
    PROVE  TypeOK' /\ IInv'
<1>1. TypeOK'
  BY DEF RecordOutcome, Free, journal, session, publication, host, viewer, TypeOK,
       Counts, Terminal, Live, Stages, Inputs, Threads, Observable, Recorded, IInv,
       OutcomeInv, FailureSettled
<1>2. PublishInv'
  BY DEF RecordOutcome, Free, journal, session, publication, host, viewer,
         IInv, PublishInv, AckIsAcknowledged
<1>3. OutcomeInv'
  BY DEF RecordOutcome, Free, journal, session, publication, host, viewer, IInv,
       OutcomeInv, Terminal, Recorded, FailureSettled, Observable
<1>4. FailureSettled'
  BY DEF RecordOutcome, Free, journal, session, publication, host, viewer,
         IInv, FailureSettled, JournalInv, RecoveryKeepsAcked, PublishInv,
         AckIsAcknowledged, OutcomeInv, Terminal
<1>5. JournalInv' /\ SettledIsAcked'
  BY DEF RecordOutcome, Free, journal, session, publication, host, viewer, IInv,
       JournalInv, SettledIsAcked, RecoveryKeepsAcked, AtLeastOne, Recorded,
       OutcomeInv, FailureSettled, Terminal, Observable
<1>. QED
  BY <1>1, <1>2, <1>3, <1>4, <1>5 DEF IInv

LEMMA ClaimCloseKeeps ==
    ASSUME TypeOK, IInv, ClaimClose
    PROVE  TypeOK' /\ IInv'
<1>1. TypeOK'
  BY DEF ClaimClose, Free, files, publication, host, viewer, journal,
         manifest, TypeOK, Counts, Terminal, Live, Stages, Inputs, Threads,
         Observable
<1>2. PublishInv'
  BY DEF ClaimClose, Free, files, publication, host, viewer, journal,
         manifest, IInv, PublishInv, AckIsAcknowledged
<1>3. OutcomeInv'
  BY DEF ClaimClose, Free, files, publication, host, viewer, journal, manifest,
       IInv, OutcomeInv, Terminal, Recorded, FailureSettled, Observable
<1>4. JournalInv' /\ SettledIsAcked' /\ FailureSettled'
  BY DEF ClaimClose, Free, files, publication, host, viewer, journal, manifest,
       IInv, JournalInv, SettledIsAcked, FailureSettled, RecoveryKeepsAcked,
       AtLeastOne, Recorded, OutcomeInv, Terminal, Observable
<1>. QED
  BY <1>1, <1>2, <1>3, <1>4 DEF IInv

LEMMA SessionClosedKeeps ==
    ASSUME TypeOK, IInv, SessionClosed
    PROVE  TypeOK' /\ IInv'
<1>1. TypeOK'
  BY DEF SessionClosed, AtLeastOne, IndexThrough, FlushRest, Cleanup, host,
         viewer, Later, journal, TypeOK, Counts, Terminal, Live, Stages,
         Inputs, Threads, Observable, IInv, JournalInv, RecoveryKeepsAcked,
         Unfinished
<1>2. JournalInv'
  BY DEF SessionClosed, AtLeastOne, IndexThrough, FlushRest, Cleanup, host,
         viewer, Later, journal, IInv, JournalInv, RecoveryKeepsAcked
<1>3. PublishInv'
  BY DEF SessionClosed, AtLeastOne, IndexThrough, FlushRest, Cleanup, host,
         viewer, Later, journal, IInv, PublishInv, AckIsAcknowledged,
         TypeOK, Counts, Terminal, Live, Stages, Inputs, Threads,
         Observable, JournalInv, RecoveryKeepsAcked, OutcomeInv,
         SettledIsAcked, FailureSettled, Unfinished
<1>4. OutcomeInv'
  BY DEF SessionClosed, AtLeastOne, IndexThrough, FlushRest, Cleanup, host, viewer,
       Later, journal, IInv, OutcomeInv, Terminal, Recorded, FailureSettled,
       Observable
<1>5. SettledIsAcked'
  BY DEF SessionClosed, AtLeastOne, IndexThrough, FlushRest, Cleanup, host,
         viewer, Later, journal, IInv, SettledIsAcked, JournalInv,
         RecoveryKeepsAcked, PublishInv, AckIsAcknowledged, OutcomeInv,
         Terminal
<1>6. FailureSettled'
  BY DEF SessionClosed, AtLeastOne, IndexThrough, FlushRest, Cleanup, host, viewer,
       Later, journal, IInv, FailureSettled, Recorded, OutcomeInv, Terminal,
       Observable
<1>. QED
  BY <1>1, <1>2, <1>3, <1>4, <1>5, <1>6 DEF IInv

LEMMA ReportKeeps ==
    ASSUME TypeOK, IInv, Report
    PROVE  TypeOK' /\ IInv'
<1>1. TypeOK'
  BY DEF Report, AtLeastOne, IndexThrough, Free, journal, session, host,
         viewer, Later, TypeOK, Counts, Terminal, Live, Stages, Inputs,
         Threads, Observable, IInv, JournalInv, RecoveryKeepsAcked,
         PublishInv, AckIsAcknowledged, OutcomeInv, Unfinished
<1>2. PublishInv'
  <2>1. wal \in Nat /\ acked \in Nat /\ ack \in Nat /\ rows \in Nat /\ index \in Nat
        /\ cache \in Nat /\ ack <= acked /\ acked <= wal
    BY DEF TypeOK, Counts, IInv, JournalInv, RecoveryKeepsAcked, PublishInv,
         AckIsAcknowledged
  <2>2. UNCHANGED <<wal, ack, acked, cache, coord, restarted, viewing, shown>>
    BY DEF Report, journal, host, viewer
  <2>3. ack = 0 => acked = 0
    BY DEF IInv, PublishInv, Report, Free
  <2>4. /\ rows' <= wal /\ (rows' <= acked \/ acked = 0)
        /\ index' <= wal /\ (restarted \/ index' <= acked \/ acked = 0)
    BY <2>1, <2>3 DEF Report, IndexThrough, Later, IInv, PublishInv
  <2>5. UNCHANGED <<holder, input>> /\ stage' = "exiting"
    BY DEF Report
  <2>. QED
    BY <2>1, <2>2, <2>4, <2>5 DEF IInv, PublishInv, AckIsAcknowledged
<1>3. OutcomeInv'
  BY DEF Report, AtLeastOne, IndexThrough, Free, journal, session, host, viewer,
       Later, IInv, OutcomeInv, Terminal, Recorded, FailureSettled, Observable
<1>4. SettledIsAcked'
  BY DEF Report, AtLeastOne, IndexThrough, Free, journal, session, host,
         viewer, Later, IInv, SettledIsAcked, JournalInv,
         RecoveryKeepsAcked, PublishInv, AckIsAcknowledged, OutcomeInv,
         Terminal
<1>5. FailureSettled'
  BY DEF Report, AtLeastOne, IndexThrough, Free, journal, session, host,
         viewer, Later, IInv, FailureSettled, JournalInv,
         RecoveryKeepsAcked, PublishInv, AckIsAcknowledged, OutcomeInv,
         Terminal
<1>6. JournalInv'
  BY DEF Report, AtLeastOne, IndexThrough, Free, journal, session, host,
         viewer, Later, IInv, JournalInv, RecoveryKeepsAcked
<1>. QED
  BY <1>1, <1>2, <1>3, <1>4, <1>5, <1>6 DEF IInv

LEMMA ExitKeeps ==
    ASSUME TypeOK, IInv, Exit
    PROVE  TypeOK' /\ IInv'
<1>1. TypeOK'
  <2>1. alive' \in BOOLEAN
    BY Zenon DEF Exit
  <2>. QED
    BY <2>1 DEF Exit, Free, files, session, publication, host, viewer, journal, manifest, TypeOK
<1>2. OutcomeInv'
  BY DEF Exit, Free, files, session, publication, host, viewer, journal,
         manifest, IInv, OutcomeInv, Terminal
<1>3. JournalInv' /\ PublishInv' /\ SettledIsAcked' /\ FailureSettled'
  BY DEF Exit, Free, files, session, publication, host, viewer, journal,
         manifest, IInv, JournalInv, PublishInv, SettledIsAcked,
         FailureSettled, RecoveryKeepsAcked, AckIsAcknowledged, AtLeastOne
<1>. QED
  BY <1>1, <1>2, <1>3 DEF IInv

LEMMA CrashKeeps ==
    ASSUME TypeOK, IInv, Crash
    PROVE  TypeOK' /\ IInv'
<1>1. TypeOK'
  <2>1. alive' \in BOOLEAN
    BY Zenon DEF Crash
  <2>. QED
    BY <2>1 DEF Crash, files, session, publication, host, viewer, journal, manifest, TypeOK
<1>2. OutcomeInv'
  BY DEF Crash, files, session, publication, host, viewer, journal,
         manifest, IInv, OutcomeInv, Terminal
<1>3. JournalInv' /\ PublishInv' /\ SettledIsAcked' /\ FailureSettled'
  BY DEF Crash, files, session, publication, host, viewer, journal,
         manifest, IInv, JournalInv, PublishInv, SettledIsAcked,
         FailureSettled, RecoveryKeepsAcked, AckIsAcknowledged, AtLeastOne
<1>. QED
  BY <1>1, <1>2, <1>3 DEF IInv

LEMMA InputRequestKeeps ==
    ASSUME TypeOK, IInv, InputRequest
    PROVE  TypeOK' /\ IInv'
<1>1. TypeOK'
  BY DEF InputRequest, files, session, publication, host, viewer, journal,
         manifest, TypeOK, Counts, Terminal, Live, Stages, Inputs, Threads,
         Observable
<1>2. PublishInv'
  BY DEF InputRequest, files, session, publication, host, viewer, journal,
         manifest, IInv, PublishInv, AckIsAcknowledged
<1>3. JournalInv' /\ OutcomeInv' /\ SettledIsAcked' /\ FailureSettled'
  BY DEF InputRequest, files, session, publication, host, viewer, journal,
         manifest, IInv, JournalInv, OutcomeInv, SettledIsAcked,
         FailureSettled, RecoveryKeepsAcked, Terminal, AtLeastOne
<1>. QED
  BY <1>1, <1>2, <1>3 DEF IInv

LEMMA InputRefusedKeeps ==
    ASSUME TypeOK, IInv, InputRefused
    PROVE  TypeOK' /\ IInv'
<1>1. TypeOK'
  BY DEF InputRefused, files, session, publication, host, viewer, journal,
         manifest, TypeOK, Counts, Terminal, Live, Stages, Inputs, Threads,
         Observable
<1>2. PublishInv'
  BY DEF InputRefused, files, session, publication, host, viewer, journal,
         manifest, IInv, PublishInv, AckIsAcknowledged
<1>3. JournalInv' /\ OutcomeInv' /\ SettledIsAcked' /\ FailureSettled'
  BY DEF InputRefused, files, session, publication, host, viewer, journal,
         manifest, IInv, JournalInv, OutcomeInv, SettledIsAcked,
         FailureSettled, RecoveryKeepsAcked, Terminal, AtLeastOne
<1>. QED
  BY <1>1, <1>2, <1>3 DEF IInv

LEMMA InputIndexKeeps ==
    ASSUME TypeOK, IInv, InputIndex
    PROVE  TypeOK' /\ IInv'
<1>1. TypeOK'
  BY DEF InputIndex, IndexThrough, journal, manifest, session, host, viewer,
         Later, TypeOK, Counts, Terminal, Live, Stages, Inputs, Threads,
         Observable
<1>2. PublishInv'
  BY DEF InputIndex, IndexThrough, journal, manifest, session, host, viewer,
         Later, IInv, PublishInv, AckIsAcknowledged, TypeOK, Counts,
         Terminal, Live, Stages, Inputs, Threads, Observable, JournalInv,
         RecoveryKeepsAcked, OutcomeInv, SettledIsAcked, FailureSettled,
         AtLeastOne, Unfinished
<1>3. SettledIsAcked'
  BY DEF InputIndex, IndexThrough, journal, manifest, session, host, viewer,
         Later, IInv, SettledIsAcked, AtLeastOne, JournalInv,
         RecoveryKeepsAcked, PublishInv, AckIsAcknowledged, OutcomeInv,
         Terminal
<1>4. JournalInv' /\ OutcomeInv' /\ FailureSettled'
  BY DEF InputIndex, IndexThrough, journal, manifest, session, host, viewer,
         Later, IInv, JournalInv, OutcomeInv, FailureSettled,
         RecoveryKeepsAcked, Terminal
<1>. QED
  BY <1>1, <1>2, <1>3, <1>4 DEF IInv

LEMMA InputFaultKeeps ==
    ASSUME TypeOK, IInv, InputFault
    PROVE  TypeOK' /\ IInv'
<1>1. TypeOK'
  <2>1. tainted' \in BOOLEAN /\ closed' \in BOOLEAN /\ kernelClosed' \in BOOLEAN
    BY DEF InputFault, TypeOK
  <2>2. wal' \in Counts /\ tail' \in {"none", "part"}
    BY DEF InputFault, FlushRest, journal, TypeOK, Counts, IInv, JournalInv,
         RecoveryKeepsAcked
  <2>3. rows' \in Counts /\ index' \in Counts
    BY DEF InputFault, IndexThrough, Later, TypeOK, Counts
  <2>. QED
    BY <2>1, <2>2, <2>3 DEF InputFault, TypeOK, Inputs, manifest, host, viewer
<1>2. JournalInv'
  BY DEF InputFault, IndexThrough, FlushRest, journal, manifest, host,
         viewer, Later, IInv, JournalInv, RecoveryKeepsAcked
<1>3. PublishInv'
  BY DEF InputFault, IndexThrough, FlushRest, journal, manifest, host,
         viewer, Later, IInv, PublishInv, AckIsAcknowledged, TypeOK, Counts,
         Terminal, Live, Stages, Inputs, Threads, Observable, JournalInv,
         RecoveryKeepsAcked, OutcomeInv, SettledIsAcked, FailureSettled,
         AtLeastOne, Unfinished
<1>4. SettledIsAcked'
  BY DEF InputFault, IndexThrough, FlushRest, journal, manifest, host,
         viewer, Later, IInv, SettledIsAcked, AtLeastOne, JournalInv,
         RecoveryKeepsAcked, PublishInv, AckIsAcknowledged, OutcomeInv,
         Terminal
<1>5. OutcomeInv' /\ FailureSettled'
  BY DEF InputFault, IndexThrough, FlushRest, journal, manifest, host,
         viewer, Later, IInv, OutcomeInv, FailureSettled, Terminal
<1>. QED
  BY <1>1, <1>2, <1>3, <1>4, <1>5 DEF IInv

LEMMA InputReadKeeps ==
    ASSUME TypeOK, IInv, InputRead
    PROVE  TypeOK' /\ IInv'
<1>1. TypeOK'
  BY DEF InputRead, files, manifest, journal, session,
       host, viewer, publication, TypeOK, Counts, Terminal, Live, Stages, Inputs, Threads,
       Observable, Recorded, IInv, OutcomeInv, FailureSettled
<1>2. PublishInv'
  BY DEF InputRead, files, manifest, journal, session,
       host, viewer, publication, IInv, PublishInv, AckIsAcknowledged, JournalInv,
       RecoveryKeepsAcked, OutcomeInv, Terminal, Recorded, FailureSettled,
       Observable
<1>3. OutcomeInv'
  BY DEF InputRead, files, manifest, journal, session, host,
         viewer, publication, IInv, OutcomeInv, Terminal
<1>4. SettledIsAcked'
  BY DEF InputRead, files, manifest, journal, session, host,
         viewer, publication, IInv, SettledIsAcked, JournalInv,
         RecoveryKeepsAcked, PublishInv, AckIsAcknowledged, OutcomeInv,
         Terminal
<1>5. FailureSettled'
  BY DEF InputRead, files, manifest, journal, session, host,
         viewer, publication, IInv, FailureSettled
<1>6. JournalInv'
  BY DEF InputRead, files, manifest, journal, session, host,
         viewer, publication, IInv, JournalInv, RecoveryKeepsAcked
<1>. QED
  BY <1>1, <1>2, <1>3, <1>4, <1>5, <1>6 DEF IInv

LEMMA InputReportKeeps ==
    ASSUME TypeOK, IInv, InputReport
    PROVE  TypeOK' /\ IInv'
<1>1. TypeOK'
  BY DEF InputReport, AtLeastOne, IndexThrough, journal, session, host,
         viewer, Later, TypeOK, Counts, Terminal, Live, Stages, Inputs,
         Threads, Observable
<1>2. PublishInv'
  BY DEF InputReport, AtLeastOne, IndexThrough, journal, session, host,
         viewer, Later, IInv, PublishInv, AckIsAcknowledged, JournalInv,
         RecoveryKeepsAcked, OutcomeInv, Terminal
<1>3. OutcomeInv'
  BY DEF InputReport, AtLeastOne, IndexThrough, journal, session, host,
         viewer, Later, IInv, OutcomeInv, Terminal
<1>4. SettledIsAcked'
  BY DEF InputReport, AtLeastOne, IndexThrough, journal, session, host,
         viewer, Later, IInv, SettledIsAcked, JournalInv,
         RecoveryKeepsAcked, PublishInv, AckIsAcknowledged, OutcomeInv,
         Terminal
<1>5. FailureSettled'
  BY DEF InputReport, AtLeastOne, IndexThrough, journal, session, host,
         viewer, Later, IInv, FailureSettled
<1>6. JournalInv'
  BY DEF InputReport, AtLeastOne, IndexThrough, journal, session, host,
         viewer, Later, IInv, JournalInv, RecoveryKeepsAcked
<1>. QED
  BY <1>1, <1>2, <1>3, <1>4, <1>5, <1>6 DEF IInv

LEMMA ObserveKeeps ==
    ASSUME TypeOK, IInv, Observe
    PROVE  TypeOK' /\ IInv'
<1>1. TypeOK'
  BY DEF Observe, AtLeastOne, Outcome, journal, writer, viewer, session,
         publication, TypeOK, Counts, Terminal, Live, Stages, Inputs,
         Threads, Observable
<1>2. PublishInv'
  BY DEF Observe, AtLeastOne, Outcome, journal, writer, viewer, session,
         publication, IInv, PublishInv, AckIsAcknowledged, TypeOK, Counts,
         Terminal, Live, Stages, Inputs, Threads, Observable
<1>3. OutcomeInv'
  BY DEF Observe, AtLeastOne, Outcome, journal, writer, viewer, session,
         publication, IInv, OutcomeInv, Terminal, TypeOK, Counts, Live,
         Stages, Inputs, Threads, Observable
<1>4. SettledIsAcked'
  BY DEF Observe, AtLeastOne, Outcome, journal, writer, viewer, session,
         publication, IInv, SettledIsAcked, TypeOK, Counts, Terminal, Live,
         Stages, Inputs, Threads, Observable, JournalInv,
         RecoveryKeepsAcked, PublishInv, AckIsAcknowledged, OutcomeInv,
         FailureSettled, Unfinished
<1>5. FailureSettled'
  BY DEF Observe, AtLeastOne, Outcome, journal, writer, viewer, session,
         publication, IInv, FailureSettled, JournalInv, RecoveryKeepsAcked,
         PublishInv, AckIsAcknowledged, OutcomeInv, Terminal
<1>6. JournalInv'
  BY DEF Observe, AtLeastOne, Outcome, journal, writer, viewer, session,
         publication, IInv, JournalInv, RecoveryKeepsAcked
<1>. QED
  BY <1>1, <1>2, <1>3, <1>4, <1>5, <1>6 DEF IInv

LEMMA RecoverKeeps ==
    ASSUME TypeOK, IInv, Recover
    PROVE  TypeOK' /\ IInv'
<1>1. TypeOK'
  BY DEF Recover, Outcome, journal, writer, viewer, session, publication,
         TypeOK, Counts, Terminal, Live, Stages, Inputs, Threads, Observable
<1>2. PublishInv'
  BY DEF Recover, Outcome, journal, writer, viewer, session, publication,
         IInv, PublishInv, AckIsAcknowledged, TypeOK, Counts, Terminal,
         Live, Stages, Inputs, Threads, Observable, JournalInv,
         RecoveryKeepsAcked, OutcomeInv, SettledIsAcked, FailureSettled,
         AtLeastOne, Unfinished
<1>3. OutcomeInv'
  BY DEF Recover, Outcome, journal, writer, viewer, session, publication,
         IInv, OutcomeInv, Terminal, TypeOK, Counts, Live, Stages, Inputs,
         Threads, Observable
<1>4. SettledIsAcked'
  BY DEF Recover, Outcome, journal, writer, viewer, session, publication,
         IInv, SettledIsAcked, AtLeastOne, JournalInv, RecoveryKeepsAcked,
         PublishInv, AckIsAcknowledged, OutcomeInv, Terminal
<1>5. FailureSettled'
  BY DEF Recover, Outcome, journal, writer, viewer, session, publication,
         IInv, FailureSettled, JournalInv, RecoveryKeepsAcked, PublishInv,
         AckIsAcknowledged, OutcomeInv, Terminal
<1>6. JournalInv'
  BY DEF Recover, Outcome, journal, writer, viewer, session, publication,
         IInv, JournalInv, RecoveryKeepsAcked
<1>. QED
  BY <1>1, <1>2, <1>3, <1>4, <1>5, <1>6 DEF IInv

LEMMA HostCrashKeeps ==
    ASSUME TypeOK, IInv, HostCrash
    PROVE  TypeOK' /\ IInv'
<1>1. TypeOK'
  <2>1. hostUp' \in BOOLEAN
    BY Zenon DEF HostCrash
  <2>. QED
    BY <2>1 DEF HostCrash, files, writer, viewer, journal, manifest, session, publication, TypeOK
<1>2. JournalInv' /\ PublishInv' /\ OutcomeInv' /\ SettledIsAcked' /\ FailureSettled'
  BY DEF HostCrash, files, writer, viewer, journal, manifest, session,
         publication, IInv, JournalInv, PublishInv, OutcomeInv,
         SettledIsAcked, FailureSettled, RecoveryKeepsAcked,
         AckIsAcknowledged, Terminal, AtLeastOne
<1>. QED
  BY <1>1, <1>2 DEF IInv

LEMMA RestartKeeps ==
    ASSUME TypeOK, IInv, Restart
    PROVE  TypeOK' /\ IInv'
<1>1. TypeOK'
  BY DEF Restart, AtLeastOne, journal, writer, viewer, session, publication,
         TypeOK, Counts, Terminal, Live, Stages, Inputs, Threads, Observable
<1>2. PublishInv'
  BY DEF Restart, AtLeastOne, journal, writer, viewer, session, publication,
         IInv, PublishInv, AckIsAcknowledged, JournalInv,
         RecoveryKeepsAcked, OutcomeInv, Terminal
<1>3. OutcomeInv'
  BY DEF Restart, AtLeastOne, journal, writer, viewer, session, publication,
         IInv, OutcomeInv, Terminal
<1>4. SettledIsAcked'
  BY DEF Restart, AtLeastOne, journal, writer, viewer, session, publication,
         IInv, SettledIsAcked, JournalInv, RecoveryKeepsAcked, PublishInv,
         AckIsAcknowledged, OutcomeInv, Terminal
<1>5. FailureSettled'
  BY DEF Restart, AtLeastOne, journal, writer, viewer, session, publication,
         IInv, FailureSettled, JournalInv, RecoveryKeepsAcked, PublishInv,
         AckIsAcknowledged, OutcomeInv, Terminal
<1>6. JournalInv'
  BY DEF Restart, AtLeastOne, journal, writer, viewer, session, publication,
         IInv, JournalInv, RecoveryKeepsAcked
<1>. QED
  BY <1>1, <1>2, <1>3, <1>4, <1>5, <1>6 DEF IInv

LEMMA ViewOpenKeeps ==
    ASSUME TypeOK, IInv, ViewOpen
    PROVE  TypeOK' /\ IInv'
<1>1. TypeOK'
  BY DEF ViewOpen, files, writer, host, journal, manifest, session,
         publication, TypeOK, Counts, Terminal, Live, Stages, Inputs,
         Threads, Observable
<1>2. PublishInv'
  BY DEF ViewOpen, files, writer, host, journal, manifest, session,
         publication, IInv, PublishInv, AckIsAcknowledged
<1>3. JournalInv' /\ OutcomeInv' /\ SettledIsAcked' /\ FailureSettled'
  BY DEF ViewOpen, files, writer, host, journal, manifest, session,
         publication, IInv, JournalInv, OutcomeInv, SettledIsAcked,
         FailureSettled, RecoveryKeepsAcked, Terminal, AtLeastOne
<1>. QED
  BY <1>1, <1>2, <1>3 DEF IInv

LEMMA ViewRefreshKeeps ==
    ASSUME TypeOK, IInv, ViewRefresh
    PROVE  TypeOK' /\ IInv'
<1>1. TypeOK'
  BY DEF ViewRefresh, Later, files, writer, host, journal, manifest,
         session, publication, TypeOK, Counts, Terminal, Live, Stages,
         Inputs, Threads, Observable
<1>2. PublishInv'
  BY DEF ViewRefresh, Later, files, writer, host, journal, manifest,
         session, publication, IInv, PublishInv, AckIsAcknowledged, TypeOK,
         Counts, Terminal, Live, Stages, Inputs, Threads, Observable
<1>3. JournalInv' /\ OutcomeInv' /\ SettledIsAcked' /\ FailureSettled'
  BY DEF ViewRefresh, Later, files, writer, host, journal, manifest,
         session, publication, IInv, JournalInv, OutcomeInv, SettledIsAcked,
         FailureSettled, RecoveryKeepsAcked, Terminal, AtLeastOne
<1>. QED
  BY <1>1, <1>2, <1>3 DEF IInv

LEMMA NextKeeps == TypeOK /\ IInv /\ [Next]_vars => TypeOK' /\ IInv'
<1>. SUFFICES ASSUME TypeOK, IInv, [Next]_vars PROVE TypeOK' /\ IInv'
  OBVIOUS
<1>1. ASSUME NEW t \in Threads,
             Begin(t) \/ LineVisible(t) \/ Acknowledge(t) \/ AppendFails(t)
      PROVE  TypeOK' /\ IInv'
  BY <1>1, BeginKeeps, LineVisibleKeeps, AcknowledgeKeeps, AppendFailsKeeps
<1>2. ASSUME NEW t \in Threads, ReadCoordinate(t) \/ Publish(t)
      PROVE  TypeOK' /\ IInv'
  BY <1>2, ReadCoordinateKeeps, PublishKeeps
<1>3. CASE Execution
  BY <1>3, StartSessionKeeps, StartedKeeps, StartFailsKeeps, ReportWaitKeeps, EndRunKeeps,
     EndingReadKeeps, RecordOutcomeKeeps, ClaimCloseKeeps, SessionClosedKeeps, ReportKeeps, ExitKeeps
     DEF Execution
<1>4. CASE LiveInput
  BY <1>4, InputRequestKeeps, InputRefusedKeeps, InputIndexKeeps, InputFaultKeeps,
     InputReadKeeps, InputReportKeeps DEF LiveInput
<1>5. CASE Crash \/ Observe \/ Recover \/ HostCrash \/ Restart \/ ViewOpen \/ ViewRefresh
  BY <1>5, CrashKeeps, ObserveKeeps, RecoverKeeps, HostCrashKeeps, RestartKeeps,
     ViewOpenKeeps, ViewRefreshKeeps
<1>6. CASE UNCHANGED vars
  <2>1. TypeOK'
    BY <1>6 DEF TypeOK, vars, journal, manifest, files, session, publication, writer,
         host, viewer
  <2>2. JournalInv' /\ PublishInv'
    BY <1>6 DEF IInv, JournalInv, RecoveryKeepsAcked, PublishInv, AckIsAcknowledged, vars,
         journal, manifest, files, session, publication, writer, host, viewer
  <2>3. OutcomeInv' /\ SettledIsAcked' /\ FailureSettled'
    BY <1>6 DEF IInv, OutcomeInv, SettledIsAcked, FailureSettled, vars, journal, manifest,
         files, session, publication, writer, host, viewer
  <2>. QED
    BY <2>1, <2>2, <2>3 DEF IInv
<1>. QED
  BY <1>1, <1>2, <1>3, <1>4, <1>5, <1>6 DEF Next, Append, Publishing

LEMMA BothHold == Spec => [](TypeOK /\ IInv)
  BY InitInv, NextKeeps, PTL DEF Spec

(***************************************************************************)
(* Every variable keeps its type.                                          *)
(***************************************************************************)
THEOREM StoreTypes == Spec => []TypeOK
  BY BothHold, PTL

(***************************************************************************)
(* The inductive invariant: what the file holds, what of it is published   *)
(* and what is reported agree with the place of the writer's two threads,  *)
(* for every number of records and both kinds of run.                      *)
(***************************************************************************)
THEOREM StoreSound == Spec => []IInv
  BY BothHold, PTL

(***************************************************************************)
(* Whatever append fails and whenever Journal.append is cut short by a     *)
(* kill, the file holds every acknowledged record, at most one more, and   *)
(* at most one torn line behind them.                                      *)
(***************************************************************************)
THEOREM JournalRecovers == Spec => []RecoveryKeepsAcked
<1>1. IInv => RecoveryKeepsAcked
  BY DEF IInv, JournalInv
<1>. QED
  BY <1>1, StoreSound, PTL

(***************************************************************************)
(* publish_committed never publishes a coordinate beyond what is           *)
(* acknowledged, with two publishers and appends between their halves.     *)
(***************************************************************************)
THEOREM AckWithinJournal == Spec => []AckIsAcknowledged
<1>1. IInv => AckIsAcknowledged
  BY DEF IInv, PublishInv
<1>. QED
  BY <1>1, StoreSound, PTL

(***************************************************************************)
(* The final cursor that _observe_exit and _finish_run settle is the       *)
(* published coordinate, and the index shows no tail.                      *)
(***************************************************************************)
THEOREM OutcomeWithinAck == Spec => []SettledIsAcked
<1>1. IInv => SettledIsAcked
  BY DEF IInv
<1>. QED
  BY <1>1, StoreSound, PTL

(***************************************************************************)
(* A failure put on record before cleanup is what _observe_exit and        *)
(* _finish_run settle on.                                                  *)
(***************************************************************************)
THEOREM FailureKept == Spec => []FailureSettled
<1>1. IInv => FailureSettled
  BY DEF IInv
<1>. QED
  BY <1>1, StoreSound, PTL

(***************************************************************************)
(* refresh_committed refuses no viewer: the journal reaches the published  *)
(* coordinate, whenever the viewer has opened the run.                     *)
(***************************************************************************)
THEOREM ViewersServed == Spec => []ViewerServed
<1>1. Init => ViewerServed
  BY DEF Init, ViewerServed
<1>2. TypeOK /\ IInv /\ ViewerServed /\ [Next]_vars => ViewerServed'
  <2>. SUFFICES ASSUME TypeOK, IInv, ViewerServed, [Next]_vars PROVE ViewerServed'
    OBVIOUS
  <2>1. CASE ViewRefresh
    <3>1. wal \in Nat /\ shown \in Nat /\ ack \in Nat /\ ack <= wal
      BY DEF TypeOK, Counts, IInv, JournalInv, RecoveryKeepsAcked, PublishInv,
           AckIsAcknowledged
    <3>2. ack <= Later(shown, wal)
      BY <3>1 DEF Later
    <3>. QED
      BY <2>1, <3>2 DEF ViewRefresh, ViewerServed
  <2>2. CASE ViewOpen
    BY <2>2 DEF ViewOpen, ViewerServed
  <2>3. CASE UNCHANGED vars
    BY <2>3 DEF vars, viewer, ViewerServed
  <2>4. CASE Append \/ Publishing
    BY <2>4 DEF Append, Publishing, Begin, LineVisible, Acknowledge, AppendFails,
         ReadCoordinate, Publish, viewer, ViewerServed
  <2>5. CASE Execution
    BY <2>5 DEF Execution, StartSession, Started, StartFails, ReportWait, EndRun,
         EndingRead, RecordOutcome, ClaimClose, SessionClosed, Report, Exit, viewer, ViewerServed
  <2>6. CASE LiveInput
    BY <2>6 DEF LiveInput, InputRequest, InputRefused, InputIndex, InputFault, InputRead, InputReport,
         viewer, ViewerServed
  <2>7. CASE Crash \/ Observe \/ Recover \/ HostCrash \/ Restart
    BY <2>7 DEF Crash, Observe, Recover, HostCrash, Restart, viewer, ViewerServed
  <2>. QED
    BY <2>1, <2>2, <2>3, <2>4, <2>5, <2>6, <2>7 DEF Next
<1>. QED
  BY <1>1, <1>2, BothHold, PTL DEF Spec

\* A step of a thread of the writer finds the run undecided and leaves it so;
\* only Acknowledge and Publish touch what readers rely on.
LEMMA WriterSteps ==
    ASSUME IInv,
           \/ \E t \in Threads : Begin(t) \/ LineVisible(t) \/ AppendFails(t) \/ ReadCoordinate(t)
           \/ Execution \/ LiveInput \/ Crash
    PROVE  UNCHANGED <<acked, ack, Decision>>
<1>1. alive
  BY DEF Begin, LineVisible, AppendFails, ReadCoordinate, Execution, StartSession, Started,
       StartFails, ReportWait, EndRun,
         EndingRead, RecordOutcome, ClaimClose, SessionClosed, Report,
       Exit, Free, LiveInput, InputRequest, InputRefused, InputIndex, InputFault,
       InputRead, InputReport, Crash
<1>2. ~settled
  BY <1>1 DEF IInv, OutcomeInv
<1>3. UNCHANGED <<acked, ack, settled>>
  <2>1. CASE \E t \in Threads : Begin(t) \/ LineVisible(t) \/ AppendFails(t) \/ ReadCoordinate(t)
    BY <2>1 DEF Begin, LineVisible, AppendFails, ReadCoordinate, files, writer, host
  <2>2. CASE Execution
    BY <2>2 DEF Execution, StartSession, Started, StartFails, ReportWait, EndRun,
         EndingRead, RecordOutcome, ClaimClose, SessionClosed, Report, Exit, files, host
  <2>3. CASE LiveInput \/ Crash
    BY <2>3 DEF LiveInput, InputRequest, InputRefused, InputIndex, InputFault, InputRead, InputReport,
         Crash, files, host
  <2>. QED
    BY <2>1, <2>2, <2>3
<1>. QED
  BY <1>2, <1>3 DEF Decision

\* So does a step of anyone else, but for the host that settles.
LEMMA OtherSteps ==
    ASSUME IInv, HostCrash \/ Restart \/ ViewOpen \/ ViewRefresh \/ UNCHANGED vars
    PROVE  UNCHANGED <<acked, ack, Decision>>
<1>1. CASE Restart
  <2>1. settled => status \in Terminal
    BY DEF IInv, OutcomeInv
  <2>. QED
    BY <1>1, <2>1 DEF Restart, Decision, writer
<1>2. CASE HostCrash \/ ViewOpen \/ ViewRefresh \/ UNCHANGED vars
  BY <1>2 DEF HostCrash, ViewOpen, ViewRefresh, vars, files, manifest, writer, host, Decision
<1>. QED
  BY <1>1, <1>2

\* Publish moves the coordinate on, within what is acknowledged.
LEMMA PublishMovesOn ==
    ASSUME TypeOK, IInv, NEW t \in Threads, Publish(t)
    PROVE  /\ ack \in Nat /\ acked \in Nat /\ ack' \in ack .. acked
           /\ ~settled /\ UNCHANGED <<acked, settled>>
<1>1. /\ acked \in Nat /\ ack \in Nat /\ coord[t] \in Nat /\ cache = ack
      /\ ack <= acked /\ coord[t] <= acked
  BY DEF TypeOK, Counts, IInv, PublishInv, AckIsAcknowledged
<1>2. ack' \in ack .. acked
  BY <1>1 DEF Publish, Later
<1>3. ~settled /\ UNCHANGED <<acked, settled>>
  BY DEF Publish, IInv, OutcomeInv, host
<1>. QED
  BY <1>1, <1>2, <1>3

\* The host settles a run that was not, and touches neither journal nor ACK.
LEMMA HostSettles ==
    ASSUME TypeOK, Observe \/ Recover
    PROVE  /\ ~settled /\ settled' /\ status' \in Terminal /\ UNCHANGED <<acked, ack>>
<1>1. ~settled /\ settled' /\ UNCHANGED <<acked, ack>>
  BY DEF Observe, Recover, writer
<1>2. \A o \in {"interrupted", "faulted"} : Outcome(o) \in Terminal
  BY DEF Outcome, Terminal, TypeOK, Observable
<1>3. status' \in Terminal
  BY <1>2 DEF Observe, Recover
<1>. QED
  BY <1>1, <1>3

(***************************************************************************)
(* committed-prefix.json never goes back, although publish_committed reads *)
(* the coordinate and replaces the file under different locks.             *)
(***************************************************************************)
THEOREM AckOnlyGrows == Spec => AckNeverBack
<1>1. TypeOK /\ IInv /\ [Next]_vars => (ack' >= ack)
  <2>. SUFFICES ASSUME TypeOK, IInv, [Next]_vars PROVE ack' >= ack
    OBVIOUS
  <2>1. ack \in Nat
    BY DEF TypeOK, Counts
  <2>2. CASE ack' = ack
    BY <2>1, <2>2
  <2>3. ASSUME NEW t \in Threads, Publish(t)  PROVE ack' >= ack
    BY <2>3, PublishMovesOn
  <2>4. ASSUME NEW t \in Threads, Acknowledge(t)  PROVE ack' = ack
    BY <2>4 DEF Acknowledge, files
  <2>. QED
    BY <2>2, <2>3, <2>4, WriterSteps, OtherSteps, HostSettles DEF Next, Append, Publishing
<1>. QED
  BY <1>1, BothHold, PTL DEF Spec, AckNeverBack

(***************************************************************************)
(* The directory implements PublishedRun: the writer, its two publishers,  *)
(* _observe_exit, _finish_run and create_app together promise readers a    *)
(* prefix that only grows and an outcome that is decided once.             *)
(***************************************************************************)
THEOREM StoreKeepsPromise == Spec => PromiseKept
<1>1. Init => RunPromise!Init
  BY DEF Init, RunPromise!Init, Decision
<1>2. TypeOK /\ IInv /\ [Next]_vars => [RunPromise!Next]_(RunPromise!vars)
  <2>. SUFFICES ASSUME TypeOK, IInv, [Next]_vars
                PROVE  [RunPromise!Next]_(RunPromise!vars)
    OBVIOUS
  <2>1. CASE UNCHANGED <<acked, ack, Decision>>
    BY <2>1 DEF RunPromise!vars
  <2>2. ASSUME NEW t \in Threads, Publish(t)  PROVE RunPromise!Next
    BY <2>2, PublishMovesOn DEF RunPromise!Next, RunPromise!Publish, Decision
  <2>3. ASSUME NEW t \in Threads, Acknowledge(t)  PROVE RunPromise!Next
    <3>1. acked' = acked + 1 /\ UNCHANGED <<ack, settled>> /\ ~settled
      BY <2>3 DEF Acknowledge, files, host, IInv, OutcomeInv
    <3>. QED
      BY <3>1 DEF RunPromise!Next, RunPromise!Produce, Decision
  <2>4. CASE Observe \/ Recover
    BY <2>4, HostSettles DEF RunPromise!Next, RunPromise!Decide, Decision
  <2>. QED
    BY <2>1, <2>2, <2>3, <2>4, WriterSteps, OtherSteps DEF Next, Append, Publishing
<1>. QED
  BY <1>1, <1>2, BothHold, PTL DEF Spec, PromiseKept, RunPromise!Spec
=============================================================================
