-------------------------- MODULE ExperimentsProofs -------------------------
(***************************************************************************)
(* Proofs about an experiment: a cell is started, ends, is confirmed and   *)
(* recorded in this order, whatever is raised or killed in between.        *)
(***************************************************************************)
EXTENDS Experiments, FiniteSetTheorems, TLAPS

USE SizesAssumption

-----------------------------------------------------------------------------
(* The inductive invariant.                                                *)

\* Cells are taken in order; the ones that were started run, have ended, or have
\* their row.
Started ==
    /\ active \cap ready = {}
    /\ \A c \in active \cup ready : times[c] = 0 /\ sup[c] # "none"
    /\ \A c \in ready : sup[c] = "gone"
    /\ \A c \in Cells : sup[c] # "none" => c < next /\ (c \in active \cup ready \/ times[c] = 1)

\* Rows are written once, of cells that were taken until everything is done.
Rows ==
    /\ \A c \in Cells : times[c] \in {0, 1} /\ (row[c] = "none" <=> times[c] = 0)
    /\ \A c \in Cells : times[c] = 1 => c < next \/ pc = "done"
    /\ pc \in {"none", "applying", "refused", "created"} => next = 1
    /\ pc = "done" => active = {} /\ ready = {} /\ \A c \in Cells : times[c] = 1

\* What a supervisor has confirmed stays so, and a row that says that a cell has
\* ended is of one that is confirmed or was never started.
Confirmed == \A c \in Cells :
    /\ reaped[c] => sup[c] = "gone" /\ inv[c] # "live"
    /\ inv[c] # "none" => sup[c] # "none"
    /\ row[c] \in {"completed", "failed"} => reaped[c] \/ (sup[c] = "none" /\ pc = "done")

\* A report is saved as completed at the very end.
Judged == SuccessIsReal /\ (saved = "completed" => pc = "done")

\* Whoever was there when the manager closed has been told, and waited for.
Told ==
    /\ Closed /\ Registered => abort
    /\ closer = "returned" => (abort => pc = "done")

\* Nobody is left who was not killed.
Forced == pc = "kill" => \A c \in active : force[c] = 2

IInv == TypeOK /\ Started /\ Rows /\ Confirmed /\ Judged /\ Told /\ Forced
-----------------------------------------------------------------------------
LEMMA InitInv == Init => IInv
<1>. SUFFICES ASSUME Init PROVE IInv
  OBVIOUS
<1>1. TypeOK
  <2>1. abort \in BOOLEAN
    BY Zenon DEF Init
  <2>2. Cardinality(active) = 0
    BY FS_EmptySet DEF Init
  <2>. QED
    BY <2>1, <2>2 DEF Init, TypeOK
<1>2. Started /\ Rows /\ Confirmed
  BY DEF Init, Started, Rows, Confirmed
<1>3. Judged /\ Told /\ Forced
  BY DEF Init, Judged, SuccessIsReal, Told, Closed, Registered, Forced, Cells
<1>. QED
  BY <1>1, <1>2, <1>3 DEF IInv

\* A batch is finite, and gets smaller as its cells end.
LEMMA SmallerBatch ==
    ASSUME IInv
    PROVE  /\ IsFiniteSet(active)
           /\ \A S \in SUBSET active : Cardinality(S) <= Jobs
<1>1. IsFiniteSet(Cells) /\ active \in SUBSET Cells /\ Cardinality(active) <= Jobs
  BY FS_Interval DEF IInv, TypeOK, Cells
<1>2. IsFiniteSet(active)
  BY <1>1, FS_Subset
<1>3. ASSUME NEW S \in SUBSET active PROVE Cardinality(S) <= Jobs
  <2>1. Cardinality(S) <= Cardinality(active) /\ IsFiniteSet(S)
    BY <1>2, FS_Subset
  <2>2. Cardinality(S) \in Nat /\ Cardinality(active) \in Nat
    BY <1>2, <2>1, FS_CardinalityType
  <2>. QED
    BY <1>1, <2>1, <2>2
<1>. QED
  BY <1>2, <1>3

\* One more cell fits a batch that is not full.
LEMMA LargerBatch ==
    ASSUME IInv, Cardinality(active) < Jobs
    PROVE  \A c \in Cells : Cardinality(active \cup {c}) <= Jobs
<1>. SUFFICES ASSUME NEW c \in Cells PROVE Cardinality(active \cup {c}) <= Jobs
  OBVIOUS
<1>1. Cardinality(active) \in Nat
  BY SmallerBatch, FS_CardinalityType
<1>2. Cardinality(active \cup {c}) <= Cardinality(active) + 1
  BY <1>1, SmallerBatch, FS_AddElement
<1>3. Cardinality(active \cup {c}) \in Nat
  BY SmallerBatch, FS_AddElement, FS_CardinalityType
<1>. QED
  BY <1>1, <1>2, <1>3

\* What _recover_ready does to rows and runs, whichever cells it raises for.
LEMMA Recovery ==
    ASSUME IInv, RecoverReady
    PROVE  /\ ready' = {}
           /\ times' = [c \in Cells |-> IF c \in ready THEN 1 ELSE times[c]]
           /\ row' \in [Cells -> {"none", "completed", "failed", "unconfirmed"}]
           /\ \A c \in Cells \ ready : row'[c] = row[c]
           /\ \A c \in ready :
                /\ row'[c] \in {"completed", "failed", "unconfirmed"}
                /\ row'[c] = "unconfirmed" <=> ~reaped[c]
                /\ row'[c] = "completed" => manifest[c] = "completed" /\ published[c]
           /\ manifest' \in [Cells -> {"none", "running", "completed", "failed"}]
           /\ \A c \in Cells :
                manifest[c] = "completed" \/ ~reaped[c] => manifest'[c] = manifest[c]
<1>. DEFINE sure == {c \in ready : reaped[c]}
<1>1. PICK F \in SUBSET sure :
        /\ Record(ready, [c \in ready |-> IF c \notin sure THEN "unconfirmed"
                                          ELSE IF c \in F THEN "failed"
                                          ELSE Recovered(c)])
        /\ Settle(sure) \/ Settle(sure \ F)
  BY DEF RecoverReady
<1>2. ready' = {} /\ ready \subseteq Cells /\ \A c \in ready : times[c] = 0
  BY DEF RecoverReady, IInv, TypeOK, Started
<1>3. times' = [c \in Cells |-> IF c \in ready THEN 1 ELSE times[c]]
  BY <1>1, <1>2 DEF Record
<1>4. /\ row' \in [Cells -> {"none", "completed", "failed", "unconfirmed"}]
      /\ \A c \in Cells \ ready : row'[c] = row[c]
  BY <1>1, <1>2 DEF Record, Recovered, IInv, TypeOK
<1>5. \A c \in ready :
        /\ row'[c] \in {"completed", "failed", "unconfirmed"}
        /\ row'[c] = "unconfirmed" <=> ~reaped[c]
        /\ row'[c] = "completed" => manifest[c] = "completed" /\ published[c]
  BY <1>1, <1>2 DEF Record, Recovered
<1>6. /\ manifest' \in [Cells -> {"none", "running", "completed", "failed"}]
      /\ \A c \in Cells :
           manifest[c] = "completed" \/ ~reaped[c] => manifest'[c] = manifest[c]
  BY <1>1 DEF Settle, IInv, TypeOK
<1>. QED
  BY <1>2, <1>3, <1>4, <1>5, <1>6

LEMMA CreateKeeps ==
    ASSUME IInv, Create
    PROVE  IInv'
<1>1. TypeOK'
  BY DEF Create, Closed, manager, report, batch, processes, files, TypeOK,
         IInv
<1>2. Rows'
  BY DEF Create, Closed, manager, report, batch, processes, files, IInv,
         Rows
<1>3. Confirmed'
  BY DEF Create, Closed, manager, report, batch, processes, files, IInv,
         Confirmed
<1>4. Judged'
  BY DEF Create, Closed, manager, report, batch, processes, files, IInv,
         Judged, SuccessIsReal
<1>5. Told'
  BY DEF Create, Closed, manager, report, batch, processes, files, IInv,
         Told, Registered
<1>6. Forced'
  BY DEF Create, Closed, manager, report, batch, processes, files, IInv,
         Forced
<1>7. Started'
  BY DEF Create, Closed, manager, report, batch, processes, files, IInv,
         Started
<1>. QED
  BY <1>1, <1>2, <1>3, <1>4, <1>5, <1>6, <1>7 DEF IInv

LEMMA LaunchKeeps ==
    ASSUME IInv, Launch
    PROVE  IInv'
<1>1. TypeOK'
  BY DEF Launch, Closed, Record, Cells, report, batch, processes, files,
         TypeOK, IInv
<1>2. Started'
  BY DEF Launch, Closed, Record, Cells, report, batch, processes, files,
         IInv, Started, TypeOK, Rows
<1>3. Rows'
  BY DEF Launch, Closed, Record, Cells, report, batch, processes, files,
         IInv, Rows, TypeOK, Started
<1>4. Confirmed'
  BY DEF Launch, Closed, Record, Cells, report, batch, processes, files,
         IInv, Confirmed, Started, Rows
<1>5. Judged'
  BY DEF Launch, Closed, Record, Cells, report, batch, processes, files,
         IInv, Judged, SuccessIsReal
<1>6. Told'
  BY DEF Launch, Closed, Record, Cells, report, batch, processes, files,
         IInv, Told, Registered
<1>7. Forced'
  BY DEF Launch, Closed, Record, Cells, report, batch, processes, files,
         IInv, Forced
<1>. QED
  BY <1>1, <1>2, <1>3, <1>4, <1>5, <1>6, <1>7 DEF IInv

LEMMA CloseKeeps ==
    ASSUME IInv, Close
    PROVE  IInv'
<1>1. TypeOK'
  BY DEF Close, Registered, report, batch, processes, files, TypeOK, IInv
<1>2. Told'
  BY DEF Close, Registered, report, batch, processes, files, IInv, Told,
         Closed
<1>3. Started' /\ Rows' /\ Confirmed' /\ Judged' /\ Forced'
  BY DEF Close, Registered, report, batch, processes, files, IInv, Started,
         Rows, Confirmed, Judged, Forced, SuccessIsReal
<1>. QED
  BY <1>1, <1>2, <1>3 DEF IInv

LEMMA CloseReturnKeeps ==
    ASSUME IInv, CloseReturn
    PROVE  IInv'
<1>1. TypeOK'
  BY DEF CloseReturn, report, batch, processes, files, TypeOK, IInv
<1>2. Told'
  BY DEF CloseReturn, report, batch, processes, files, IInv, Told, Closed,
         Registered
<1>3. Started' /\ Rows' /\ Confirmed' /\ Judged' /\ Forced'
  BY DEF CloseReturn, report, batch, processes, files, IInv, Started, Rows,
         Confirmed, Judged, Forced, SuccessIsReal
<1>. QED
  BY <1>1, <1>2, <1>3 DEF IInv

LEMMA GetStoredKeeps ==
    ASSUME IInv, GetStored
    PROVE  IInv'
<1>1. TypeOK'
  BY DEF GetStored, report, batch, processes, files, TypeOK, IInv
<1>2. Judged'
  BY DEF GetStored, report, batch, processes, files, IInv, Judged,
         SuccessIsReal
<1>3. Started' /\ Rows' /\ Confirmed' /\ Told' /\ Forced'
  BY DEF GetStored, report, batch, processes, files, IInv, Started, Rows,
         Confirmed, Told, Forced, Closed, Registered
<1>. QED
  BY <1>1, <1>2, <1>3 DEF IInv

LEMMA BeginKeeps ==
    ASSUME IInv, Begin
    PROVE  IInv'
<1>1. TypeOK'
  BY DEF Begin, Raise, batch, processes, files, TypeOK, IInv
<1>2. Rows'
  BY DEF Begin, Raise, batch, processes, files, IInv, Rows
<1>3. Confirmed'
  BY DEF Begin, Raise, batch, processes, files, IInv, Confirmed
<1>4. Judged'
  BY DEF Begin, Raise, batch, processes, files, IInv, Judged, SuccessIsReal
<1>5. Told'
  BY DEF Begin, Raise, batch, processes, files, IInv, Told, Closed,
         Registered
<1>6. Forced'
  BY DEF Begin, Raise, batch, processes, files, IInv, Forced
<1>7. Started'
  BY DEF Begin, Raise, batch, processes, files, IInv, Started
<1>. QED
  BY <1>1, <1>2, <1>3, <1>4, <1>5, <1>6, <1>7 DEF IInv

LEMMA DriveAbortKeeps ==
    ASSUME IInv, DriveAbort
    PROVE  IInv'
<1>1. TypeOK'
  BY SmallerBatch DEF DriveAbort, Ended, Cells, manager, processes, files,
         TypeOK, IInv
<1>2. Started'
  BY DEF DriveAbort, Ended, Cells, manager, processes, files, IInv, Started
<1>3. Rows'
  BY DEF DriveAbort, Ended, Cells, manager, processes, files, IInv, Rows
<1>4. Confirmed'
  BY DEF DriveAbort, Ended, Cells, manager, processes, files, IInv,
         Confirmed
<1>5. Judged'
  BY DEF DriveAbort, Ended, Cells, manager, processes, files, IInv, Judged,
         SuccessIsReal
<1>6. Told'
  BY DEF DriveAbort, Ended, Cells, manager, processes, files, IInv, Told,
         Closed, Registered
<1>7. Forced'
  BY DEF DriveAbort, Ended, Cells, manager, processes, files, IInv, Forced
<1>. QED
  BY <1>1, <1>2, <1>3, <1>4, <1>5, <1>6, <1>7 DEF IInv

LEMMA DriveCollectKeeps ==
    ASSUME IInv, DriveCollect
    PROVE  IInv'
<1>1. TypeOK'
  BY SmallerBatch DEF DriveCollect, Ended, manager, report, processes,
         files, TypeOK, IInv
<1>2. Started'
  BY DEF DriveCollect, Ended, manager, report, processes, files, IInv,
         Started
<1>3. Rows'
  BY DEF DriveCollect, Ended, manager, report, processes, files, IInv, Rows
<1>4. Forced'
  BY DEF DriveCollect, Ended, manager, report, processes, files, IInv,
         Forced
<1>5. Confirmed' /\ Judged' /\ Told'
  BY DEF DriveCollect, Ended, manager, report, processes, files, IInv,
         Confirmed, Judged, Told, SuccessIsReal, Closed, Registered
<1>. QED
  BY <1>1, <1>2, <1>3, <1>4, <1>5 DEF IInv

LEMMA DriveRecoverKeeps ==
    ASSUME IInv, DriveRecover
    PROVE  IInv'
<1>1. TypeOK'
  BY Recovery DEF DriveRecover, Raise, processes, TypeOK, IInv
<1>2. Started'
  BY Recovery DEF DriveRecover, Raise, processes, IInv, Started
<1>3. Rows'
  BY Recovery DEF DriveRecover, Raise, processes, IInv, Rows, Started
<1>4. Confirmed'
  BY Recovery DEF DriveRecover, Raise, processes, IInv, Confirmed
<1>5. Judged'
  BY Recovery DEF DriveRecover, Raise, processes, IInv, Judged,
         SuccessIsReal
<1>6. Told'
  BY Recovery DEF DriveRecover, Raise, processes, IInv, Told, Closed,
         Registered
<1>7. Forced'
  BY Recovery DEF DriveRecover, Raise, processes, IInv, Forced
<1>. QED
  BY <1>1, <1>2, <1>3, <1>4, <1>5, <1>6, <1>7 DEF IInv

LEMMA DriveFirstKeeps ==
    ASSUME IInv, DriveFirst
    PROVE  IInv'
<1>1. TypeOK'
  BY DEF DriveFirst, manager, report, batch, processes, files, TypeOK, IInv
<1>2. Rows'
  BY DEF DriveFirst, manager, report, batch, processes, files, IInv, Rows
<1>3. Confirmed'
  BY DEF DriveFirst, manager, report, batch, processes, files, IInv,
         Confirmed
<1>4. Judged'
  BY DEF DriveFirst, manager, report, batch, processes, files, IInv, Judged,
         SuccessIsReal
<1>5. Told'
  BY DEF DriveFirst, manager, report, batch, processes, files, IInv, Told,
         Closed, Registered
<1>6. Forced'
  BY DEF DriveFirst, manager, report, batch, processes, files, IInv, Forced
<1>7. Started'
  BY DEF DriveFirst, manager, report, batch, processes, files, IInv, Started
<1>. QED
  BY <1>1, <1>2, <1>3, <1>4, <1>5, <1>6, <1>7 DEF IInv

LEMMA LaunchCellKeeps ==
    ASSUME IInv, LaunchCell
    PROVE  IInv'
<1>a. /\ next \in Cells /\ next + 1 \in 1..Total + 1 /\ pc = "launch"
      /\ sup[next] = "none" /\ next \notin active \cup ready /\ times[next] = 0
      /\ ~reaped[next] /\ inv[next] = "none"
  BY DEF LaunchCell, IInv, TypeOK, Cells, Started, Rows, Confirmed
<1>b. /\ next' = next + 1 /\ UNCHANGED <<times, row, ready, reaped, inv>>
      /\ \/ /\ sup' = [sup EXCEPT ![next] = "alive"]
            /\ active' = active \cup {next} /\ pc' = pc
         \/ pc' = "finally" /\ UNCHANGED <<sup, active>>
  BY DEF LaunchCell, Raise, manager, files
<1>c. \A c \in Cells : c < next => c < next'
  BY <1>b DEF IInv, TypeOK, Cells
<1>1. TypeOK'
  <2>1. next' \in 1..Total + 1
    BY <1>a, <1>b
  <2>2. active' \subseteq Cells /\ Cardinality(active') <= Jobs
    BY <1>a, <1>b, LargerBatch DEF LaunchCell, IInv, TypeOK
  <2>3. sup' \in [Cells -> {"none", "alive", "gone"}]
    BY <1>a, <1>b DEF IInv, TypeOK
  <2>4. /\ pc' \in {"launch", "finally"}
        /\ status' \in {"created", "running", "completed", "faulted", "interrupted"}
    BY <1>a DEF LaunchCell, Raise, IInv, TypeOK
  <2>5. UNCHANGED <<manager, row, times, ready, reaped, force, inv, files>>
    BY DEF LaunchCell
  <2>. QED
    BY <2>1, <2>2, <2>3, <2>4, <2>5 DEF manager, files, IInv, TypeOK
<1>2. Started'
  <2>1. CASE sup' = [sup EXCEPT ![next] = "alive"] /\ active' = active \cup {next}
    <3>1. sup'[next] = "alive" /\ \A c \in Cells : c # next => sup'[c] = sup[c]
      BY <1>a, <2>1 DEF IInv, TypeOK
    <3>2. active' \cap ready' = {}
      BY <1>a, <1>b, <2>1 DEF IInv, Started
    <3>3. \A c \in active' \cup ready' : times'[c] = 0 /\ sup'[c] # "none"
      BY <1>a, <1>b, <2>1, <3>1 DEF IInv, TypeOK, Started
    <3>4. \A c \in ready' : sup'[c] = "gone"
      BY <1>a, <1>b, <3>1 DEF IInv, TypeOK, Started
    <3>5. next < next'
      BY <1>b DEF IInv, TypeOK
    <3>6. \A c \in Cells : sup'[c] # "none" =>
            c < next' /\ (c \in active' \cup ready' \/ times'[c] = 1)
      BY <1>b, <1>c, <2>1, <3>1, <3>5 DEF IInv, Started
    <3>. QED
      BY <3>2, <3>3, <3>4, <3>6 DEF Started
  <2>2. CASE UNCHANGED <<sup, active>>
    BY <1>b, <1>c, <2>2 DEF IInv, Started
  <2>. QED
    BY <1>b, <2>1, <2>2
<1>3. Rows'
  BY <1>a, <1>b, <1>c DEF IInv, Rows
<1>4. Confirmed'
  BY <1>a, <1>b DEF IInv, TypeOK, Confirmed
<1>5. Judged'
  BY DEF LaunchCell, Raise, manager, files, IInv, Judged, SuccessIsReal
<1>6. Told'
  BY DEF LaunchCell, Raise, manager, files, IInv, Told, Closed, Registered
<1>7. Forced'
  BY DEF LaunchCell, Raise, manager, files, IInv, Forced
<1>. QED
  BY <1>1, <1>2, <1>3, <1>4, <1>5, <1>6, <1>7 DEF IInv

LEMMA LaunchEndKeeps ==
    ASSUME IInv, LaunchEnd
    PROVE  IInv'
<1>1. TypeOK'
  BY DEF LaunchEnd, manager, report, batch, processes, files, TypeOK, IInv
<1>2. Rows'
  BY DEF LaunchEnd, manager, report, batch, processes, files, IInv, Rows
<1>3. Confirmed'
  BY DEF LaunchEnd, manager, report, batch, processes, files, IInv,
         Confirmed
<1>4. Judged'
  BY DEF LaunchEnd, manager, report, batch, processes, files, IInv, Judged,
         SuccessIsReal
<1>5. Told'
  BY DEF LaunchEnd, manager, report, batch, processes, files, IInv, Told,
         Closed, Registered
<1>6. Forced'
  BY DEF LaunchEnd, manager, report, batch, processes, files, IInv, Forced
<1>7. Started'
  BY DEF LaunchEnd, manager, report, batch, processes, files, IInv, Started
<1>. QED
  BY <1>1, <1>2, <1>3, <1>4, <1>5, <1>6, <1>7 DEF IInv

LEMMA StopCollectKeeps ==
    ASSUME IInv, StopCollect
    PROVE  IInv'
<1>1. TypeOK'
  BY SmallerBatch DEF StopCollect, Ended, manager, report, processes, files,
         TypeOK, IInv
<1>2. Started'
  BY DEF StopCollect, Ended, manager, report, processes, files, IInv,
         Started
<1>3. Rows'
  BY DEF StopCollect, Ended, manager, report, processes, files, IInv, Rows
<1>4. Forced'
  BY DEF StopCollect, Ended, manager, report, processes, files, IInv, Forced
<1>5. Confirmed' /\ Judged' /\ Told'
  BY DEF StopCollect, Ended, manager, report, processes, files, IInv,
         Confirmed, Judged, Told, SuccessIsReal, Closed, Registered
<1>. QED
  BY <1>1, <1>2, <1>3, <1>4, <1>5 DEF IInv

LEMMA StopSignalKeeps ==
    ASSUME IInv, StopSignal
    PROVE  IInv'
<1>1. TypeOK'
  BY DEF StopSignal, Cells, manager, report, batch, files, TypeOK, IInv
<1>2. Rows'
  BY DEF StopSignal, Cells, manager, report, batch, files, IInv, Rows
<1>3. Confirmed'
  BY DEF StopSignal, Cells, manager, report, batch, files, IInv, Confirmed
<1>4. Judged'
  BY DEF StopSignal, Cells, manager, report, batch, files, IInv, Judged,
         SuccessIsReal
<1>5. Told'
  BY DEF StopSignal, Cells, manager, report, batch, files, IInv, Told,
         Closed, Registered
<1>6. Forced'
  BY DEF StopSignal, Cells, manager, report, batch, files, IInv, Forced,
         TypeOK
<1>7. Started'
  BY DEF StopSignal, Cells, manager, report, batch, files, IInv, Started
<1>. QED
  BY <1>1, <1>2, <1>3, <1>4, <1>5, <1>6, <1>7 DEF IInv

LEMMA StopRecoverKeeps ==
    ASSUME IInv, StopRecover
    PROVE  IInv'
<1>1. TypeOK'
  BY Recovery DEF StopRecover, manager, processes, TypeOK, IInv
<1>2. Started'
  BY Recovery DEF StopRecover, manager, processes, IInv, Started, TypeOK
<1>3. Rows'
  BY Recovery DEF StopRecover, manager, processes, IInv, Rows, Started
<1>4. Confirmed'
  BY Recovery DEF StopRecover, manager, processes, IInv, Confirmed
<1>5. Judged'
  BY Recovery DEF StopRecover, manager, processes, IInv, Judged,
         SuccessIsReal
<1>6. Told' /\ Forced'
  BY Recovery DEF StopRecover, manager, processes, IInv, Told, Forced,
         Closed, Registered
<1>. QED
  BY <1>1, <1>2, <1>3, <1>4, <1>5, <1>6 DEF IInv

LEMMA GiveUpKeeps ==
    ASSUME IInv, GiveUp
    PROVE  IInv'
<1>1. TypeOK'
  BY SmallerBatch DEF GiveUp, Record, manager, processes, files, Cells,
         TypeOK, IInv
<1>2. Started'
  BY DEF GiveUp, Record, manager, processes, files, Cells, IInv, Started
<1>3. Rows'
  BY DEF GiveUp, Record, manager, processes, files, Cells, IInv, Rows,
         Started
<1>4. Confirmed'
  BY DEF GiveUp, Record, manager, processes, files, Cells, IInv, Confirmed
<1>5. Judged'
  BY DEF GiveUp, Record, manager, processes, files, Cells, IInv, Judged,
         SuccessIsReal
<1>6. Told'
  BY DEF GiveUp, Record, manager, processes, files, Cells, IInv, Told,
         Closed, Registered
<1>7. Forced'
  BY DEF GiveUp, Record, manager, processes, files, Cells, IInv, Forced
<1>. QED
  BY <1>1, <1>2, <1>3, <1>4, <1>5, <1>6, <1>7 DEF IInv

LEMMA FinallyStopKeeps ==
    ASSUME IInv, FinallyStop
    PROVE  IInv'
<1>1. TypeOK'
  BY DEF FinallyStop, manager, report, batch, processes, files, TypeOK, IInv
<1>2. Rows'
  BY DEF FinallyStop, manager, report, batch, processes, files, IInv, Rows
<1>3. Confirmed'
  BY DEF FinallyStop, manager, report, batch, processes, files, IInv,
         Confirmed
<1>4. Judged'
  BY DEF FinallyStop, manager, report, batch, processes, files, IInv,
         Judged, SuccessIsReal
<1>5. Told'
  BY DEF FinallyStop, manager, report, batch, processes, files, IInv, Told,
         Closed, Registered
<1>6. Forced'
  BY DEF FinallyStop, manager, report, batch, processes, files, IInv, Forced
<1>7. Started'
  BY DEF FinallyStop, manager, report, batch, processes, files, IInv,
         Started
<1>. QED
  BY <1>1, <1>2, <1>3, <1>4, <1>5, <1>6, <1>7 DEF IInv

LEMMA FinallyRecoverKeeps ==
    ASSUME IInv, FinallyRecover
    PROVE  IInv'
<1>1. TypeOK'
  BY Recovery DEF FinallyRecover, manager, processes, TypeOK, IInv
<1>2. Started'
  BY Recovery DEF FinallyRecover, manager, processes, IInv, Started
<1>3. Rows'
  BY Recovery DEF FinallyRecover, manager, processes, IInv, Rows, Started
<1>4. Confirmed'
  BY Recovery DEF FinallyRecover, manager, processes, IInv, Confirmed
<1>5. Judged'
  BY Recovery DEF FinallyRecover, manager, processes, IInv, Judged,
         SuccessIsReal
<1>6. Told' /\ Forced'
  BY Recovery DEF FinallyRecover, manager, processes, IInv, Told, Forced,
         Closed, Registered
<1>. QED
  BY <1>1, <1>2, <1>3, <1>4, <1>5, <1>6 DEF IInv

LEMMA FinishKeeps ==
    ASSUME IInv, Finish
    PROVE  IInv'
<1>1. TypeOK'
  BY DEF Finish, Record, Missing, Cells, batch, processes, files, TypeOK,
         IInv
<1>2. Started'
  BY DEF Finish, Record, Missing, Cells, batch, processes, files, IInv,
         Started
<1>3. Rows'
  BY DEF Finish, Record, Missing, Cells, batch, processes, files, IInv, Rows
<1>4. Confirmed'
  BY DEF Finish, Record, Missing, Cells, batch, processes, files, IInv,
         Confirmed, Started, Rows
<1>5. Judged'
  BY DEF Finish, Record, Missing, Cells, batch, processes, files, IInv,
         Judged, SuccessIsReal
<1>6. Told'
  BY DEF Finish, Record, Missing, Cells, batch, processes, files, IInv,
         Told, Closed, Registered
<1>7. Forced'
  BY DEF Finish, Record, Missing, Cells, batch, processes, files, IInv,
         Forced
<1>. QED
  BY <1>1, <1>2, <1>3, <1>4, <1>5, <1>6, <1>7 DEF IInv

LEMMA ForkKeeps ==
    ASSUME IInv, NEW c \in Cells, Fork(c)
    PROVE  IInv'
<1>1. TypeOK'
  <2>1. reaped' \in [Cells -> BOOLEAN]
    BY Zenon DEF Fork, IInv, TypeOK
  <2>2. /\ sup' \in [Cells -> {"none", "alive", "gone"}]
        /\ inv' \in [Cells -> {"none", "live", "dead"}]
    BY DEF Fork, IInv, TypeOK
  <2>. QED
    BY <2>1, <2>2 DEF Fork, manager, report, batch, files, IInv, TypeOK
<1>2. Started'
  BY DEF Fork, manager, report, batch, files, IInv, Started, TypeOK
<1>3. Confirmed'
  BY DEF Fork, manager, report, batch, files, IInv, Confirmed, TypeOK
<1>4. Rows' /\ Judged' /\ Told' /\ Forced'
  BY DEF Fork, manager, report, batch, files, IInv, Rows, Judged, Told,
         Forced, SuccessIsReal, Closed, Registered
<1>. QED
  BY <1>1, <1>2, <1>3, <1>4 DEF IInv

LEMMA ReapKeeps ==
    ASSUME IInv, NEW c \in Cells, Reap(c)
    PROVE  IInv'
<1>1. TypeOK'
  BY DEF Reap, manager, report, batch, files, TypeOK, IInv
<1>2. Started'
  BY DEF Reap, manager, report, batch, files, IInv, Started
<1>3. Confirmed'
  BY DEF Reap, manager, report, batch, files, IInv, Confirmed, TypeOK
<1>4. Rows' /\ Judged' /\ Told' /\ Forced'
  BY DEF Reap, manager, report, batch, files, IInv, Rows, Judged, Told,
         Forced, SuccessIsReal, Closed, Registered
<1>. QED
  BY <1>1, <1>2, <1>3, <1>4 DEF IInv

LEMMA SupervisorLostKeeps ==
    ASSUME IInv, NEW c \in Cells, SupervisorLost(c)
    PROVE  IInv'
<1>1. TypeOK'
  BY DEF SupervisorLost, manager, report, batch, files, TypeOK, IInv
<1>2. Started'
  BY DEF SupervisorLost, manager, report, batch, files, IInv, Started
<1>3. Confirmed'
  BY DEF SupervisorLost, manager, report, batch, files, IInv, Confirmed
<1>4. Rows' /\ Judged' /\ Told' /\ Forced'
  BY DEF SupervisorLost, manager, report, batch, files, IInv, Rows, Judged,
         Told, Forced, SuccessIsReal, Closed, Registered
<1>. QED
  BY <1>1, <1>2, <1>3, <1>4 DEF IInv

LEMMA CellDiesKeeps ==
    ASSUME IInv, NEW c \in Cells, CellDies(c)
    PROVE  IInv'
<1>1. TypeOK'
  BY DEF CellDies, manager, report, batch, files, TypeOK, IInv
<1>2. Confirmed'
  BY DEF CellDies, manager, report, batch, files, IInv, Confirmed
<1>3. Started' /\ Rows' /\ Judged' /\ Told' /\ Forced'
  BY DEF CellDies, manager, report, batch, files, IInv, Started, Rows,
         Judged, Told, Forced, SuccessIsReal, Closed, Registered
<1>. QED
  BY <1>1, <1>2, <1>3 DEF IInv

LEMMA ChildCreatesKeeps ==
    ASSUME IInv, NEW c \in Cells, ChildCreates(c)
    PROVE  IInv'
<1>1. TypeOK'
  BY DEF ChildCreates, Put, manager, report, batch, processes, TypeOK, IInv
<1>2. Judged'
  BY DEF ChildCreates, Put, manager, report, batch, processes, IInv, Judged,
         SuccessIsReal
<1>3. Started' /\ Rows' /\ Confirmed' /\ Told' /\ Forced'
  BY DEF ChildCreates, Put, manager, report, batch, processes, IInv,
         Started, Rows, Confirmed, Told, Forced, Closed, Registered
<1>. QED
  BY <1>1, <1>2, <1>3 DEF IInv

LEMMA ChildEndsKeeps ==
    ASSUME IInv, NEW c \in Cells, ChildEnds(c)
    PROVE  IInv'
<1>1. TypeOK'
  BY DEF ChildEnds, Put, manager, report, batch, processes, TypeOK, IInv
<1>2. Judged'
  BY DEF ChildEnds, Put, manager, report, batch, processes, IInv, Judged,
         SuccessIsReal
<1>3. Started' /\ Rows' /\ Confirmed' /\ Told' /\ Forced'
  BY DEF ChildEnds, Put, manager, report, batch, processes, IInv, Started,
         Rows, Confirmed, Told, Forced, Closed, Registered
<1>. QED
  BY <1>1, <1>2, <1>3 DEF IInv

LEMMA ChildPublishesKeeps ==
    ASSUME IInv, NEW c \in Cells, ChildPublishes(c)
    PROVE  IInv'
<1>1. TypeOK'
  BY DEF ChildPublishes, manager, report, batch, processes, TypeOK, IInv
<1>2. Judged'
  BY DEF ChildPublishes, manager, report, batch, processes, IInv, Judged,
         SuccessIsReal
<1>3. Started' /\ Rows' /\ Confirmed' /\ Told' /\ Forced'
  BY DEF ChildPublishes, manager, report, batch, processes, IInv, Started,
         Rows, Confirmed, Told, Forced, Closed, Registered
<1>. QED
  BY <1>1, <1>2, <1>3 DEF IInv

-----------------------------------------------------------------------------
LEMMA StepInv == IInv /\ [Next]_vars => IInv'
<1>. SUFFICES ASSUME IInv, [Next]_vars PROVE IInv'
  OBVIOUS
<1>1. CASE UNCHANGED vars
  BY <1>1 DEF vars, manager, report, batch, processes, files, IInv, TypeOK, Started, Rows,
         Confirmed, Judged, SuccessIsReal, Told, Closed, Registered, Forced
<1>2. CASE Manager
  BY <1>2, CreateKeeps, LaunchKeeps, CloseKeeps, CloseReturnKeeps, GetStoredKeeps
     DEF Manager
<1>3. CASE Coordinator
  BY <1>3, BeginKeeps, DriveAbortKeeps, DriveCollectKeeps, DriveRecoverKeeps,
     DriveFirstKeeps, LaunchCellKeeps, LaunchEndKeeps, StopCollectKeeps, StopSignalKeeps,
     StopRecoverKeeps, GiveUpKeeps, FinallyStopKeeps, FinallyRecoverKeeps, FinishKeeps
     DEF Coordinator
<1>4. ASSUME NEW c \in Cells, Cell(c) PROVE IInv'
  BY <1>4, ForkKeeps, ReapKeeps, SupervisorLostKeeps, CellDiesKeeps, ChildCreatesKeeps,
     ChildEndsKeeps, ChildPublishesKeeps DEF Cell
<1>. QED
  BY <1>1, <1>2, <1>3, <1>4 DEF Next

\* What is known of every cell at any step of the coordinator, the manager and
\* the processes, for any number of cells and any size of a batch.
THEOREM ExperimentSound == Spec => []IInv
<1>1. Init => IInv
  BY InitInv
<1>2. IInv /\ [Next]_vars => IInv'
  BY StepInv
<1>. QED
  BY <1>1, <1>2, PTL DEF Spec

\* Every variable keeps its type, and a batch never has more than Jobs cells.
THEOREM ExperimentTypes == Spec => []TypeOK
<1>1. IInv => TypeOK
  BY DEF IInv
<1>. QED
  BY <1>1, ExperimentSound, PTL

\* However an experiment ends, every cell has one row in its report.
THEOREM ReportComplete == Spec => []OneRowEach
<1>1. IInv => OneRowEach
  BY DEF IInv, Rows, OneRowEach
<1>. QED
  BY <1>1, ExperimentSound, PTL

\* No experiment and no cell is reported as completed that has not.
THEOREM SuccessHonest == Spec => []SuccessIsReal
<1>1. IInv => SuccessIsReal
  BY DEF IInv, Judged
<1>. QED
  BY <1>1, ExperimentSound, PTL

\* Of a process that is still there when all is done the report says so.
THEOREM SurvivorsKnown == Spec => []SurvivorsReported
<1>1. ASSUME IInv PROVE SurvivorsReported
  <2>1. ASSUME NEW c \in Cells, pc = "done", inv[c] = "live" PROVE row[c] = "unconfirmed"
    <3>1. times[c] = 1 /\ row[c] # "none"
      BY <1>1, <2>1 DEF IInv, Rows
    <3>2. row[c] \notin {"completed", "failed"}
      BY <1>1, <2>1 DEF IInv, Confirmed
    <3>. QED
      BY <1>1, <3>1, <3>2 DEF IInv, TypeOK
  <2>. QED
    BY <2>1 DEF SurvivorsReported
<1>. QED
  BY <1>1, ExperimentSound, PTL

\* After close() has returned, the manager starts and drives nothing.
THEOREM ClosedForGood == Spec => []QuietWhenClosed
<1>1. IInv => QuietWhenClosed
  BY DEF IInv, TypeOK, Told, Closed, Registered, QuietWhenClosed
<1>. QED
  BY <1>1, ExperimentSound, PTL

\* Rows are written by recovery, when cells are given up, and at the two ends.
LEMMA Recording ==
    ASSUME IInv, [Next]_vars, times' # times
    PROVE  Launch \/ DriveRecover \/ StopRecover \/ GiveUp \/ FinallyRecover \/ Finish
BY DEF Next, vars, Manager, Create, Close, CloseReturn, GetStored, Coordinator, Begin,
       DriveAbort, DriveCollect, DriveFirst, LaunchCell, LaunchEnd, StopCollect, StopSignal,
       FinallyStop, Cell, Fork, Reap, SupervisorLost, CellDies, ChildCreates, ChildEnds,
       ChildPublishes, Put, report

\* Recovery never edits the run of a process that may still be writing it.
THEOREM LiveRunsUntouched == Spec => WritersUntouched
<1>1. ASSUME IInv, [Next]_vars, times' # times, NEW c \in Cells, inv[c] = "live"
      PROVE  manifest'[c] = manifest[c]
  <2>1. ~reaped[c]
    BY <1>1 DEF IInv, Confirmed
  <2>2. CASE Launch \/ GiveUp \/ Finish
    BY <2>2 DEF Launch, GiveUp, Finish, files
  <2>3. CASE RecoverReady
    BY <1>1, <2>1, <2>3, Recovery
  <2>. QED
    BY <1>1, <2>2, <2>3, Recording DEF DriveRecover, StopRecover, FinallyRecover
<1>2. IInv /\ [Next]_vars =>
        [times' # times => \A c \in Cells : inv[c] = "live" => manifest'[c] = manifest[c]]_vars
  BY <1>1
<1>. QED
  BY <1>2, ExperimentSound, PTL DEF Spec, WritersUntouched

\* Nothing is recovered or recorded while a cell of the batch still needs control.
THEOREM ControlFirst == Spec => SiblingsFirst
<1>1. ASSUME IInv, [Next]_vars, times' # times, NEW c \in active
      PROVE  force[c] = 2
  <2>1. CASE Launch
    BY <1>1, <2>1 DEF Launch, IInv, TypeOK, Started, Rows, Cells
  <2>2. CASE DriveRecover \/ FinallyRecover \/ Finish
    BY <2>2 DEF DriveRecover, FinallyRecover, Finish
  <2>3. CASE StopRecover \/ GiveUp
    BY <2>3, <1>1 DEF StopRecover, GiveUp, IInv, Forced
  <2>. QED
    BY <1>1, <2>1, <2>2, <2>3, Recording
<1>2. IInv /\ [Next]_vars => [times' # times => \A c \in active : force[c] = 2]_vars
  BY <1>1
<1>. QED
  BY <1>2, ExperimentSound, PTL DEF Spec, SiblingsFirst
=============================================================================
