-------------------------- MODULE MControlProofs ---------------------------
(***************************************************************************)
(* Theorems about the accelerator, for any number of units up to the       *)
(* supported one, threaded or not, with checkpoints.                       *)
(***************************************************************************)
EXTENDS MControl, TLAPS

(***************************************************************************)
(* Why results are complete: the mutex excludes, the flag is only set when *)
(* the buffer is complete, and a thread only exists while its unit is      *)
(* processing.                                                             *)
(***************************************************************************)
LockExact ==
  \A u \in Units :
    /\ main[u] = "check" <=> worker_thread_lock[u] = "main"
    /\ worker[u] \in {"signal", "unlock"} <=> worker_thread_lock[u] = "worker"

ThreadsExact ==
  \A u \in Units :
    /\ u \in posted \/ main[u] # "out" \/ worker[u] # "none" => u \in processing
    /\ main[u] # "out" => u \notin posted
    /\ worker[u] # "none" => u \in Threaded
    /\ worker[u] \in {"compute", "lock", "signal"} => u \notin worker_thread_done
    /\ worker[u] \in {"lock", "signal", "unlock"} => u \in computed
    /\ u \in worker_thread_done \cap processing => u \in computed

DoneExact == done \cap processing = {}

ResultInv == LockExact /\ ThreadsExact /\ DoneExact /\ ResultReady

(***************************************************************************)
(* Why a report is honest: a unit is at work only for an ongoing operation *)
(* that uses it, and its bit in the register done is clear meanwhile.      *)
(***************************************************************************)
ReportInv ==
  /\ processing \subseteq used
  /\ ~status_processing => processing = {}
  /\ ~status_processing /\ ~status_done => done_bits = {}
  /\ ~(status_processing /\ status_done)
  /\ done_bits \cap processing = {}

(***************************************************************************)
(* The state of the accelerator under a driver that keeps to the rules: it *)
(* is determined by the units in use and the flags of these units.         *)
(***************************************************************************)
BooksExact ==
  /\ SignalsFollow
  /\ used = First(start)
  /\ used = done \cup processing
  /\ status_processing <=> processing # {}
  /\ status_done <=> used # {} /\ processing = {}
  /\ operation_done <=> status_done

----------------------------------------------------------------------------
(* Types. *)

(* Starting jobs for valid units keeps the types of the units. *)
LEMMA JobsStartedType ==
  ASSUME UnitsTypeOK, NEW S \in SUBSET Units, JobsStarted(S), done' \in SUBSET Units
  PROVE  UnitsTypeOK'
<1>1. worker' \in [Units -> WorkerStages]
  BY DEF UnitsTypeOK, JobsStarted, WorkerStages
<1> QED
  BY <1>1 DEF UnitsTypeOK, JobsStarted

(* Both threads of a unit keep the types. *)
LEMMA ThreadType ==
  ASSUME UnitsTypeOK, NEW u \in Units,
         Worker(u) \/ MainLocks(u) \/ MainWaits(u) \/ MainWakes(u) \/ MainLeaves(u)
  PROVE  /\ main' \in [Units -> MainStages]
         /\ worker' \in [Units -> WorkerStages]
         /\ worker_thread_lock' \in [Units -> {"free", "worker", "main"}]
         /\ worker_thread_done' \in SUBSET Units
         /\ computed' \in SUBSET Units
<1> USE DEF UnitsTypeOK, MainStages, WorkerStages
<1>1. CASE Worker(u)
  <2>1. CASE WorkerComputes(u)
    BY <2>1 DEF WorkerComputes
  <2>2. CASE WorkerLocks(u)
    BY <2>2 DEF WorkerLocks
  <2>3. CASE WorkerSignals(u)
    BY <2>3 DEF WorkerSignals
  <2>4. CASE WorkerUnlocks(u)
    BY <2>4 DEF WorkerUnlocks
  <2> QED
    BY <1>1, <2>1, <2>2, <2>3, <2>4 DEF Worker
<1>2. CASE MainLocks(u)
  BY <1>2 DEF MainLocks
<1>3. CASE MainWaits(u)
  BY <1>3 DEF MainWaits
<1>4. CASE MainWakes(u)
  BY <1>4 DEF MainWakes
<1>5. CASE MainLeaves(u)
  BY <1>5 DEF MainLeaves
<1> QED
  BY <1>1, <1>2, <1>3, <1>4, <1>5

(* A report of a unit keeps the types of the control unit. *)
LEMMA ReportType ==
  ASSUME TypeOK, NEW u \in Units, SignalRaised(u)
  PROVE  /\ start' \in 0..8
         /\ used' \in SUBSET Units
         /\ done_bits' \in SUBSET Units
         /\ status_processing' \in BOOLEAN
         /\ status_done' \in BOOLEAN
         /\ level' \in SUBSET Units
         /\ operation_done' \in BOOLEAN
<1>1. CASE u \in level
  BY <1>1 DEF TypeOK, SignalRaised, control, status
<1>2. CASE u \notin level
  <2>1. start' = start /\ used' = used
    BY <1>2 DEF SignalRaised, Reports
  <2>2. done_bits' \in SUBSET Units /\ level' \in SUBSET Units
    BY <1>2 DEF SignalRaised, Reports, TypeOK
  <2>3. /\ status_processing' \in BOOLEAN
        /\ status_done' \in BOOLEAN
        /\ operation_done' \in BOOLEAN
    BY <1>2 DEF SignalRaised, Reports, TypeOK, status
  <2> QED
    BY <2>1, <2>2, <2>3 DEF TypeOK
<1> QED
  BY <1>1, <1>2

(* The units that a valid count addresses exist. *)
LEMMA FirstUnits ==
  ASSUME NEW value \in 1..N
  PROVE  First(value) \in SUBSET Units /\ First(value) # {} /\ value \in 0..8
<1>1. First(value) \subseteq Units
  BY UnitsAssumption DEF First, Units
<1>2. 0 \in First(value)
  BY UnitsAssumption DEF First
<1>3. value \in 0..8
  BY UnitsAssumption, ControlAssumption
<1> QED
  BY <1>1, <1>2, <1>3

LEMMA TypeStep ==
  ASSUME TypeOK, [Next]_vars
  PROVE  TypeOK'
<1>1. ASSUME NEW value \in Writes, Start(value)
      PROVE  TypeOK'
  <2>1. value \in 1..N /\ JobsStarted(First(value))
    BY <1>1 DEF Start, IsValid
  <2>2. done' \in SUBSET Units
    BY <1>1 DEF Start, TypeOK, UnitsTypeOK
  <2>3. UnitsTypeOK'
    BY <2>1, <2>2, FirstUnits, JobsStartedType DEF TypeOK
  <2>4. level' \in SUBSET Units /\ done_bits' \in SUBSET Units
    BY <1>1 DEF Start, TypeOK
  <2>5. used' \in SUBSET Units /\ start' \in 0..8
    BY <1>1, <2>1, FirstUnits DEF Start
  <2>6. /\ status_processing' \in BOOLEAN
        /\ status_done' \in BOOLEAN
        /\ operation_done' \in BOOLEAN
    BY <1>1 DEF Start, TypeOK
  <2> QED
    BY <2>3, <2>4, <2>5, <2>6 DEF TypeOK
<1>2. ASSUME NEW value \in Writes, RefusedStart(value)
      PROVE  TypeOK'
  <2>1. start' \in 0..8
    BY <1>2, ControlAssumption DEF RefusedStart
  <2> QED
    BY <1>2, <2>1 DEF RefusedStart, TypeOK, UnitsTypeOK, unitVars, job, threads, status
<1>3. CASE ClearDone
  <2>1. UnitsTypeOK'
    BY <1>3 DEF ClearDone, TypeOK, UnitsTypeOK, job, threads
  <2>2. level' \in SUBSET Units
    BY <1>3 DEF ClearDone, TypeOK
  <2>3. start' \in 0..8
    BY <1>3 DEF ClearDone
  <2> QED
    BY <1>3, <2>1, <2>2, <2>3 DEF ClearDone, TypeOK
<1>4. ASSUME NEW u \in Units, ClearUnit(u)
      PROVE  TypeOK'
  BY <1>4 DEF ClearUnit, TypeOK, UnitsTypeOK, job, threads, status
<1>5. ASSUME NEW u \in Units, CompleteSerial(u)
      PROVE  TypeOK'
  <2>1. UnitsTypeOK'
    BY <1>5 DEF CompleteSerial, JobEnded, threads, TypeOK, UnitsTypeOK
  <2> QED
    BY <1>5, <2>1, ReportType DEF CompleteSerial, TypeOK
<1>6. ASSUME NEW u \in Units, CompleteThreaded(u)
      PROVE  TypeOK'
  <2>1. UnitsTypeOK'
    BY <1>6 DEF CompleteThreaded, TypeOK, UnitsTypeOK, MainStages
  <2> QED
    BY <1>6, <2>1 DEF CompleteThreaded, control, status, TypeOK
<1>7. ASSUME NEW u \in Units, Complete(u)
      PROVE  TypeOK'
  <2>1. UnitsTypeOK'
    <3>1. /\ processing' \in SUBSET Units
          /\ done' \in SUBSET Units
          /\ posted' \in SUBSET Units
          /\ written' \in SUBSET Units
      BY <1>7 DEF Complete, JobEnded, MainLeaves, TypeOK, UnitsTypeOK
    <3> QED
      BY <1>7, <3>1, ThreadType DEF Complete, TypeOK, UnitsTypeOK
  <2> QED
    BY <1>7, <2>1, ReportType DEF Complete, TypeOK
<1>8. ASSUME NEW u \in Units, Thread(u)
      PROVE  TypeOK'
  <2>1. UnitsTypeOK'
    BY <1>8, ThreadType DEF Thread, job, TypeOK, UnitsTypeOK
  <2> QED
    BY <1>8, <2>1 DEF Thread, control, status, TypeOK
<1>9. CASE Restore
  BY <1>9 DEF Restore, ThreadsLost, control, status, job, TypeOK, UnitsTypeOK, WorkerStages
<1>10. CASE UNCHANGED vars
  BY <1>10 DEF vars, control, status, unitVars, job, threads, TypeOK, UnitsTypeOK
<1> QED
  BY <1>1, <1>2, <1>3, <1>4, <1>5, <1>6, <1>7, <1>8, <1>9, <1>10 DEF Next, Driver

(* Every register and flag keeps its type, whatever the driver writes (the *)
(* registers of m-control-common.dml and m-compute-common.dml).            *)
THEOREM TypeCorrect == Spec => []TypeOK
<1>1. Init => TypeOK
  <2> SUFFICES ASSUME Init PROVE TypeOK
    OBVIOUS
  <2>1. UnitsTypeOK
    BY DEF Init, UnitsInit, UnitsTypeOK, MainStages, WorkerStages
  <2>2. start \in 0..8
    BY DEF Init
  <2> QED
    BY <2>1, <2>2 DEF Init, TypeOK
<1> QED
  BY <1>1, TypeStep, PTL DEF Spec

----------------------------------------------------------------------------
(* Results are complete. *)

(* Both threads of a unit respect the mutex. *)
LEMMA LockStep ==
  ASSUME TypeOK, LockExact, NEW u \in Units,
         Worker(u) \/ MainLocks(u) \/ MainWaits(u) \/ MainWakes(u) \/ MainLeaves(u)
  PROVE  LockExact'
<1> USE DEF TypeOK, UnitsTypeOK, MainStages, WorkerStages, LockExact
<1>1. CASE Worker(u)
  <2>1. CASE WorkerComputes(u)
    BY <2>1 DEF WorkerComputes
  <2>2. CASE WorkerLocks(u)
    BY <2>2 DEF WorkerLocks
  <2>3. CASE WorkerSignals(u)
    BY <2>3 DEF WorkerSignals
  <2>4. CASE WorkerUnlocks(u)
    BY <2>4 DEF WorkerUnlocks
  <2> QED
    BY <1>1, <2>1, <2>2, <2>3, <2>4 DEF Worker
<1>2. CASE MainLocks(u)
  BY <1>2 DEF MainLocks
<1>3. CASE MainWaits(u)
  BY <1>3 DEF MainWaits
<1>4. CASE MainWakes(u)
  BY <1>4 DEF MainWakes
<1>5. CASE MainLeaves(u)
  BY <1>5 DEF MainLeaves
<1> QED
  BY <1>1, <1>2, <1>3, <1>4, <1>5

(* Steps of the threads that do not end a job. *)
LEMMA ThreadStep ==
  ASSUME TypeOK, ResultInv, NEW u \in Units, Thread(u)
  PROVE  ResultInv'
<1>1. LockExact'
  BY LockStep DEF Thread, ResultInv
<1>2. UNCHANGED <<done, processing, posted, written>>
  BY DEF Thread, job
<1>3. DoneExact' /\ ResultReady'
  BY <1>2 DEF ResultInv, DoneExact, ResultReady
<1>4. ThreadsExact'
  <2> USE <1>2 DEF TypeOK, UnitsTypeOK, MainStages, WorkerStages, ResultInv, ThreadsExact
  <2>1. CASE Worker(u)
    <3>1. CASE WorkerComputes(u)
      BY <3>1 DEF WorkerComputes
    <3>2. CASE WorkerLocks(u)
      BY <3>2 DEF WorkerLocks
    <3>3. CASE WorkerSignals(u)
      BY <3>3 DEF WorkerSignals
    <3>4. CASE WorkerUnlocks(u)
      BY <3>4 DEF WorkerUnlocks
    <3> QED
      BY <2>1, <3>1, <3>2, <3>3, <3>4 DEF Worker
  <2>2. CASE MainLocks(u)
    BY <2>2 DEF MainLocks
  <2>3. CASE MainWaits(u)
    BY <2>3 DEF MainWaits
  <2>4. CASE MainWakes(u)
    BY <2>4 DEF MainWakes
  <2> QED
    BY <2>1, <2>2, <2>3, <2>4 DEF Thread
<1> QED
  BY <1>1, <1>3, <1>4 DEF ResultInv

(* The simulation thread leaves only if there is no worker any more. *)
LEMMA LeaveStep ==
  ASSUME TypeOK, ResultInv, NEW u \in Units, Complete(u)
  PROVE  ResultInv'
<1> USE DEF TypeOK, UnitsTypeOK, MainStages, WorkerStages, ResultInv
<1>1. LockExact'
  BY LockStep DEF Complete
<1>2. u \in processing /\ u \in computed /\ worker[u] = "none"
  BY DEF Complete, MainLeaves, ThreadsExact, LockExact
<1>3. u \notin posted
  BY DEF Complete, MainLeaves, ThreadsExact
<1>4. ThreadsExact'
  BY <1>2, <1>3 DEF Complete, MainLeaves, JobEnded, ThreadsExact
<1>5. DoneExact' /\ ResultReady'
  BY <1>2 DEF Complete, MainLeaves, JobEnded, DoneExact, ResultReady
<1> QED
  BY <1>1, <1>4, <1>5

(* A unit that is started was not processing, so it has no threads yet.    *)
LEMMA StartResult ==
  ASSUME TypeOK, ResultInv, NEW value \in Writes, Start(value)
  PROVE  ResultInv'
<1> DEFINE new == First(value) \ processing
<1>1. /\ JobsStarted(First(value))
      /\ done' \subseteq done \ new
      /\ new \subseteq Units
  BY FirstUnits DEF Start, IsValid
<1>2. /\ processing' = processing \cup new
      /\ posted' = posted \cup new
      /\ written' = written \ new
      /\ worker' = [u \in Units |-> IF u \in new \cap Threaded THEN "compute" ELSE worker[u]]
      /\ worker_thread_done' = worker_thread_done \ new
      /\ computed' = computed \ new
      /\ UNCHANGED <<main, worker_thread_lock>>
  BY <1>1 DEF JobsStarted
<1>3. \A u \in new : u \notin processing /\ u \notin posted /\ main[u] = "out" /\ worker[u] = "none"
  BY <1>1 DEF ResultInv, ThreadsExact
<1> HIDE DEF new
<1>4. LockExact'
  BY <1>1, <1>2, <1>3 DEF TypeOK, UnitsTypeOK, WorkerStages, ResultInv, LockExact
<1>5. ThreadsExact'
  BY <1>1, <1>2, <1>3 DEF TypeOK, UnitsTypeOK, WorkerStages, ResultInv, ThreadsExact
<1>6. DoneExact' /\ ResultReady'
  BY <1>1, <1>2 DEF ResultInv, DoneExact, ResultReady
<1> QED
  BY <1>4, <1>5, <1>6 DEF ResultInv

LEMMA ResultStep ==
  ASSUME TypeOK, ResultInv, [Next]_vars
  PROVE  ResultInv'
<1> USE DEF ResultInv
<1>1. ASSUME UNCHANGED <<processing, posted, written, threads>>, done' \subseteq done
      PROVE  ResultInv'
  BY <1>1 DEF threads, LockExact, ThreadsExact, DoneExact, ResultReady
<1>2. ASSUME NEW value \in Writes, RefusedStart(value)
      PROVE  ResultInv'
  BY <1>1, <1>2 DEF RefusedStart, unitVars, job
<1>3. CASE ClearDone
  BY <1>1, <1>3 DEF ClearDone, job
<1>4. ASSUME NEW u \in Units, ClearUnit(u)
      PROVE  ResultInv'
  BY <1>1, <1>4 DEF ClearUnit, job
<1>5. ASSUME NEW u \in Units, CompleteSerial(u)
      PROVE  ResultInv'
  <2>1. worker[u] = "none" /\ main[u] = "out"
    BY <1>5 DEF CompleteSerial, Running, ThreadsExact
  <2>2. LockExact'
    BY <1>5 DEF CompleteSerial, threads, LockExact
  <2>3. ThreadsExact'
    BY <1>5, <2>1 DEF CompleteSerial, JobEnded, threads, ThreadsExact
  <2>4. DoneExact' /\ ResultReady'
    BY <1>5 DEF CompleteSerial, JobEnded, DoneExact, ResultReady
  <2> QED
    BY <2>2, <2>3, <2>4
<1>6. ASSUME NEW u \in Units, CompleteThreaded(u)
      PROVE  ResultInv'
  <2>1. main[u] = "out" /\ u \in processing
    BY <1>6 DEF CompleteThreaded, Running, ThreadsExact
  <2>2. LockExact'
    BY <1>6, <2>1 DEF CompleteThreaded, LockExact, TypeOK, UnitsTypeOK
  <2>3. ThreadsExact'
    BY <1>6, <2>1 DEF CompleteThreaded, ThreadsExact, TypeOK, UnitsTypeOK
  <2>4. DoneExact' /\ ResultReady'
    BY <1>6 DEF CompleteThreaded, DoneExact, ResultReady
  <2> QED
    BY <2>2, <2>3, <2>4
<1>7. CASE Restore
  <2>1. LockExact'
    BY <1>7 DEF Restore, ThreadsLost, Running, LockExact
  <2>2. ThreadsExact'
    BY <1>7 DEF Restore, ThreadsLost, Running, job, ThreadsExact
  <2>3. DoneExact' /\ ResultReady'
    BY <1>7 DEF Restore, job, DoneExact, ResultReady
  <2> QED
    BY <2>1, <2>2, <2>3
<1>8. CASE UNCHANGED vars
  BY <1>1, <1>8 DEF vars, unitVars, job
<1> QED
  BY <1>2, <1>3, <1>4, <1>5, <1>6, <1>7, <1>8, StartResult, LeaveStep, ThreadStep
  DEF Next, Driver

(* A unit that says it is done has its result in memory, whatever the      *)
(* order in which the two threads of the units run (do_compute_work_in_    *)
(* thread_callback and compute_operation_complete).                        *)
THEOREM ResultAlwaysReady == Spec => []ResultReady
<1>1. Init => ResultInv
  BY DEF Init, UnitsInit, ResultInv, LockExact, ThreadsExact, DoneExact, ResultReady
<1>2. TypeOK /\ ResultInv /\ [Next]_vars => ResultInv'
  BY ResultStep
<1>3. ResultInv => ResultReady
  BY DEF ResultInv
<1> QED
  BY <1>1, <1>2, <1>3, TypeCorrect, PTL DEF Spec

----------------------------------------------------------------------------
(* Reports are honest. *)

(* The end of a job, with the call of the control unit. *)
LEMMA EndReport ==
  ASSUME ReportInv, NEW u \in processing, JobEnded(u), SignalRaised(u)
  PROVE  ReportInv'
<1>1. processing' = processing \ {u} /\ used' = used /\ status_processing /\ ~status_done
  BY DEF JobEnded, SignalRaised, Reports, control, ReportInv
<1>2. CASE u \in level
  BY <1>1, <1>2 DEF SignalRaised, control, status, ReportInv
<1>3. CASE u \notin level /\ done_bits' = used
  <2>1. status_processing' = FALSE /\ status_done' = TRUE /\ done_bits' = done_bits \cup {u}
    BY <1>3 DEF SignalRaised, Reports
  <2>2. processing' = {}
    BY <1>1, <1>3, <2>1 DEF ReportInv
  <2> QED
    BY <1>1, <2>1, <2>2 DEF ReportInv
<1>4. CASE u \notin level /\ done_bits' # used
  <2>1. UNCHANGED <<status_processing, status_done>> /\ done_bits' = done_bits \cup {u}
    BY <1>4 DEF SignalRaised, Reports, status
  <2> QED
    BY <1>1, <2>1 DEF ReportInv
<1> QED
  BY <1>2, <1>3, <1>4

LEMMA ReportStep ==
  ASSUME TypeOK, ResultInv, ReportInv, [Next]_vars
  PROVE  ReportInv'
<1>1. ASSUME UNCHANGED <<processing, used, status_processing, status_done>>,
             done_bits' \subseteq done_bits
      PROVE  ReportInv'
  BY <1>1 DEF ReportInv
<1>2. ASSUME NEW value \in Writes, Start(value)
      PROVE  ReportInv'
  <2>1. processing = {} /\ done_bits' = {}
    BY <1>2 DEF Start, IsValid, ReportInv
  <2>2. processing' = First(value) /\ used' = First(value)
    BY <1>2, <2>1 DEF Start, JobsStarted
  <2> QED
    BY <1>2, <2>1, <2>2 DEF Start, ReportInv
<1>3. ASSUME NEW value \in Writes, RefusedStart(value)
      PROVE  ReportInv'
  BY <1>1, <1>3 DEF RefusedStart, unitVars, job, status
<1>4. CASE ClearDone
  <2>1. processing = {} /\ UNCHANGED processing
    BY <1>4 DEF ClearDone, ReportInv, job
  <2> QED
    BY <1>4, <2>1 DEF ClearDone, ReportInv
<1>5. ASSUME NEW u \in Units, ClearUnit(u)
      PROVE  ReportInv'
  BY <1>1, <1>5 DEF ClearUnit, job, status
<1>6. ASSUME NEW u \in Units, CompleteSerial(u)
      PROVE  ReportInv'
  BY <1>6, EndReport DEF CompleteSerial, ResultInv, ThreadsExact
<1>7. ASSUME NEW u \in Units, CompleteThreaded(u)
      PROVE  ReportInv'
  BY <1>1, <1>7 DEF CompleteThreaded, control, status
<1>8. ASSUME NEW u \in Units, Complete(u)
      PROVE  ReportInv'
  BY <1>8, EndReport DEF Complete, MainLeaves, ResultInv, ThreadsExact
<1>9. ASSUME NEW u \in Units, Thread(u)
      PROVE  ReportInv'
  BY <1>1, <1>9 DEF Thread, control, status, job
<1>10. CASE Restore
  BY <1>1, <1>10 DEF Restore, control, status, job
<1>11. CASE UNCHANGED vars
  BY <1>1, <1>11 DEF vars, control, status, unitVars, job
<1> QED
  BY <1>2, <1>3, <1>4, <1>5, <1>6, <1>7, <1>8, <1>9, <1>10, <1>11 DEF Next, Driver

(* When completion is reported, no unit of the operation is at work: for   *)
(* any driver, also one that starts at the wrong time and clears flags     *)
(* behind the control unit's back (on_signal_raise).                       *)
THEOREM AlwaysHonest == Spec => []HonestReport
<1>1. Init => ResultInv /\ ReportInv
  BY DEF Init, UnitsInit, ResultInv, LockExact, ThreadsExact, DoneExact, ResultReady, ReportInv
<1>2. TypeOK /\ ResultInv /\ ReportInv /\ [Next]_vars => ResultInv' /\ ReportInv'
  BY ResultStep, ReportStep
<1>3. ReportInv => HonestReport
  BY DEF ReportInv, HonestReport
<1> QED
  BY <1>1, <1>2, <1>3, TypeCorrect, PTL DEF Spec

----------------------------------------------------------------------------
(* A driver that keeps to the rules. *)

LEMMA FirstOfZero == First(0) = {}
BY DEF First

(* The end of a job is the first change of level since the job was begun,  *)
(* and it completes the operation if nobody else is at work.               *)
LEMMA EndBooks ==
  ASSUME BooksExact, DoneExact, NEW u \in processing, JobEnded(u), SignalRaised(u)
  PROVE  /\ BooksExact'
         /\ done' = done \cup {u} /\ used' = used /\ u \in used \ done
         /\ operation_done' <=> done' = used
<1>1. /\ u \notin level /\ u \in used \ done
      /\ processing' = processing \ {u}
      /\ done' = done \cup {u}
  BY DEF BooksExact, SignalsFollow, DoneExact, JobEnded
<1>2. /\ level' = level \cup {u} /\ done_bits' = done_bits \cup {u}
      /\ UNCHANGED <<start, used>>
  BY <1>1 DEF SignalRaised, Reports
<1>3. used' = First(start)'
  BY <1>2 DEF BooksExact, First
<1>4. done_bits' = used <=> processing' = {}
  BY <1>1, <1>2 DEF BooksExact, SignalsFollow, DoneExact
<1>5. CASE done_bits' = used
  BY <1>1, <1>2, <1>3, <1>4, <1>5 DEF SignalRaised, Reports, BooksExact, SignalsFollow
<1>6. CASE done_bits' # used
  <2>1. UNCHANGED <<status_processing, status_done, operation_done>>
    BY <1>1, <1>6 DEF SignalRaised, Reports, status
  <2> QED
    BY <1>1, <1>2, <1>3, <1>4, <1>6, <2>1 DEF BooksExact, SignalsFollow
<1> QED
  BY <1>1, <1>2, <1>5, <1>6

LEMMA StartBooks ==
  ASSUME TypeOK, BooksExact, NEW value \in Writes, Start(value)
  PROVE  /\ BooksExact'
         /\ used = {} \/ operation_done
         /\ used' = First(value) /\ done' = {} /\ operation_done' = FALSE
<1>1. value \in 1..N /\ First(value) # {}
  BY FirstUnits DEF Start, IsValid
<1>2. /\ processing = {} /\ used = done
      /\ status_done \/ used = {}
  BY DEF Start, IsValid, BooksExact
<1>3. processing' = First(value) /\ used' = First(value) /\ start' = value
  BY <1>2 DEF Start, JobsStarted
<1>4. used' = First(start)'
  BY <1>3 DEF First
<1>5. done' = {} /\ level' = {} /\ done_bits' = {} /\ operation_done' = FALSE
  <2>1. operation_done \in BOOLEAN /\ level = done /\ done_bits = done /\ done = First(start)
    BY <1>2 DEF TypeOK, BooksExact, SignalsFollow
  <2>2. CASE status_done
    BY <2>1, <2>2 DEF Start, Cleared
  <2>3. CASE ~status_done
    <3>1. done = {} /\ operation_done = FALSE
      BY <1>2, <2>1, <2>3 DEF BooksExact
    <3> QED
      BY <2>1, <2>3, <3>1 DEF Start
  <2> QED
    BY <2>2, <2>3
<1> QED
  BY <1>1, <1>2, <1>3, <1>4, <1>5 DEF Start, BooksExact, SignalsFollow

LEMMA ClearBooks ==
  ASSUME BooksExact, ClearDone
  PROVE  /\ BooksExact'
         /\ operation_done /\ used' = {} /\ operation_done' = FALSE
<1>1. processing = {} /\ used = done /\ processing' = {} /\ ~status_processing'
  BY DEF ClearDone, BooksExact, job
<1>2. done' = {} /\ level' = {} /\ done_bits' = {}
  BY <1>1 DEF ClearDone, Cleared, BooksExact, SignalsFollow
<1>3. used' = First(start)'
  BY FirstOfZero DEF ClearDone, First
<1> QED
  BY <1>1, <1>2, <1>3 DEF ClearDone, BooksExact, SignalsFollow

LEMMA BooksStep ==
  ASSUME TypeOK, ResultInv, BooksExact, [Next]_vars, ~Careless, ~Meddling
  PROVE  BooksExact' /\ [Op!OpNext]_(Op!opVars)
<1>1. ASSUME UNCHANGED <<control, done, processing>>
      PROVE  BooksExact' /\ UNCHANGED Op!opVars
  BY <1>1 DEF control, status, BooksExact, SignalsFollow, First, Op!opVars
<1>2. ASSUME NEW value \in Writes, Start(value)
      PROVE  BooksExact' /\ Op!Begin
  <2>1. used' \in (SUBSET Units) \ {{}}
    BY <1>2, StartBooks, FirstUnits DEF Start, IsValid
  <2> QED
    BY <1>2, <2>1, StartBooks DEF Op!Begin
<1>3. CASE ClearDone
  <2>1. BooksExact' /\ Op!Acknowledge
    BY <1>3, ClearBooks DEF Op!Acknowledge
  <2> QED
    BY <2>1 DEF Op!OpNext
<1>4. ASSUME NEW u \in processing, JobEnded(u), SignalRaised(u)
      PROVE  BooksExact' /\ Op!Finish(u)
  <2>1. used = done \cup processing
    BY DEF BooksExact
  <2>2. operation_done' <=> done' \cap used' = used
    BY <1>4, <2>1, EndBooks DEF ResultInv
  <2>3. operation_done' \in BOOLEAN
    BY TypeStep DEF TypeOK
  <2>4. operation_done' = (done' \cap used' = used)
    BY <2>2, <2>3
  <2> QED
    BY <1>4, <2>1, <2>4, EndBooks DEF ResultInv, Op!Finish
<1>5. ASSUME NEW u \in Units, CompleteSerial(u)
      PROVE  BooksExact' /\ Op!Finish(u)
  BY <1>4, <1>5 DEF CompleteSerial, ResultInv, ThreadsExact
<1>6. ASSUME NEW u \in Units, CompleteThreaded(u)
      PROVE  BooksExact' /\ UNCHANGED Op!opVars
  BY <1>1, <1>6 DEF CompleteThreaded
<1>7. ASSUME NEW u \in Units, Complete(u)
      PROVE  BooksExact' /\ Op!Finish(u)
  BY <1>4, <1>7 DEF Complete, MainLeaves, ResultInv, ThreadsExact
<1>8. ASSUME NEW u \in Units, Thread(u)
      PROVE  BooksExact' /\ UNCHANGED Op!opVars
  BY <1>1, <1>8 DEF Thread, job
<1>9. CASE Restore
  BY <1>1, <1>9 DEF Restore, job
<1>10. CASE UNCHANGED vars
  BY <1>1, <1>10 DEF vars, unitVars, job
<1> QED
  BY <1>2, <1>3, <1>5, <1>6, <1>7, <1>8, <1>9, <1>10
  DEF Next, Driver, RefusedStart, ClearUnit, Op!OpNext

(* What holds of every state of the accelerator under such a driver.       *)
LEMMA BooksAlways ==
  ASSUME ~Careless, ~Meddling
  PROVE  Spec => [](TypeOK /\ ResultInv /\ BooksExact)
<1>1. Init => ResultInv /\ BooksExact
  BY FirstOfZero DEF Init, UnitsInit, ResultInv, LockExact, ThreadsExact, DoneExact,
     ResultReady, BooksExact, SignalsFollow
<1>2. TypeOK /\ ResultInv /\ BooksExact /\ [Next]_vars => ResultInv' /\ BooksExact'
  BY ResultStep, BooksStep
<1> QED
  BY <1>1, <1>2, TypeCorrect, PTL DEF Spec

(* The done flag of a unit, its signal and its bit in the control unit are *)
(* the same (operation_done, level_checked_signal, do_clear_done).         *)
THEOREM SignalsAlwaysFollow ==
  ASSUME ~Careless, ~Meddling
  PROVE  Spec => []SignalsFollow
<1>1. BooksExact => SignalsFollow
  BY DEF BooksExact
<1> QED
  BY <1>1, BooksAlways, PTL

(* An ongoing operation always has a unit at work (start_compute).         *)
THEOREM NeverStuckAlways ==
  ASSUME ~Careless, ~Meddling
  PROVE  Spec => []NeverStuck
<1>1. BooksExact => NeverStuck
  BY DEF BooksExact, NeverStuck
<1> QED
  BY <1>1, BooksAlways, PTL

(* The accelerator implements the operation of its driver, apart from the  *)
(* fairness of the units (Operation.tla).                                  *)
THEOREM OperationImplemented ==
  ASSUME ~Careless, ~Meddling
  PROVE  Spec => Op!OpInit /\ [][Op!OpNext]_(Op!opVars)
<1>1. Init => Op!OpInit
  BY DEF Init, UnitsInit, Op!OpInit
<1>2. TypeOK /\ ResultInv /\ BooksExact /\ [Next]_vars => [Op!OpNext]_(Op!opVars)
  BY BooksStep
<1> QED
  BY <1>1, <1>2, BooksAlways, PTL DEF Spec
=============================================================================
