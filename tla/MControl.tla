------------------------------ MODULE MControl ------------------------------
(***************************************************************************)
(* The control unit of the accelerator (m-control-common.dml), together    *)
(* with its compute units.  The driver writes the registers start and      *)
(* status of the control unit; the control unit calls the units, and the   *)
(* units raise and lower their done signals at its ports.  A call runs to  *)
(* completion, so every action is a call with all that follows from it.    *)
(***************************************************************************)
EXTENDS MCompute

CONSTANTS
  Writes,         \* values written to the register start
  Careless,       \* TRUE: also out of range, or while an operation is ongoing
  Meddling,       \* TRUE: the driver clears done flags of single units, too
  Checkpointing   \* TRUE: the simulation may be saved and restored

(* Beyond the 8 units that the model supports (max_compute_units), the     *)
(* array of units has no such element.                                     *)
ASSUME ControlAssumption ==
  /\ N <= 8
  /\ Writes \subseteq 0..8
  /\ Careless \in BOOLEAN
  /\ Meddling \in BOOLEAN
  /\ Checkpointing \in BOOLEAN

VARIABLES
  start,              \* the register start
  used,               \* the register used, a set of units
  done_bits,          \* the register done, a set of units
  status_processing,
  status_done,
  level,              \* ports whose signal is high
  operation_done      \* the completion signal

status == <<status_processing, status_done, operation_done>>
control == <<start, used, done_bits, status, level>>
vars == <<control, unitVars>>

Init ==
  /\ UnitsInit
  /\ start = 0
  /\ used = {}
  /\ done_bits = {}
  /\ status_processing = FALSE
  /\ status_done = FALSE
  /\ level = {}
  /\ operation_done = FALSE

----------------------------------------------------------------------------
(* The units that a loop up to the given count addresses. *)
First(count) == 0 .. count - 1

(* do_clear_done calls as many units as the register start says.  Those    *)
(* that are done clear their flag and lower their signal.                  *)
Cleared == First(start) \cap done

(* on_signal_raise of a port that was low.  (Mutant: the first unit to     *)
(* finish completes the operation.)                                        *)
FirstReports(u) ==
  /\ level' = level \cup {u}
  /\ done_bits' = done_bits \cup {u}
  /\ status_processing' = FALSE
  /\ status_done' = TRUE
  /\ operation_done' = TRUE
  /\ UNCHANGED <<start, used>>

Reports(u) ==
  /\ level' = level \cup {u}
  /\ done_bits' = done_bits \cup {u}
  /\ IF done_bits' = used
     THEN /\ status_processing' = FALSE
          /\ status_done' = TRUE
          /\ operation_done' = TRUE
     ELSE UNCHANGED status
  /\ UNCHANGED <<start, used>>

(* signal_raise of a unit at its port: only a change of level counts. *)
SignalRaised(u) == IF u \in level THEN UNCHANGED control ELSE Reports(u)

----------------------------------------------------------------------------
(* Register writes of the driver, while the simulation runs. *)

IsValid(value) == value \in 1..N /\ ~status_processing

(* A write that is refused changes nothing but the register itself. *)
RefusedStart(value) ==
  /\ Running
  /\ Careless /\ ~IsValid(value)
  /\ start' = value
  /\ UNCHANGED <<used, done_bits, status, level, unitVars>>

(* Mutants: what the last operation left is not cleared; a start while an  *)
(* operation is ongoing is not refused.                                    *)
StartUncleared(value) ==
  /\ Running
  /\ IsValid(value)
  /\ JobsStarted(First(value))
  /\ done' = done \ (First(value) \ processing)
  /\ UNCHANGED <<level, done_bits>>
  /\ operation_done' = FALSE
  /\ used' = First(value)
  /\ status_processing' = TRUE
  /\ status_done' = FALSE
  /\ start' = value

StartAnytime(value) ==
  LET clear == IF status_done THEN Cleared ELSE {}
  IN /\ Running
     /\ value \in 1..N
     /\ JobsStarted(First(value))
     /\ done' = (done \ clear) \ (First(value) \ processing)
     /\ level' = level \ clear
     /\ done_bits' = IF status_done THEN {} ELSE done_bits
     /\ operation_done' = IF status_done THEN FALSE ELSE operation_done
     /\ used' = First(value)
     /\ status_processing' = TRUE
     /\ status_done' = FALSE
     /\ start' = value

(* start_compute: what is left of the last operation is cleared first. *)
Start(value) ==
  LET clear == IF status_done THEN Cleared ELSE {}
  IN /\ Running
     /\ IsValid(value)
     /\ JobsStarted(First(value))
     /\ done' = (done \ clear) \ (First(value) \ processing)
     /\ level' = level \ clear
     /\ done_bits' = IF status_done THEN {} ELSE done_bits
     /\ operation_done' = IF status_done THEN FALSE ELSE operation_done
     /\ used' = First(value)
     /\ status_processing' = TRUE
     /\ status_done' = FALSE
     /\ start' = value

ClearDone ==
  /\ Running
  /\ status_done
  /\ done' = done \ Cleared
  /\ level' = level \ Cleared
  /\ done_bits' = {}
  /\ start' = 0
  /\ used' = {}
  /\ status_done' = FALSE
  /\ operation_done' = FALSE
  /\ UNCHANGED <<status_processing, job, threads>>

(* The driver clears the done flag of a unit in the unit's own register. *)
ClearUnit(u) ==
  /\ Running
  /\ Meddling /\ u \in done
  /\ done' = done \ {u}
  /\ level' = level \ {u}
  /\ done_bits' = IF u \in level THEN done_bits \ {u} ELSE done_bits
  /\ UNCHANGED <<start, used, status, job, threads>>

----------------------------------------------------------------------------
(* The completion event of a unit: the serial variant does all its work    *)
(* here, the threaded one waits for its worker.                            *)
CompleteSerial(u) ==
  /\ Running
  /\ u \in posted \ Threaded
  /\ posted' = posted \ {u}
  /\ written' = written \cup {u}
  /\ JobEnded(u)
  /\ SignalRaised(u)
  /\ UNCHANGED threads

CompleteThreaded(u) ==
  /\ Running
  /\ u \in posted \cap Threaded
  /\ posted' = posted \ {u}
  /\ main' = [main EXCEPT ![u] = "lock"]
  /\ UNCHANGED <<control, processing, done, written, worker, worker_thread_lock,
                 worker_thread_done, computed>>

Complete(u) ==
  /\ MainLeaves(u)
  /\ JobEnded(u)
  /\ SignalRaised(u)
  /\ UNCHANGED posted

Thread(u) ==
  /\ Worker(u) \/ MainLocks(u) \/ MainWaits(u) \/ MainWakes(u)
  /\ UNCHANGED <<control, done, job>>

Restore ==
  /\ Checkpointing
  /\ ThreadsLost
  /\ UNCHANGED <<control, done, job>>

Driver ==
  \/ \E value \in Writes : Start(value) \/ RefusedStart(value)
  \/ ClearDone
  \/ \E u \in Units : ClearUnit(u)

Next ==
  \/ Driver
  \/ \E u \in Units : CompleteSerial(u) \/ CompleteThreaded(u) \/ Complete(u) \/ Thread(u)
  \/ Restore

Spec == Init /\ [][Next]_vars

(* Simulated time goes on, both threads run, and the mutex does not keep   *)
(* the worker out for ever while the simulation thread wakes up without a  *)
(* signal again and again.  Nothing is assumed of the driver.              *)
Fairness ==
  \A u \in Units :
    /\ WF_vars(CompleteSerial(u))
    /\ WF_vars(CompleteThreaded(u))
    /\ WF_vars(Complete(u))
    /\ WF_vars(Worker(u) /\ UNCHANGED <<control, done, job>>)
    /\ SF_vars(WorkerLocks(u) /\ UNCHANGED <<control, done, job>>)
    /\ WF_vars((MainLocks(u) \/ MainWaits(u)) /\ UNCHANGED <<control, done, job>>)

FairSpec == Spec /\ Fairness

----------------------------------------------------------------------------
(* Properties. *)

TypeOK ==
  /\ UnitsTypeOK
  /\ start \in 0..8
  /\ used \in SUBSET Units
  /\ done_bits \in SUBSET Units
  /\ status_processing \in BOOLEAN
  /\ status_done \in BOOLEAN
  /\ level \in SUBSET Units
  /\ operation_done \in BOOLEAN

(***************************************************************************)
(* The signal of a unit follows the done flag in its status register       *)
(* (comment at m-compute-common.dml:104-106), and the control unit's copy  *)
(* of it, the register done, follows as well.                              *)
(***************************************************************************)
SignalsFollow == level = done /\ done_bits = done

(***************************************************************************)
(* While an operation is ongoing, one of its units is still at work: there *)
(* is no operation that waits for nobody, and would never end (start_      *)
(* compute, on_signal_raise).                                              *)
(***************************************************************************)
NeverStuck == status_processing => used \cap processing # {}

(***************************************************************************)
(* The result of a unit that says it is done is in the target memory       *)
(* (do_compute_work, compute_operation_complete).                          *)
(***************************************************************************)
ResultReady == done \subseteq written

(***************************************************************************)
(* Completion is reported only when no unit of the operation is at work,   *)
(* whatever the driver does (on_signal_raise).                             *)
(***************************************************************************)
HonestReport == status_done => used \cap processing = {}

(***************************************************************************)
(* The simulation, blocked until the thread has completed the work, goes   *)
(* on in the end (comment at m-compute-common.dml:536-538).                *)
(***************************************************************************)
BlockEnds == \A u \in Units : main[u] # "out" ~> main[u] = "out"

(***************************************************************************)
(* The accelerator implements the operation of its driver, where a unit    *)
(* has finished when its own done flag is set, and the report is the       *)
(* signal.                                                                 *)
(***************************************************************************)
Op == INSTANCE Operation WITH
        team <- used, finished <- done \cap used, reported <- operation_done

ImplementsOperation == Op!OpSpec
=============================================================================
