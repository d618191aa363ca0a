------------------------------ MODULE MCompute ------------------------------
(***************************************************************************)
(* The compute units of the accelerator (m-compute-common.dml).  A unit is *)
(* started by the control unit, posts an event for the time at which the   *)
(* job is nominally finished, and then reports completion.  The threaded   *)
(* variant computes in a worker thread meanwhile; the event then blocks    *)
(* the simulation until the worker says that it is done.  Calls to the     *)
(* control unit are in MControl.                                           *)
(***************************************************************************)
EXTENDS Integers, FiniteSets

CONSTANTS
  N,         \* connected_compute_unit_count
  Threaded   \* units of the threaded variant

Units == 0 .. N - 1

ASSUME UnitsAssumption ==
  /\ N \in Nat \ {0}
  /\ Threaded \subseteq Units

VARIABLES
  processing,          \* units whose status.processing is 1
  done,                \* units whose status.done is 1
  posted,              \* units with a posted completion event
  main,                \* the simulation thread in compute_operation_complete
  worker,              \* the worker thread of each unit
  worker_thread_lock,  \* who holds the mutex
  worker_thread_done,  \* units with this flag set
  computed,            \* units whose scratch buffer is complete
  written              \* units whose result is in the target memory

job     == <<processing, posted, written>>
threads == <<main, worker, worker_thread_lock, worker_thread_done, computed>>
unitVars == <<done, job, threads>>

MainStages   == {"out", "lock", "check", "asleep"}
WorkerStages == {"none", "compute", "lock", "signal", "unlock"}

UnitsInit ==
  /\ processing = {}
  /\ done = {}
  /\ posted = {}
  /\ written = {}
  /\ main = [u \in Units |-> "out"]
  /\ worker = [u \in Units |-> "none"]
  /\ worker_thread_lock = [u \in Units |-> "free"]
  /\ worker_thread_done = {}
  /\ computed = {}

(* The simulation goes on only while no completion event is waiting for a  *)
(* worker: it has one thread.                                              *)
Running == \A u \in Units : main[u] = "out"

----------------------------------------------------------------------------
(* start_operation for the units of a set: the busy ones refuse.           *)
JobsStarted(S) ==
  LET new == S \ processing
  IN /\ processing' = processing \cup new
     /\ posted' = posted \cup new
     /\ written' = written \ new
     /\ worker' = [u \in Units |-> IF u \in new \cap Threaded THEN "compute" ELSE worker[u]]
     /\ worker_thread_done' = worker_thread_done \ new
     /\ computed' = computed \ new
     /\ UNCHANGED <<main, worker_thread_lock>>

(* The last part of compute_operation_complete, without the call of the    *)
(* control unit.                                                           *)
JobEnded(u) ==
  /\ processing' = processing \ {u}
  /\ done' = done \cup {u}

----------------------------------------------------------------------------
(* The worker thread: compute, then lock, set the flag, signal, unlock.    *)

WorkerComputes(u) ==
  /\ worker[u] = "compute"
  /\ worker' = [worker EXCEPT ![u] = "lock"]
  /\ computed' = computed \cup {u}
  /\ UNCHANGED <<main, worker_thread_lock, worker_thread_done>>

WorkerLocks(u) ==
  /\ worker[u] = "lock"
  /\ worker_thread_lock[u] = "free"
  /\ worker' = [worker EXCEPT ![u] = "signal"]
  /\ worker_thread_lock' = [worker_thread_lock EXCEPT ![u] = "worker"]
  /\ UNCHANGED <<main, worker_thread_done, computed>>

(* Mutant: nobody is told. *)
WorkerSetsFlag(u) ==
  /\ worker[u] = "signal"
  /\ worker' = [worker EXCEPT ![u] = "unlock"]
  /\ worker_thread_done' = worker_thread_done \cup {u}
  /\ UNCHANGED <<main, worker_thread_lock, computed>>

WorkerSignals(u) ==
  /\ worker[u] = "signal"
  /\ worker' = [worker EXCEPT ![u] = "unlock"]
  /\ worker_thread_done' = worker_thread_done \cup {u}
  /\ main' = [main EXCEPT ![u] = IF @ = "asleep" THEN "lock" ELSE @]
  /\ UNCHANGED <<worker_thread_lock, computed>>

WorkerUnlocks(u) ==
  /\ worker[u] = "unlock"
  /\ worker' = [worker EXCEPT ![u] = "none"]
  /\ worker_thread_lock' = [worker_thread_lock EXCEPT ![u] = "free"]
  /\ UNCHANGED <<main, worker_thread_done, computed>>

Worker(u) ==
  WorkerComputes(u) \/ WorkerLocks(u) \/ WorkerSignals(u) \/ WorkerUnlocks(u)

----------------------------------------------------------------------------
(* The simulation thread in compute_operation_complete. *)

MainLocks(u) ==
  /\ main[u] = "lock"
  /\ worker_thread_lock[u] = "free"
  /\ main' = [main EXCEPT ![u] = "check"]
  /\ worker_thread_lock' = [worker_thread_lock EXCEPT ![u] = "main"]
  /\ UNCHANGED <<worker, worker_thread_done, computed>>

MainWaits(u) ==
  /\ main[u] = "check"
  /\ u \notin worker_thread_done
  /\ main' = [main EXCEPT ![u] = "asleep"]
  /\ worker_thread_lock' = [worker_thread_lock EXCEPT ![u] = "free"]
  /\ UNCHANGED <<worker, worker_thread_done, computed>>

(* A condition variable may wake up without a signal. *)
MainWakes(u) ==
  /\ main[u] = "asleep"
  /\ main' = [main EXCEPT ![u] = "lock"]
  /\ UNCHANGED <<worker, worker_thread_lock, worker_thread_done, computed>>

(* Mutant: whoever has been woken up goes on, "if" instead of "while". *)
MainLeavesWoken(u) ==
  /\ main[u] = "check"
  /\ main' = [main EXCEPT ![u] = "out"]
  /\ worker_thread_lock' = [worker_thread_lock EXCEPT ![u] = "free"]
  /\ written' = IF u \in computed THEN written \cup {u} ELSE written
  /\ computed' = computed \ {u}
  /\ UNCHANGED <<worker, worker_thread_done>>

(* The worker is done: copy its buffer to memory, and free it. *)
MainLeaves(u) ==
  /\ main[u] = "check"
  /\ u \in worker_thread_done
  /\ main' = [main EXCEPT ![u] = "out"]
  /\ worker_thread_lock' = [worker_thread_lock EXCEPT ![u] = "free"]
  /\ written' = IF u \in computed THEN written \cup {u} ELSE written
  /\ computed' = computed \ {u}
  /\ UNCHANGED <<worker, worker_thread_done>>

----------------------------------------------------------------------------
(* A checkpoint is taken and restored while no event is being handled.     *)
(* Threads, their flag and the scratch buffer are not saved.               *)
ThreadsLost ==
  /\ Running
  /\ worker' = [u \in Units |-> "none"]
  /\ worker_thread_lock' = [u \in Units |-> "free"]
  /\ worker_thread_done' = {}
  /\ computed' = {}
  /\ UNCHANGED main

----------------------------------------------------------------------------
UnitsTypeOK ==
  /\ processing \in SUBSET Units
  /\ done \in SUBSET Units
  /\ posted \in SUBSET Units
  /\ written \in SUBSET Units
  /\ main \in [Units -> MainStages]
  /\ worker \in [Units -> WorkerStages]
  /\ worker_thread_lock \in [Units -> {"free", "worker", "main"}]
  /\ worker_thread_done \in SUBSET Units
  /\ computed \in SUBSET Units
=============================================================================
