---------------------------- MODULE ScriptBranch ----------------------------
(***************************************************************************)
(* Script branches of the command line: threads of which one runs at a     *)
(* time.  A branch runs until a wait-for command suspends it; a signal     *)
(* marks it as woken, and it runs again when the main branch lets it.      *)
(* Waits are identified by numbers that are taken once, by a script        *)
(* barrier or by a script pipe.  An interrupted branch leaves its command   *)
(* with an exception at once; it ends, or catches the exception and goes   *)
(* on.  A configuration object that is deleted interrupts the branches     *)
(* that wait for one of its haps.                                          *)
(***************************************************************************)
EXTENDS Integers, FiniteSets

CONSTANTS Branch,    \* script branches that may exist at the same time
          Barrier,   \* script barriers, created before the branches
          Pipe,      \* script pipes, created before the branches
          Object,    \* configuration objects that a hap or a log can be about
          NoObject,  \* a hap or log of any object
          Main,      \* the main branch
          MaxId,     \* bound on the wait identifiers that are taken
          MaxLimit,  \* bound on the limit of a barrier
          MaxLost,   \* bound on the branches turned away from a barrier
          MaxData    \* bound on the items in a pipe

ASSUME BranchAssumption ==
    /\ IsFiniteSet(Branch)
    /\ Main \notin Branch
    /\ NoObject \notin Object
    /\ Barrier \cap Pipe = {}
    /\ (Barrier \cup Pipe) \cap Nat = {}
    /\ {MaxId, MaxLimit, MaxLost, MaxData} \subseteq Nat

VARIABLES running,      \* the branch that runs, Main when none does
          alive,        \* branches created and not finished
          wait,         \* what each branch is suspended in
          woken,        \* suspended branches that have been signalled
          limit, count, \* of each barrier
          lost,         \* history: branches interrupted in a barrier since its last reset
          data,         \* number of items in each pipe
          nextId,       \* next_sb_wait_id
          hooks,        \* registered haps and posted events: [kind, id, obj]
          hapData,      \* identifiers in hap_data_returned
          toRun,        \* identifiers whose function is to run in the main branch
          answers,      \* identifiers in run_in_main_return or run_in_main_error
          objBranches,  \* obj_branches
          deleting,     \* the objects that del_object is at work for: one or none
          todo,         \* branches that it has still to interrupt
          deleted,      \* objects that are gone
          late          \* history: hap waits entered for an object being deleted

barrierVars == <<limit, count, lost>>
hookVars    == <<hooks, hapData, objBranches>>
mainVars    == <<toRun, answers>>
objectVars  == <<deleting, todo, deleted, late>>
vars == <<running, alive, wait, woken, barrierVars, data, nextId, hookVars, mainVars, objectVars>>

Id   == 1..MaxId
Kind == {"hap", "notifier", "log", "time"}
NoWait == [kind |-> "none", id |-> 0, obj |-> NoObject]
Wait ==
    {NoWait}
    \cup [kind: {"barrier"}, id: Barrier, obj: {NoObject}]
    \cup [kind: {"pipe"}, id: Pipe, obj: {NoObject}]
    \cup [kind: Kind \cup {"main"}, id: Id, obj: Object \cup {NoObject}]

TypeOK ==
    /\ running \in Branch \cup {Main}
    /\ alive \subseteq Branch
    /\ wait \in [Branch -> Wait]
    /\ woken \subseteq Branch
    /\ limit \in [Barrier -> 0..MaxLimit]
    /\ count \in [Barrier -> Nat]
    /\ lost \in [Barrier -> Nat]
    /\ data \in [Pipe -> Nat]
    /\ nextId \in 1..MaxId + 1
    /\ hooks \subseteq [kind: Kind, id: Id, obj: Object \cup {NoObject}]
    /\ hapData \subseteq Id
    /\ toRun \subseteq Id
    /\ answers \subseteq Id
    /\ objBranches \in [Object -> SUBSET Branch]
    /\ deleting \subseteq Object
    /\ todo \subseteq Branch
    /\ deleted \subseteq Object
    /\ late \subseteq Id
-----------------------------------------------------------------------------
(* Mutant: only one of the branches is woken. *)
SignalledOne(ids) ==
    LET all == {b \in Branch : wait[b] # NoWait /\ wait[b].id \in ids}
    IN  {b \in all : b = CHOOSE c \in all : TRUE}

(* sb_signal_waiting: every branch suspended with this identifier may run. *)
Signalled(ids) == {b \in Branch : wait[b] # NoWait /\ wait[b].id \in ids}
Signal(ids) == woken' = woken \cup Signalled(ids)

(* do_sb_wait: the running branch is suspended and the main branch goes on. *)
Suspend(b, w) ==
    /\ wait' = [wait EXCEPT ![b] = w]
    /\ running' = Main

(* Mutant: the identifier is handed out again. *)
TakeNoId == nextId' = nextId

(* sb_get_wait_id *)
TakeId == nextId' = nextId + 1
FreshId == nextId \in Id

(* Mutant: the callback is left behind. *)
OwnHooksKept(b) == {}

(* Leaving a wait, in either way, runs the finally clause of the command:  *)
(* a wait for a hap or a notifier removes its callback, that for a hap     *)
(* leaves obj_branches, a call in the main branch forgets its result.  The *)
(* waits for logs and times have nothing to undo.                          *)
OwnHooks(b) == {h \in hooks : h.kind \in {"hap", "notifier"} /\ h.kind = wait[b].kind /\ h.id = wait[b].id}
Leave(b) ==
    /\ running' = b
    /\ wait' = [wait EXCEPT ![b] = NoWait]
    /\ woken' = woken \ {b}
    /\ hooks' = hooks \ OwnHooks(b)
    /\ objBranches' = [o \in Object |-> IF wait[b].kind = "hap" /\ wait[b].obj = o
                                          THEN objBranches[o] \ {b} ELSE objBranches[o]]
    /\ answers' = IF wait[b].kind = "main" THEN answers \ {wait[b].id} ELSE answers

(* CORE_interrupt_script_branch on a suspended branch.  Nobody takes it    *)
(* off the count of a barrier.                                             *)
Raise(b) ==
    /\ Leave(b)
    /\ lost' = [x \in Barrier |-> IF wait[b].id = x /\ b \notin woken THEN lost[x] + 1 ELSE lost[x]]
    /\ UNCHANGED <<alive, limit, count, data, nextId, hapData, toRun>>

(* The main branch runs and is not inside del_object. *)
MainFree == running = Main /\ deleting = {}

Init ==
    /\ running = Main
    /\ alive = {}
    /\ wait = [b \in Branch |-> NoWait]
    /\ woken = {}
    /\ limit \in [Barrier -> (0..MaxLimit) \ {0}]
    /\ count = [x \in Barrier |-> 0]
    /\ lost = [x \in Barrier |-> 0]
    /\ data = [p \in Pipe |-> 0]
    /\ nextId = 1
    /\ hooks = {}
    /\ hapData = {}
    /\ toRun = {}
    /\ answers = {}
    /\ objBranches = [o \in Object |-> {}]
    /\ deleting = {}
    /\ todo = {}
    /\ deleted = {}
    /\ late = {}
-----------------------------------------------------------------------------
(* sb_create, script-branch: the new branch runs until it waits. *)
Create(b) ==
    /\ MainFree
    /\ b \notin alive
    /\ alive' = alive \cup {b}
    /\ running' = b
    /\ UNCHANGED <<wait, woken, barrierVars, data, nextId, hookVars, mainVars, objectVars>>

Exit(b) ==
    /\ running = b
    /\ alive' = alive \ {b}
    /\ running' = Main
    /\ UNCHANGED <<wait, woken, barrierVars, data, nextId, hookVars, mainVars, objectVars>>

(* interrupt-script-branch *)
Interrupt(b) ==
    /\ MainFree
    /\ wait[b] # NoWait
    /\ Raise(b)
    /\ UNCHANGED objectVars

(* A woken branch leaves its wait and runs; a reader of a pipe that finds  *)
(* nothing waits again.                                                    *)
FindsNothing(b) == wait[b].kind = "pipe" /\ data[wait[b].id] = 0
Resume(b) ==
    /\ MainFree
    /\ b \in woken
    /\ IF FindsNothing(b)
         THEN /\ woken' = woken \ {b}
              /\ UNCHANGED <<running, wait, data, hookVars, answers>>
         ELSE /\ Leave(b)
              /\ hapData' = hapData \ {wait[b].id}
              /\ data' = [p \in Pipe |-> IF p = wait[b].id THEN data[p] - 1 ELSE data[p]]
    /\ UNCHANGED <<alive, barrierVars, nextId, toRun, objectVars>>
-----------------------------------------------------------------------------
(* Mutant: the branches at the barrier are not woken. *)
ResetBarrierQuietly(x) ==
    /\ count' = [count EXCEPT ![x] = 0]
    /\ lost' = [lost EXCEPT ![x] = 0]
    /\ UNCHANGED woken

(* reset_script_barrier *)
ResetBarrier(x) ==
    /\ count' = [count EXCEPT ![x] = 0]
    /\ lost' = [lost EXCEPT ![x] = 0]
    /\ Signal({x})

(* script-barrier-limit.  A limit below the count raises an error after it  *)
(* has been stored.                                                        *)
SetLimit(x, l) ==
    /\ limit' = [limit EXCEPT ![x] = l]
    /\ IF count[x] = l THEN ResetBarrier(x) ELSE UNCHANGED <<count, lost, woken>>
    /\ UNCHANGED <<running, alive, wait, data, nextId, hookVars, mainVars, objectVars>>

(* wait-for-script-barrier: the last branch to come does not wait; one too *)
(* many gets an error, and stays counted.                                  *)
Enter(b, x) == count' = [count EXCEPT ![x] = @ + 1]

LastAtBarrier(b, x) ==
    /\ running = b
    /\ count[x] + 1 = limit[x]
    /\ ResetBarrier(x)
    /\ UNCHANGED <<running, alive, wait, limit, data, nextId, hookVars, mainVars, objectVars>>

WaitBarrier(b, x) ==
    /\ running = b
    /\ count[x] + 1 < limit[x]
    /\ Enter(b, x)
    /\ Suspend(b, [kind |-> "barrier", id |-> x, obj |-> NoObject])
    /\ UNCHANGED <<alive, woken, limit, lost, data, nextId, hookVars, mainVars, objectVars>>

TooMany(b, x) ==
    /\ running = b
    /\ count[x] + 1 > limit[x]
    /\ lost[x] < MaxLost
    /\ Enter(b, x)
    /\ lost' = [lost EXCEPT ![x] = @ + 1]
    /\ UNCHANGED <<running, alive, wait, woken, limit, data, nextId, hookVars, mainVars, objectVars>>
-----------------------------------------------------------------------------
(* add-data-to-script-pipe: all readers are signalled, one will get it. *)
AddData(p) ==
    /\ data[p] < MaxData
    /\ data' = [data EXCEPT ![p] = @ + 1]
    /\ Signal({p})
    /\ UNCHANGED <<running, alive, wait, barrierVars, nextId, hookVars, mainVars, objectVars>>

(* wait-for-script-pipe *)
ReadPipe(b, p) ==
    /\ running = b
    /\ data[p] > 0
    /\ data' = [data EXCEPT ![p] = @ - 1]
    /\ UNCHANGED <<running, alive, wait, woken, barrierVars, nextId, hookVars, mainVars, objectVars>>

WaitPipe(b, p) ==
    /\ running = b
    /\ data[p] = 0
    /\ Suspend(b, [kind |-> "pipe", id |-> p, obj |-> NoObject])
    /\ UNCHANGED <<alive, woken, barrierVars, data, nextId, hookVars, mainVars, objectVars>>
-----------------------------------------------------------------------------
(* Waits with an identifier of their own: for a hap, a notifier or a log   *)
(* of an object, or for a time, cycle or step.  Only a wait for a hap      *)
(* enters obj_branches, so that only this one is interrupted when the      *)
(* object is deleted.                                                      *)
WaitEvent(b, k, o) ==
    /\ running = b
    /\ FreshId
    /\ o \notin deleted
    /\ TakeId
    /\ hooks' = hooks \cup {[kind |-> k, id |-> nextId, obj |-> o]}
    /\ Suspend(b, [kind |-> k, id |-> nextId, obj |-> o])
    /\ objBranches' = [p \in Object |->
                         IF k = "hap" /\ p = o THEN objBranches[p] \cup {b} ELSE objBranches[p]]
    /\ late' = IF k = "hap" /\ o \in deleting THEN late \cup {nextId} ELSE late
    /\ UNCHANGED <<alive, woken, barrierVars, data, hapData, mainVars, deleting, todo, deleted>>

(* sb_wait_for_hap_internal *)
WaitHap(b, o) == WaitEvent(b, "hap", o)
(* sb_wait_for_notifier_internal *)
WaitNotifier(b, o) == WaitEvent(b, "notifier", o)
(* wait_for_log *)
WaitLog(b, o) == WaitEvent(b, "log", o)
(* wait_for_time_command, wait_for_cycle_command, wait_for_step *)
WaitTime(b) == WaitEvent(b, "time", NoObject)

(* sb_run_in_main_branch *)
RunInMain(b) ==
    /\ running = b
    /\ FreshId
    /\ TakeId
    /\ toRun' = toRun \cup {nextId}
    /\ Suspend(b, [kind |-> "main", id |-> nextId, obj |-> NoObject])
    /\ UNCHANGED <<alive, woken, barrierVars, data, hookVars, answers, objectVars>>

About(k, o) == {h \in hooks : h.kind = k /\ h.obj \in {o, NoObject}}

(* sb_hap_callback: the callback stays until the branch removes it.  Of    *)
(* the branches that wait for a hap of the object, it concerns those that  *)
(* wait for this hap and index.                                            *)
HapOccurs(o) ==
    /\ \E told \in SUBSET About("hap", o) :
         /\ told # {}
         /\ hapData' = hapData \cup {h.id : h \in told}
         /\ Signal({h.id : h \in told})
    /\ UNCHANGED <<running, alive, wait, barrierVars, data, nextId, hooks, objBranches, mainVars, objectVars>>

(* sb_notifier_callback: this callback stays, too. *)
NotifierOccurs(o) ==
    /\ \E told \in SUBSET About("notifier", o) :
         /\ told # {}
         /\ Signal({h.id : h \in told})
    /\ UNCHANGED <<running, alive, wait, barrierVars, data, nextId, hookVars, mainVars, objectVars>>

(* wait_log_hap_callback, wait_for_time: the callbacks whose message or    *)
(* time it is are used up.                                                 *)
EventOccurs(k, o) ==
    /\ \E used \in SUBSET About(k, o) :
         /\ used # {}
         /\ hooks' = hooks \ used
         /\ Signal({h.id : h \in used})
    /\ UNCHANGED <<running, alive, wait, barrierVars, data, nextId, hapData, objBranches, mainVars, objectVars>>

LogWritten(o) == EventOccurs("log", o)
TimeReached   == MainFree /\ EventOccurs("time", NoObject)

(* func_main_branch_cb *)
RunFunction(i) ==
    /\ MainFree
    /\ i \in toRun
    /\ toRun' = toRun \ {i}
    /\ answers' = answers \cup {i}
    /\ Signal({i})
    /\ UNCHANGED <<running, alive, wait, barrierVars, data, nextId, hookVars, objectVars>>
-----------------------------------------------------------------------------
(* del_object: the branches are interrupted one after the other, and each  *)
(* may do what it likes before it waits again or ends.  Then what is left  *)
(* in obj_branches is dropped, and the callbacks registered on the object  *)
(* go with it.                                                             *)
DeleteObject(o) ==
    /\ MainFree
    /\ o \notin deleted
    /\ deleting' = {o}
    /\ todo' = objBranches[o]
    /\ UNCHANGED <<running, alive, wait, woken, barrierVars, data, nextId, hookVars, mainVars, deleted, late>>

InterruptNext(b) ==
    /\ running = Main
    /\ b \in todo
    /\ todo' = todo \ {b}
    /\ Raise(b)
    /\ UNCHANGED <<deleting, deleted, late>>

ObjectGone(o) ==
    /\ running = Main
    /\ o \in deleting /\ todo = {}
    /\ hooks' = {h \in hooks : h.obj # o}
    /\ objBranches' = [objBranches EXCEPT ![o] = {}]
    /\ deleting' = {}
    /\ deleted' = deleted \cup {o}
    /\ UNCHANGED <<running, alive, wait, woken, barrierVars, data, nextId, hapData, mainVars, todo, late>>
-----------------------------------------------------------------------------
Command(b) ==
    \/ Exit(b)
    \/ \E x \in Barrier : LastAtBarrier(b, x) \/ WaitBarrier(b, x) \/ TooMany(b, x)
    \/ \E p \in Pipe : ReadPipe(b, p) \/ WaitPipe(b, p)
    \/ \E o \in Object \cup {NoObject} : WaitHap(b, o) \/ WaitLog(b, o)
    \/ \E o \in Object : WaitNotifier(b, o)
    \/ WaitTime(b)
    \/ RunInMain(b)

Next ==
    \/ \E b \in Branch : Create(b) \/ Command(b) \/ Interrupt(b) \/ Resume(b) \/ InterruptNext(b)
    \/ \E x \in Barrier, l \in 0..MaxLimit : SetLimit(x, l)
    \/ \E p \in Pipe : AddData(p)
    \/ \E o \in Object \cup {NoObject} : HapOccurs(o) \/ LogWritten(o)
    \/ TimeReached
    \/ \E i \in Id : RunFunction(i)
    \/ \E o \in Object : DeleteObject(o) \/ ObjectGone(o) \/ NotifierOccurs(o)

Spec == Init /\ [][Next]_vars
-----------------------------------------------------------------------------
AtBarrier(x) == {b \in Branch : wait[b].id = x /\ b \notin woken}

(* The count of a barrier is the number of branches that wait at it and    *)
(* have not been released, and those that were interrupted there or turned *)
(* away since the last reset; and nobody waits at a barrier whose count is *)
(* its limit, whatever was done to the limit in the meantime.              *)
BarrierExact ==
    \A x \in Barrier :
      /\ count[x] = Cardinality(AtBarrier(x)) + lost[x]
      /\ AtBarrier(x) # {} => count[x] # limit[x]

(* "Lowering the limit below the number of currently waiting script        *)
(* branches for a barrier is not allowed" (commands.py 4567): no more      *)
(* branches wait at a barrier than its limit.                              *)
LimitAdmits == \A x \in Barrier : Cardinality(AtBarrier(x)) <= limit[x]

(* No reader sleeps while its pipe has data, whoever was woken for the     *)
(* data and was interrupted, or came too late, in the meantime.            *)
NoReaderForgotten ==
    \A b \in Branch : wait[b].kind = "pipe" /\ b \notin woken => data[wait[b].id] = 0

(* The waits for a hap that can still end by the hap: those that were not  *)
(* entered again while their object was being deleted. *)
HapWaiters == {b \in Branch : wait[b].kind = "hap" /\ (wait[b].obj \in deleted => wait[b].id \notin late)}
(* Those for a notifier: the object is still there to report it. *)
NotifierWaiters == {b \in Branch : wait[b].kind = "notifier" /\ wait[b].obj \notin deleted}

CallbacksOf(k, waiters) ==
    {h \in hooks : h.kind = k} = {[kind |-> k, id |-> wait[b].id, obj |-> wait[b].obj] : b \in waiters}

(* obj_branches knows whom to interrupt when an object is deleted, so that *)
(* nobody else waits for a hap of an object that is gone.                  *)
HapsTracked ==
    /\ CallbacksOf("hap", HapWaiters)
    /\ \A o \in Object : objBranches[o] = {b \in HapWaiters : wait[b].obj = o}
    /\ \A b \in HapWaiters : wait[b].obj \notin deleted

(* Each of these waiters has its callback, and the callbacks of haps and   *)
(* of notifiers are all theirs, however the branches leave their waits and *)
(* whatever is deleted under them; obj_branches knows the waiters for haps.*)
WaitersTracked == HapsTracked /\ CallbacksOf("notifier", NotifierWaiters)

(* "cleanup just in case (should have been removed already)"               *)
(* (script_branch.py 264): when del_object has interrupted everybody, no   *)
(* branch is left in obj_branches.                                         *)
NobodyLeft == \A o \in deleting : running = Main /\ todo = {} => objBranches[o] = {}

(* A branch that waits for a function to run in the main branch is woken   *)
(* by its own function, and the function runs once: its identifier is in   *)
(* the queue, or the answer is there and the branch has been woken.        *)
AnsweredOnce ==
    \A b \in Branch : wait[b].kind = "main" =>
      \/ wait[b].id \in toRun \ answers /\ b \notin woken
      \/ wait[b].id \in answers \ toRun /\ b \in woken
=============================================================================
