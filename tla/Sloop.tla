------------------------------- MODULE Sloop -------------------------------
(***************************************************************************)
(* The event loop that runs coroutines between the steps of a simulation.  *)
(* One task reads the values of a snooper through the iterator of a        *)
(* Tracer, waits for single events with wait, and does both inside         *)
(* timeouts and callback scopes that interrupt it by cancelling it.        *)
(*                                                                         *)
(* Snoopers yield in Global Context ("global"), where callbacks act at     *)
(* once, or while simulation runs in a cell ("cell"), from where they      *)
(* defer to SIM_run_alone, a queue.  The loop sleeps while its own queue   *)
(* is empty; the first entry wakes it up through SIM_run_alone.            *)
(***************************************************************************)
EXTENDS Integers, Sequences, FiniteSets

CONSTANTS MaxItems,   \* bound on the values that the traced snooper yields
          MaxAwaits,  \* bound on the futures that the task awaits
          MaxScopes,  \* bound on the scopes that the task enters
          MaxErrors,  \* bound on the exceptions yielded to scopes
          MaxCancels, \* bound on the calls of cancel on the task from outside
          MaxEvents   \* bound on the values, scopes, exceptions and cancels together

ASSUME BoundsAssumption == {MaxItems, MaxAwaits, MaxScopes, MaxErrors, MaxCancels, MaxEvents} \subseteq Nat

VARIABLES alone,    \* what SIM_run_alone has queued
          ready,    \* the handles in the queue of the loop
          asleep,   \* _ready is the SleepingDeque
          running,  \* quiesce is running
          broken,   \* history: quiesce was left by an exception, and has not run to its end since
          pc,       \* the task: "run", "await", "done"
          cur,      \* number of the future that the task awaits or awaited last
          kind,     \* what that future is for
          fut,      \* its state
          by,       \* the identifier that it, or the finished task, was cancelled with
          must,     \* _must_cancel with its message, or None
          yielded,  \* number of values that the traced snooper has yielded
          queue,    \* q of the iterator
          armed,    \* its _fut is the future cur
          flight,   \* history: the value that is on its way to the task
          got, lost,\* history: values the task has received, values dropped with a cancelled await
          handle,   \* of each wait: the handle of its callback
          stopped,  \* of each wait: cancelled
          scopes,   \* the open scopes, the innermost last
          entered,  \* number of scopes entered so far
          ident,    \* of each scope: the identifier it has cancelled the task with, or None
          exc,      \* of each scope: the exception that it will raise
          unique,   \* CallbackScope.unique
          errors, cancels, \* number of exceptions and of foreign cancels so far
          odd       \* history: identifiers that no scope will recognise, see Propagate

loopVars  == <<alone, ready, asleep>>
futVars   == <<pc, cur, kind, fut, by, must>>
iterVars  == <<yielded, queue, armed, flight, got, lost>>
waitVars  == <<handle, stopped>>
scopeVars == <<scopes, entered, ident, exc, unique, errors, cancels, odd>>
vars == <<loopVars, running, broken, futVars, iterVars, waitVars, scopeVars>>

None    == 0     \* no identifier
Foreign == -1    \* the message of a cancel that is not from a scope
Await   == 1..MaxAwaits
ScopeId == 1..MaxScopes
MaxIdent == MaxScopes + MaxErrors
Ident   == -1..MaxIdent

Thunk(op, n) == [op |-> op, n |-> n]
Quiesce == Thunk("quiesce", 0)
WakeUp  == Thunk("wakeup", 0)
ThunkOp == {"quiesce", "wakeup", "set", "stop", "propagate", "soon"}
Thunks  == [op : ThunkOp, n : 0..MaxAwaits + MaxScopes]

TypeOK ==
    /\ alone \in Seq(Thunks) /\ ready \in Seq(Thunks)
    /\ {asleep, running, broken, armed} \subseteq BOOLEAN
    /\ pc \in {"run", "await", "done"}
    /\ cur \in 0..MaxAwaits
    /\ kind \in {"next", "wait"}
    /\ fut \in {"pending", "set", "cancelled"}
    /\ {by, must} \subseteq Ident
    /\ yielded \in 0..MaxItems /\ flight \in 0..MaxItems
    /\ queue \in Seq(1..MaxItems) /\ got \in Seq(1..MaxItems)
    /\ lost \subseteq 1..MaxItems
    /\ handle \in [Await -> {"none", "on", "off"}]
    /\ stopped \in [Await -> BOOLEAN]
    /\ scopes \in Seq(ScopeId) /\ entered \in 0..MaxScopes
    /\ ident \in [ScopeId -> Ident]
    /\ exc \in [ScopeId -> {"none", "timeout", "error"}]
    /\ unique \in 1..MaxIdent + 1
    /\ errors \in 0..MaxErrors /\ cancels \in 0..MaxCancels
    /\ odd \subseteq Ident

(* The task is in its first step. *)
Init ==
    /\ alone = <<>> /\ ready = <<>> /\ asleep = FALSE /\ running = TRUE /\ broken = FALSE
    /\ pc = "run" /\ cur = 0 /\ kind = "next" /\ fut = "set" /\ by = None /\ must = None
    /\ yielded = 0 /\ queue = <<>> /\ armed = FALSE /\ flight = 0 /\ got = <<>> /\ lost = {}
    /\ handle = [f \in Await |-> "none"] /\ stopped = [f \in Await |-> FALSE]
    /\ scopes = <<>> /\ entered = 0
    /\ ident = [s \in ScopeId |-> None] /\ exc = [s \in ScopeId |-> "none"]
    /\ unique = 1 /\ errors = 0 /\ cancels = 0 /\ odd = {}
-----------------------------------------------------------------------------
(* The queues.  In each of the following, r and a are what the caller has  *)
(* left of ready and alone.                                                *)
Quiet(r, a) == ready' = r /\ alone' = a /\ asleep' = asleep

(* call_soon: the first entry wakes the loop up (SleepingDeque.append). *)
CallSoonQuietly(h, r, a) == \* mutant: the loop is not woken up
    ready' = Append(r, h) /\ asleep' = FALSE /\ alone' = a

CallSoon(h, r, a) ==
    /\ ready' = Append(r, h)
    /\ asleep' = FALSE
    /\ alone' = IF asleep THEN Append(a, Quiesce) ELSE a

Awaits(f) == pc = "await" /\ cur = f /\ fut = "pending"

(* A result for the future f, unless it is cancelled. *)
SetResult(f, r, a) ==
    IF Awaits(f)
      THEN fut' = "set" /\ CallSoon(WakeUp, r, a) /\ UNCHANGED <<pc, cur, kind, by, must>>
      ELSE Quiet(r, a) /\ UNCHANGED futVars

(* Task.cancel: the future it awaits is cancelled; when it cannot be, the  *)
(* task gets the exception in its next step.                               *)
Cancel(i, r, a) ==
    \/ /\ Awaits(cur)
       /\ fut' = "cancelled" /\ by' = i
       /\ CallSoon(WakeUp, r, a)
       /\ UNCHANGED <<pc, cur, kind, must>>
    \/ /\ ~Awaits(cur)
       /\ must' = IF pc = "done" THEN must ELSE i
       /\ Quiet(r, a)
       /\ UNCHANGED <<pc, cur, kind, fut, by>>

IsOpen(s) == \E k \in 1..Len(scopes) : scopes[k] = s

(* Canceller.propagate.  When the scope has cancelled the task before, its *)
(* first identifier is forgotten; when the task is in its own step, it may *)
(* have left the scope before the exception reaches it.                    *)
PropagateAlways(s, r, a) == \* mutant: done is not looked at
    /\ ident' = [ident EXCEPT ![s] = unique]
    /\ unique' = unique + 1
    /\ odd' = odd \cup {ident[s]} \cup (IF pc = "run" THEN {unique} ELSE {})
    /\ Cancel(unique, r, a)

Propagate(s, r, a) ==
    IF IsOpen(s)
      THEN /\ ident' = [ident EXCEPT ![s] = unique]
           /\ unique' = unique + 1
           /\ odd' = odd \cup {ident[s]} \cup (IF pc = "run" THEN {unique} ELSE {})
           /\ Cancel(unique, r, a)
      ELSE Quiet(r, a) /\ UNCHANGED <<futVars, ident, unique, odd>>
-----------------------------------------------------------------------------
(* The contexts in which a callback runs.  Cells do not run while the loop *)
(* does.                                                                   *)
Context == {"global"} \cup (IF running THEN {} ELSE {"cell"})

MayHappen == yielded + entered + errors + cancels < MaxEvents

(* A value for the iterator: SnoopAsyncIterator.next; an exception, or the *)
(* end, takes the same way.                                                *)
Yield(ctx) ==
    /\ MayHappen /\ yielded < MaxItems
    /\ yielded' = yielded + 1
    /\ IF ~armed
         THEN /\ queue' = Append(queue, yielded')
              /\ UNCHANGED <<loopVars, futVars, armed, flight, lost>>
         ELSE /\ armed' = FALSE
              /\ UNCHANGED queue
              /\ flight' = IF ctx = "cell" \/ Awaits(cur) THEN yielded' ELSE 0
              /\ lost' = IF ctx = "cell" \/ Awaits(cur) THEN lost ELSE lost \cup {yielded'}
              /\ IF ctx = "global"
                   THEN SetResult(cur, ready, alone)
                   ELSE Quiet(ready, Append(alone, Thunk("set", cur))) /\ UNCHANGED futVars
    /\ UNCHANGED <<running, broken, got, waitVars, scopeVars>>

(* The callback of wait: done, or raise_exception. *)
Event(f, ctx) ==
    /\ handle[f] = "on"
    /\ ~stopped[f]
    /\ stopped' = [stopped EXCEPT ![f] = TRUE]
    /\ IF ctx = "global"
         THEN handle' = [handle EXCEPT ![f] = "off"] /\ SetResult(f, ready, alone)
         ELSE handle' = handle /\ Quiet(ready, Append(alone, Thunk("stop", f))) /\ UNCHANGED futVars
    /\ UNCHANGED <<running, broken, iterVars, scopeVars>>

(* The snooper of a timeout yields. *)
TimeOut(s, ctx) ==
    /\ IsOpen(s)
    /\ exc[s] = "none"
    /\ exc' = [exc EXCEPT ![s] = "timeout"]
    /\ IF ctx = "global" THEN CallSoon(Thunk("propagate", s), ready, alone)
                         ELSE Quiet(ready, Append(alone, Thunk("soon", s)))
    /\ UNCHANGED <<running, broken, futVars, iterVars, waitVars, scopes, entered, ident, unique, errors,
                   cancels, odd>>

(* The snooper of a scope yields an exception: Canceller.yield_exc. *)
ScopeError(s, ctx) ==
    /\ IsOpen(s)
    /\ MayHappen /\ errors < MaxErrors
    /\ errors' = errors + 1
    /\ exc' = [exc EXCEPT ![s] = "error"]
    /\ IF ctx = "global"
         THEN Propagate(s, ready, alone)
         ELSE Quiet(ready, Append(alone, Thunk("propagate", s))) /\ UNCHANGED <<futVars, ident, unique, odd>>
    /\ UNCHANGED <<running, broken, iterVars, waitVars, scopes, entered, cancels>>

(* Somebody else cancels the task. *)
CancelTask ==
    /\ pc # "run" /\ pc # "done"
    /\ MayHappen /\ cancels < MaxCancels
    /\ cancels' = cancels + 1
    /\ Cancel(Foreign, ready, alone)
    /\ UNCHANGED <<running, broken, iterVars, waitVars, scopes, entered, ident, exc, unique, errors, odd>>
-----------------------------------------------------------------------------
(* SIM_run_alone calls what is queued, in order. *)
RunAlone ==
    /\ ~running
    /\ alone # <<>>
    /\ LET t == Head(alone) rest == Tail(alone) IN
         \/ /\ t.op = "quiesce"
            /\ running' = TRUE
            /\ Quiet(ready, rest)
            /\ UNCHANGED <<broken, futVars, iterVars, waitVars, scopeVars>>
         \/ /\ t.op = "set"
            /\ SetResult(t.n, ready, rest)
            /\ UNCHANGED <<running, broken, iterVars, waitVars, scopeVars>>
         \/ /\ t.op = "stop"
            /\ handle' = [handle EXCEPT ![t.n] = "off"]
            /\ SetResult(t.n, ready, rest)
            /\ UNCHANGED <<running, broken, iterVars, stopped, scopeVars>>
         \/ /\ t.op = "soon"
            /\ CallSoon(Thunk("propagate", t.n), ready, rest)
            /\ UNCHANGED <<running, broken, futVars, iterVars, waitVars, scopeVars>>
         \/ /\ t.op = "propagate"
            /\ Propagate(t.n, ready, rest)
            /\ UNCHANGED <<running, broken, iterVars, waitVars, scopes, entered, exc, errors, cancels>>

(* quiesce, called by run_until_complete. *)
RunUntilComplete ==
    /\ ~running
    /\ running' = TRUE
    /\ UNCHANGED <<loopVars, broken, futVars, iterVars, waitVars, scopeVars>>

(* The end of quiesce: back to sleep. *)
QuiesceEnds ==
    /\ running /\ pc # "run"
    /\ ready = <<>>
    /\ running' = FALSE /\ asleep' = TRUE /\ broken' = FALSE
    /\ UNCHANGED <<alone, ready, futVars, iterVars, waitVars, scopeVars>>

(* A handle raises KeyboardInterrupt or SystemExit: quiesce is left. *)
QuiesceRaises ==
    /\ running /\ pc # "run"
    /\ running' = FALSE /\ broken' = TRUE
    /\ UNCHANGED <<loopVars, futVars, iterVars, waitVars, scopeVars>>

RunPropagate ==
    /\ running /\ pc # "run"
    /\ ready # <<>> /\ Head(ready).op = "propagate"
    /\ Propagate(Head(ready).n, Tail(ready), alone)
    /\ UNCHANGED <<running, broken, iterVars, waitVars, scopes, entered, exc, errors, cancels>>
-----------------------------------------------------------------------------
(* The exception that the task gets when it is resumed: that of the future *)
(* before that of a cancel that came too late for it.                      *)
Raised == IF fut = "cancelled" THEN by ELSE must

(* The scope that an exception with identifier i is for: __aexit__. *)
Catching(i) == {k \in 1..Len(scopes) : i # None /\ ident[scopes[k]] = i}

LeaveAwaitArmed == \* mutant: the iterator keeps its future
    /\ armed' = armed
    /\ handle' = IF kind = "wait" /\ ~stopped[cur] THEN [handle EXCEPT ![cur] = "off"] ELSE handle
    /\ stopped' = stopped

LeaveAwaitListening == \* mutant: the callback of an interrupted wait stays
    armed' = (IF kind = "next" THEN FALSE ELSE armed) /\ UNCHANGED waitVars

(* The finally clauses of the await that is left. *)
LeaveAwait ==
    /\ armed' = IF kind = "next" THEN FALSE ELSE armed
    /\ handle' = IF kind = "wait" /\ ~stopped[cur] THEN [handle EXCEPT ![cur] = "off"] ELSE handle
    /\ stopped' = stopped

(* The handle of the task runs; it is resumed with a result. *)
ResumeWithResult ==
    /\ Raised = None
    /\ pc' = "run"
    /\ got' = IF kind = "next" THEN Append(got, flight) ELSE got
    /\ flight' = IF kind = "next" THEN 0 ELSE flight
    /\ UNCHANGED <<lost, by, scopes>>

(* It is cancelled; the scope that did it raises its exception instead,    *)
(* and the task goes on outside.  Otherwise the task ends.                 *)
ResumeCancelled ==
    /\ Raised # None
    /\ flight' = 0
    /\ lost' = lost \cup ({flight} \ {0})
    /\ IF Catching(Raised) # {}
         THEN /\ pc' = "run" /\ by' = by
              /\ scopes' = SubSeq(scopes, 1, (CHOOSE k \in Catching(Raised) : TRUE) - 1)
         ELSE pc' = "done" /\ by' = Raised /\ scopes' = <<>>
    /\ got' = got

Resume ==
    /\ running /\ pc = "await"
    /\ ready # <<>> /\ Head(ready).op = "wakeup"
    /\ ready' = Tail(ready)
    /\ must' = None
    /\ LeaveAwait
    /\ ResumeWithResult \/ ResumeCancelled
    /\ UNCHANGED <<alone, asleep, running, broken, cur, kind, fut, yielded, queue, entered, ident, exc, unique,
                   errors, cancels, odd>>

(* The steps of the task.  Awaiting with a cancel pending cancels the new  *)
(* future at once.                                                         *)
StartAwait(k) ==
    /\ cur < MaxAwaits
    /\ cur' = cur + 1
    /\ kind' = k
    /\ pc' = "await"
    /\ must' = None
    /\ IF must = None
         THEN fut' = "pending" /\ by' = None /\ UNCHANGED loopVars
         ELSE fut' = "cancelled" /\ by' = must /\ CallSoon(WakeUp, ready, alone)

AwaitNext ==
    /\ pc = "run"
    /\ queue = <<>>
    /\ StartAwait("next")
    /\ armed' = TRUE
    /\ UNCHANGED <<running, broken, yielded, queue, flight, got, lost, waitVars, scopeVars>>

TakeNext ==
    /\ pc = "run"
    /\ queue # <<>>
    /\ got' = Append(got, Head(queue))
    /\ queue' = Tail(queue)
    /\ UNCHANGED <<running, broken, loopVars, futVars, yielded, armed, flight, lost, waitVars, scopeVars>>

AwaitEvent ==
    /\ pc = "run"
    /\ StartAwait("wait")
    /\ handle' = [handle EXCEPT ![cur'] = "on"]
    /\ UNCHANGED <<running, broken, iterVars, stopped, scopeVars>>

EnterScope ==
    /\ pc = "run"
    /\ MayHappen /\ entered < MaxScopes
    /\ entered' = entered + 1
    /\ scopes' = Append(scopes, entered')
    /\ UNCHANGED <<running, broken, loopVars, futVars, iterVars, waitVars, ident, exc, unique, errors, cancels, odd>>

LeaveScope ==
    /\ pc = "run"
    /\ scopes # <<>>
    /\ scopes' = SubSeq(scopes, 1, Len(scopes) - 1)
    /\ UNCHANGED <<running, broken, loopVars, futVars, iterVars, waitVars, entered, ident, exc, unique, errors,
                   cancels, odd>>

(* The coroutine returns; with a cancel pending, the task is cancelled. *)
Return ==
    /\ pc = "run"
    /\ scopes = <<>>
    /\ pc' = "done" /\ by' = must /\ must' = None
    /\ UNCHANGED <<running, broken, loopVars, cur, kind, fut, iterVars, waitVars, scopeVars>>

TaskStep == Resume \/ AwaitNext \/ TakeNext \/ AwaitEvent \/ EnterScope \/ LeaveScope \/ Return

Snoopers == \E ctx \in Context :
    \/ Yield(ctx)
    \/ \E f \in Await : Event(f, ctx)
    \/ \E s \in ScopeId : TimeOut(s, ctx) \/ ScopeError(s, ctx)

LoopStep == RunAlone \/ RunPropagate \/ QuiesceEnds \/ TaskStep

Next == Snoopers \/ CancelTask \/ RunUntilComplete \/ QuiesceRaises \/ LoopStep

Spec == Init /\ [][Next]_vars /\ WF_vars(LoopStep) /\ SF_vars(RunAlone)
-----------------------------------------------------------------------------
Pending(op, n) == \E k \in 1..Len(alone) : alone[k] = Thunk(op, n)

(* The task receives the values in the order in which they were yielded;   *)
(* none is missing but those that were on their way to an await when it    *)
(* was cancelled, and none is still on its way without one.                *)
Flying == IF flight = 0 THEN <<>> ELSE <<flight>>
Rising(s) == \A i, j \in 1..Len(s) : i < j => s[i] < s[j]
Items(s) == {s[k] : k \in 1..Len(s)}
IteratorInOrder ==
    /\ Rising(got \o Flying \o queue)
    /\ Items(got \o Flying \o queue) = (1..yielded) \ lost
    /\ flight # 0 => pc = "await" /\ kind = "next" /\ (fut = "pending" => Pending("set", cur))

(* A callback that wait has registered is cancelled, once: it is there     *)
(* while the task waits, or until SIM_run_alone gets to its cancellation.  *)
HandlesOwned ==
    \A f \in Await :
      /\ Pending("stop", f) => handle[f] = "on" /\ stopped[f]
      /\ handle[f] = "on" => Pending("stop", f) \/ (pc = "await" /\ cur = f /\ kind = "wait" /\ ~stopped[f])

(* The exception with which a scope interrupts its block does not leave    *)
(* the scope, except for the two cases that Propagate names.               *)
CancelContained == pc = "done" => by \in {None, Foreign} \cup odd

(* A timeout that has cancelled the task interrupts its block: the task    *)
(* does not go on inside.  The comment of timeout says so of every block   *)
(* that does not finish in time.                                           *)
TimeoutInterrupts ==
    pc = "run" => \A k \in 1..Len(scopes) : ident[scopes[k]] = None

(* A snooper that has yielded for an await resumes the task. *)
Answered(f) == cur = f /\ pc = "await" /\ (fut # "pending" \/ Pending("set", f) \/ Pending("stop", f))
Delivered ==
    \A f \in Await : Answered(f) ~> (~Answered(f) \/ broken)
=============================================================================
