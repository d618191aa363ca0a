------------------------- MODULE ScriptBranchProofs -------------------------
(***************************************************************************)
(* What holds of the script branches for any number of branches, barriers, *)
(* pipes and objects.                                                      *)
(***************************************************************************)
EXTENDS ScriptBranch, FiniteSetTheorems, TLAPS

LEMMA WaitShape ==
    ASSUME NEW w \in Wait
    PROVE  /\ w.kind \in {"none", "barrier", "pipe", "main"} \cup Kind
           /\ w.kind = "none" <=> w = NoWait
           /\ w.kind = "barrier" <=> w.id \in Barrier
           /\ w.kind = "pipe" <=> w.id \in Pipe
           /\ w.id \in Id <=> w.kind \in Kind \cup {"main"}
           /\ w.obj \in Object \cup {NoObject}
<1>1. /\ 0 \notin Barrier /\ 0 \notin Pipe /\ 0 \notin Id /\ Barrier \cap Pipe = {}
      /\ Barrier \cap Id = {} /\ Pipe \cap Id = {}
  BY BranchAssumption DEF Id
<1>2. CASE w = NoWait
  BY <1>1, <1>2 DEF NoWait, Kind
<1>3. CASE w \in [kind : {"barrier"}, id : Barrier, obj : {NoObject}]
  BY <1>1, <1>3 DEF NoWait, Kind
<1>4. CASE w \in [kind : {"pipe"}, id : Pipe, obj : {NoObject}]
  BY <1>1, <1>4 DEF NoWait, Kind
<1>5. CASE w \in [kind : Kind \cup {"main"}, id : Id, obj : Object \cup {NoObject}]
  BY <1>1, <1>5 DEF NoWait, Kind
<1> QED
  BY <1>2, <1>3, <1>4, <1>5 DEF Wait
-----------------------------------------------------------------------------
(* The values that the variables have. *)
LEMMA TypeInit == Init => TypeOK
BY BranchAssumption DEF Init, TypeOK, Wait, NoWait, Id

LEMMA TypeSignal ==
    ASSUME TypeOK, NEW ids, Signal(ids)
    PROVE  woken' \subseteq Branch
BY DEF TypeOK, Signal, Signalled

LEMMA TypeLeave ==
    ASSUME TypeOK, NEW b \in Branch, Leave(b)
    PROVE  /\ running' \in Branch \cup {Main}
           /\ wait' \in [Branch -> Wait]
           /\ woken' \subseteq Branch
           /\ hooks' \subseteq [kind: Kind, id: Id, obj: Object \cup {NoObject}]
           /\ answers' \subseteq Id
           /\ objBranches' \in [Object -> SUBSET Branch]
<1>1. NoWait \in Wait
  BY DEF Wait
<1> QED
  BY <1>1 DEF TypeOK, Leave, OwnHooks

LEMMA TypeRaise ==
    ASSUME TypeOK, NEW b \in Branch, Raise(b), 
           deleting' \subseteq Object, todo' \subseteq Branch, deleted' \subseteq Object, late' \subseteq Id
    PROVE  TypeOK'
<1>1. lost' \in [Barrier -> Nat]
  BY DEF TypeOK, Raise
<1> QED
  BY <1>1, TypeLeave DEF TypeOK, Raise

LEMMA TypeNext == TypeOK /\ [Next]_vars => TypeOK'
<1> SUFFICES ASSUME TypeOK, [Next]_vars PROVE TypeOK'
  OBVIOUS
<1> USE BranchAssumption
<1>1. ASSUME NEW b \in Branch, Create(b) \/ Exit(b) PROVE TypeOK'
  BY <1>1 DEF TypeOK, Create, Exit, barrierVars, hookVars, mainVars, objectVars
<1>2. ASSUME NEW b \in Branch, Interrupt(b) PROVE TypeOK'
  <2>1. deleting' \subseteq Object /\ todo' \subseteq Branch /\ deleted' \subseteq Object /\ late' \subseteq Id
    BY <1>2 DEF TypeOK, Interrupt, objectVars
  <2> QED
    BY <1>2, <2>1, TypeRaise DEF Interrupt
<1>3. ASSUME NEW b \in Branch, InterruptNext(b) PROVE TypeOK'
  <2>1. deleting' \subseteq Object /\ todo' \subseteq Branch /\ deleted' \subseteq Object /\ late' \subseteq Id
    BY <1>3 DEF TypeOK, InterruptNext
  <2> QED
    BY <1>3, <2>1, TypeRaise DEF InterruptNext
<1>4. ASSUME NEW b \in Branch, Resume(b) PROVE TypeOK'
  <2>1. CASE FindsNothing(b)
    BY <1>4, <2>1 DEF TypeOK, Resume, barrierVars, hookVars, objectVars
  <2>2. CASE ~FindsNothing(b)
    <3>1. Leave(b) /\ hapData' = hapData \ {wait[b].id} 
          /\ data' = [p \in Pipe |-> IF p = wait[b].id THEN data[p] - 1 ELSE data[p]]
      BY <1>4, <2>2 DEF Resume
    <3>2. data' \in [Pipe -> Nat]
      <4> SUFFICES ASSUME NEW p \in Pipe, p = wait[b].id PROVE data[p] - 1 \in Nat
        BY <3>1 DEF TypeOK
      <4>1. wait[b] \in Wait /\ data[p] \in Nat
        BY DEF TypeOK
      <4>2. data[p] # 0
        BY <2>2, <4>1, WaitShape DEF FindsNothing
      <4> QED
        BY <4>1, <4>2
    <3> QED
      BY <1>4, <3>1, <3>2, TypeLeave DEF TypeOK, Resume, barrierVars, objectVars
  <2> QED
    BY <2>1, <2>2
<1>5. ASSUME NEW x \in Barrier, NEW l \in 0..MaxLimit, SetLimit(x, l) PROVE TypeOK'
  <2>1. limit' \in [Barrier -> 0..MaxLimit]
    BY <1>5 DEF TypeOK, SetLimit
  <2>2. count' \in [Barrier -> Nat] /\ lost' \in [Barrier -> Nat] /\ woken' \subseteq Branch
    BY <1>5, TypeSignal DEF TypeOK, SetLimit, ResetBarrier
  <2> QED
    BY <1>5, <2>1, <2>2 DEF TypeOK, SetLimit, hookVars, mainVars, objectVars
<1>6. ASSUME NEW b \in Branch, NEW x \in Barrier, LastAtBarrier(b, x) PROVE TypeOK'
  <2>1. count' \in [Barrier -> Nat] /\ lost' \in [Barrier -> Nat] /\ woken' \subseteq Branch
    BY <1>6, TypeSignal DEF TypeOK, LastAtBarrier, ResetBarrier
  <2> QED
    BY <1>6, <2>1 DEF TypeOK, LastAtBarrier, hookVars, mainVars, objectVars
<1>7. ASSUME NEW b \in Branch, NEW x \in Barrier, WaitBarrier(b, x) PROVE TypeOK'
  <2>1. [kind |-> "barrier", id |-> x, obj |-> NoObject] \in Wait
    BY DEF Wait
  <2>2. count' \in [Barrier -> Nat] /\ wait' \in [Branch -> Wait] /\ running' = Main
    BY <1>7, <2>1 DEF TypeOK, WaitBarrier, Enter, Suspend
  <2> QED
    BY <1>7, <2>2 DEF TypeOK, WaitBarrier, hookVars, mainVars, objectVars
<1>8. ASSUME NEW b \in Branch, NEW x \in Barrier, TooMany(b, x) PROVE TypeOK'
  BY <1>8 DEF TypeOK, TooMany, Enter, hookVars, mainVars, objectVars
<1>9. ASSUME NEW p \in Pipe, AddData(p) PROVE TypeOK'
  <2>1. data' \in [Pipe -> Nat] /\ woken' \subseteq Branch
    BY <1>9, TypeSignal DEF TypeOK, AddData
  <2> QED
    BY <1>9, <2>1 DEF TypeOK, AddData, barrierVars, hookVars, mainVars, objectVars
<1>10. ASSUME NEW b \in Branch, NEW p \in Pipe, ReadPipe(b, p) PROVE TypeOK'
  BY <1>10 DEF TypeOK, ReadPipe, barrierVars, hookVars, mainVars, objectVars
<1>11. ASSUME NEW b \in Branch, NEW p \in Pipe, WaitPipe(b, p) PROVE TypeOK'
  <2>1. [kind |-> "pipe", id |-> p, obj |-> NoObject] \in Wait
    BY DEF Wait
  <2>2. wait' \in [Branch -> Wait] /\ running' = Main
    BY <1>11, <2>1 DEF TypeOK, WaitPipe, Suspend
  <2> QED
    BY <1>11, <2>2 DEF TypeOK, WaitPipe, barrierVars, hookVars, mainVars, objectVars
<1>12. ASSUME NEW b \in Branch, NEW k \in Kind, NEW o \in Object \cup {NoObject}, WaitEvent(b, k, o) PROVE TypeOK'
  <2>1. [kind |-> k, id |-> nextId, obj |-> o] \in Wait /\ nextId \in Id
    BY <1>12 DEF WaitEvent, FreshId, Wait
  <2>2. wait' \in [Branch -> Wait] /\ running' = Main
    BY <1>12, <2>1 DEF TypeOK, WaitEvent, Suspend
  <2>3. hooks' \subseteq [kind: Kind, id: Id, obj: Object \cup {NoObject}] /\ late' \subseteq Id
    BY <1>12, <2>1 DEF TypeOK, WaitEvent
  <2>4. nextId' \in 1..MaxId + 1
    BY <1>12, <2>1 DEF TypeOK, WaitEvent, TakeId, Id
  <2>5. objBranches' \in [Object -> SUBSET Branch]
    BY <1>12 DEF TypeOK, WaitEvent
  <2> QED
    BY <1>12, <2>2, <2>3, <2>4, <2>5 DEF TypeOK, WaitEvent, barrierVars, mainVars
<1>13. ASSUME NEW b \in Branch, RunInMain(b) PROVE TypeOK'
  <2>1. [kind |-> "main", id |-> nextId, obj |-> NoObject] \in Wait /\ nextId \in Id
    BY <1>13 DEF RunInMain, FreshId, Wait
  <2>2. wait' \in [Branch -> Wait] /\ running' = Main
    BY <1>13, <2>1 DEF TypeOK, RunInMain, Suspend
  <2>3. nextId' \in 1..MaxId + 1
    BY <1>13, <2>1 DEF TypeOK, RunInMain, TakeId, Id
  <2> QED
    BY <1>13, <2>1, <2>2, <2>3 DEF TypeOK, RunInMain, barrierVars, hookVars, objectVars
<1>14. ASSUME NEW o \in Object \cup {NoObject}, HapOccurs(o) PROVE TypeOK'
  <2>1. hapData' \subseteq Id
    BY <1>14 DEF TypeOK, HapOccurs, About
  <2>2. woken' \subseteq Branch
    BY <1>14, TypeSignal DEF HapOccurs
  <2> QED
    BY <1>14, <2>1, <2>2 DEF TypeOK, HapOccurs, barrierVars, mainVars, objectVars
<1>n. ASSUME NEW o \in Object, NotifierOccurs(o) PROVE TypeOK'
  <2>1. woken' \subseteq Branch
    BY <1>n, TypeSignal DEF NotifierOccurs
  <2> QED
    BY <1>n, <2>1 DEF TypeOK, NotifierOccurs, barrierVars, hookVars, mainVars, objectVars
<1>15. ASSUME NEW k \in Kind, NEW o \in Object \cup {NoObject}, EventOccurs(k, o) PROVE TypeOK'
  <2>1. woken' \subseteq Branch
    BY <1>15, TypeSignal DEF EventOccurs
  <2> QED
    BY <1>15, <2>1 DEF TypeOK, EventOccurs, barrierVars, mainVars, objectVars
<1>16. ASSUME NEW i \in Id, RunFunction(i) PROVE TypeOK'
  <2>1. woken' \subseteq Branch
    BY <1>16, TypeSignal DEF RunFunction
  <2> QED
    BY <1>16, <2>1 DEF TypeOK, RunFunction, barrierVars, hookVars, objectVars
<1>17. ASSUME NEW o \in Object, DeleteObject(o) \/ ObjectGone(o) PROVE TypeOK'
  BY <1>17 DEF TypeOK, DeleteObject, ObjectGone, barrierVars, hookVars, mainVars, objectVars
<1>18. CASE UNCHANGED vars
  BY <1>18 DEF TypeOK, vars, barrierVars, hookVars, mainVars, objectVars
<1> QED
  BY <1>1, <1>2, <1>3, <1>4, <1>5, <1>6, <1>7, <1>8, <1>9, <1>10, <1>11, <1>12, <1>13, <1>14,
     <1>n, <1>15, <1>16, <1>17, <1>18
  DEF Next, Command, WaitHap, WaitNotifier, WaitLog, WaitTime, LogWritten, TimeReached, Kind

(* The variables have their types in every reachable state; in particular  *)
(* no reader ever takes from an empty pipe (wait-for-script-pipe).         *)
THEOREM TypeCorrect == Spec => []TypeOK
BY TypeInit, TypeNext, PTL DEF Spec
-----------------------------------------------------------------------------
(* What is true of a branch that is suspended, and of one that runs. *)
Suspension ==
    /\ running \in Branch => running \in alive /\ wait[running] = NoWait
    /\ \A b \in Branch : wait[b] # NoWait => b \in alive
    /\ \A b \in woken \cup todo : wait[b] # NoWait
    /\ deleting = {} => todo = {}
    /\ \A o \in Object : \A b \in objBranches[o] : wait[b].kind = "hap" /\ wait[b].obj = o

LEMMA NoWaitShape == NoWait.kind = "none" /\ NoWait.id = 0 /\ NoWait.id \notin Id
                     /\ NoWait.id \notin Barrier /\ NoWait.id \notin Pipe
BY BranchAssumption DEF NoWait, Id

LEMMA SignalOnlySuspended ==
    ASSUME TypeOK, Suspension, NEW ids, Signal(ids)
    PROVE  \A b \in woken' : b \in Branch /\ wait[b] # NoWait
BY DEF TypeOK, Suspension, Signal, Signalled

(* A wait that begins is that of the running branch. *)
LEMMA SuspendOne ==
    ASSUME TypeOK, Suspension, NEW b \in Branch, running = b, NEW w, w # NoWait, Suspend(b, w)
    PROVE  /\ b \notin woken \cup todo
           /\ wait[b] = NoWait /\ b \in alive /\ running' = Main
           /\ \A c \in Branch : wait'[c] = IF c = b THEN w ELSE wait[c]
           /\ \A o \in Object : b \notin objBranches[o]
BY NoWaitShape DEF TypeOK, Suspension, Suspend

LEMMA LeaveOne ==
    ASSUME TypeOK, NEW b \in Branch, Leave(b)
    PROVE  /\ running' = b
           /\ \A c \in Branch : wait'[c] = IF c = b THEN NoWait ELSE wait[c]
           /\ woken' = woken \ {b}
           /\ \A o \in Object : objBranches'[o] = IF wait[b].kind = "hap" /\ wait[b].obj = o
                                                    THEN objBranches[o] \ {b} ELSE objBranches[o]
BY DEF TypeOK, Leave

LEMMA SuspensionLeave ==
    ASSUME TypeOK, Suspension, NEW b \in Branch, Leave(b), wait[b] # NoWait,
           alive' = alive, deleting' = deleting, todo' = todo \ {b}
    PROVE  Suspension'
<1>1. b \in alive
  BY DEF Suspension
<1>2. \A c \in Branch : wait'[c] # NoWait => c \in alive'
  BY LeaveOne DEF Suspension
<1>3. \A c \in woken' \cup todo' : wait'[c] # NoWait
  <2> SUFFICES ASSUME NEW c \in woken' \cup todo' PROVE wait'[c] # NoWait
    OBVIOUS
  <2>1. c \in Branch /\ c # b /\ wait[c] # NoWait
    BY LeaveOne DEF TypeOK, Suspension
  <2> QED
    BY <2>1, LeaveOne
<1>4. \A o \in Object : \A c \in objBranches'[o] : wait'[c].kind = "hap" /\ wait'[c].obj = o
  <2> SUFFICES ASSUME NEW o \in Object, NEW c \in objBranches'[o] PROVE wait'[c].kind = "hap" /\ wait'[c].obj = o
    OBVIOUS
  <2>1. c \in objBranches[o] /\ c \in Branch
    BY LeaveOne, ZenonT(60) DEF TypeOK
  <2>2. wait[c].kind = "hap" /\ wait[c].obj = o
    BY <2>1 DEF Suspension
  <2>3. c # b
    BY <2>2, LeaveOne, ZenonT(60)
  <2> QED
    BY <2>1, <2>2, <2>3, LeaveOne
<1>5. wait'[b] = NoWait /\ running' = b
  BY LeaveOne
<1> QED
  BY <1>1, <1>2, <1>3, <1>4, <1>5 DEF Suspension

LEMMA SuspensionSuspend ==
    ASSUME TypeOK, Suspension, NEW b \in Branch, running = b, NEW w, w # NoWait, Suspend(b, w),
           UNCHANGED <<alive, woken, todo, deleting>>, 
           \/ UNCHANGED objBranches
           \/ \A o \in Object : objBranches'[o] \in {objBranches[o], IF w.kind = "hap" /\ w.obj = o THEN objBranches[o] \cup {b} ELSE {}}
    PROVE  Suspension'
BY SuspendOne, BranchAssumption DEF TypeOK, Suspension

LEMMA SuspensionSame ==
    ASSUME TypeOK, TypeOK', Suspension, UNCHANGED <<wait, running, alive, todo, deleting, objBranches>>,
           \A b \in woken' : b \in woken \/ wait[b] # NoWait
    PROVE  Suspension'
BY DEF TypeOK, Suspension

LEMMA SuspensionNext == TypeOK /\ TypeOK' /\ Suspension /\ [Next]_vars => Suspension'
<1> SUFFICES ASSUME TypeOK, TypeOK', Suspension, [Next]_vars PROVE Suspension'
  OBVIOUS
<1>1. ASSUME NEW b \in Branch, Create(b) PROVE Suspension'
  BY <1>1 DEF TypeOK, Suspension, Create, hookVars, objectVars
<1>2. ASSUME NEW b \in Branch, Exit(b) PROVE Suspension'
  BY <1>2, BranchAssumption DEF TypeOK, Suspension, Exit, hookVars, objectVars
<1>3. ASSUME NEW b \in Branch, Interrupt(b) PROVE Suspension'
  <2>1. todo' = todo \ {b} /\ deleting' = deleting /\ alive' = alive
    BY <1>3 DEF Interrupt, Raise, MainFree, Suspension, objectVars
  <2> QED
    BY <1>3, <2>1, SuspensionLeave DEF Interrupt, Raise
<1>4. ASSUME NEW b \in Branch, InterruptNext(b) PROVE Suspension'
  <2>1. wait[b] # NoWait
    BY <1>4 DEF InterruptNext, Suspension
  <2> QED
    BY <1>4, <2>1, SuspensionLeave DEF InterruptNext, Raise
<1>5. ASSUME NEW b \in Branch, Resume(b) PROVE Suspension'
  <2>1. CASE FindsNothing(b)
    BY <1>5, <2>1, SuspensionSame DEF Resume, hookVars, objectVars
  <2>2. CASE ~FindsNothing(b)
    <3>1. Leave(b) /\ wait[b] # NoWait /\ alive' = alive /\ deleting' = deleting /\ todo' = todo \ {b}
      BY <1>5, <2>2 DEF Resume, Suspension, objectVars, MainFree
    <3> QED
      BY <3>1, SuspensionLeave
  <2> QED
    BY <2>1, <2>2
<1>6. ASSUME NEW x \in Barrier, NEW l \in 0..MaxLimit, SetLimit(x, l) PROVE Suspension'
  BY <1>6, SuspensionSame, SignalOnlySuspended DEF SetLimit, ResetBarrier, hookVars, objectVars
<1>7. ASSUME NEW b \in Branch, NEW x \in Barrier, LastAtBarrier(b, x) PROVE Suspension'
  BY <1>7, SuspensionSame, SignalOnlySuspended DEF LastAtBarrier, ResetBarrier, hookVars, objectVars
<1>8. ASSUME NEW b \in Branch, NEW x \in Barrier, WaitBarrier(b, x) PROVE Suspension'
  <2>1. [kind |-> "barrier", id |-> x, obj |-> NoObject] # NoWait
    BY DEF NoWait
  <2> QED
    BY <1>8, <2>1, SuspensionSuspend DEF WaitBarrier, hookVars, objectVars
<1>9. ASSUME NEW b \in Branch, NEW x \in Barrier, TooMany(b, x) PROVE Suspension'
  BY <1>9, SuspensionSame DEF TooMany, hookVars, objectVars
<1>10. ASSUME NEW p \in Pipe, AddData(p) PROVE Suspension'
  BY <1>10, SuspensionSame, SignalOnlySuspended DEF AddData, hookVars, objectVars
<1>11. ASSUME NEW b \in Branch, NEW p \in Pipe, ReadPipe(b, p) PROVE Suspension'
  BY <1>11, SuspensionSame DEF ReadPipe, hookVars, objectVars
<1>12. ASSUME NEW b \in Branch, NEW p \in Pipe, WaitPipe(b, p) PROVE Suspension'
  <2>1. [kind |-> "pipe", id |-> p, obj |-> NoObject] # NoWait
    BY DEF NoWait
  <2> QED
    BY <1>12, <2>1, SuspensionSuspend DEF WaitPipe, hookVars, objectVars
<1>13. ASSUME NEW b \in Branch, NEW k \in Kind, NEW o \in Object \cup {NoObject}, WaitEvent(b, k, o) PROVE Suspension'
  <2> DEFINE w == [kind |-> k, id |-> nextId, obj |-> o]
  <2>1. w # NoWait
    BY DEF NoWait, Kind
  <2>2. \A p \in Object : objBranches'[p] \in {objBranches[p], IF w.kind = "hap" /\ w.obj = p THEN objBranches[p] \cup {b} ELSE {}}
    BY <1>13 DEF WaitEvent
  <2>3. running = b /\ Suspend(b, w) /\ UNCHANGED <<alive, woken, todo, deleting>>
    BY <1>13 DEF WaitEvent
  <2> HIDE DEF w
  <2> QED
    BY <2>1, <2>2, <2>3, SuspensionSuspend
<1>14. ASSUME NEW b \in Branch, RunInMain(b) PROVE Suspension'
  <2>1. [kind |-> "main", id |-> nextId, obj |-> NoObject] # NoWait
    BY DEF NoWait
  <2> QED
    BY <1>14, <2>1, SuspensionSuspend DEF RunInMain, hookVars, objectVars
<1>15. ASSUME NEW o \in Object \cup {NoObject}, HapOccurs(o) PROVE Suspension'
  BY <1>15, SuspensionSame, SignalOnlySuspended DEF HapOccurs, objectVars
<1>n. ASSUME NEW o \in Object, NotifierOccurs(o) PROVE Suspension'
  BY <1>n, SuspensionSame, SignalOnlySuspended DEF NotifierOccurs, hookVars, objectVars
<1>16. ASSUME NEW k \in Kind, NEW o \in Object \cup {NoObject}, EventOccurs(k, o) PROVE Suspension'
  BY <1>16, SuspensionSame, SignalOnlySuspended DEF EventOccurs, objectVars
<1>17. ASSUME NEW i \in Id, RunFunction(i) PROVE Suspension'
  BY <1>17, SuspensionSame, SignalOnlySuspended DEF RunFunction, hookVars, objectVars
<1>18. ASSUME NEW o \in Object, DeleteObject(o) PROVE Suspension'
  BY <1>18, NoWaitShape DEF TypeOK, Suspension, DeleteObject, hookVars
<1>19. ASSUME NEW o \in Object, ObjectGone(o) PROVE Suspension'
  BY <1>19 DEF TypeOK, Suspension, ObjectGone
<1>20. CASE UNCHANGED vars
  BY <1>20, SuspensionSame DEF vars, hookVars, objectVars
<1> QED
  BY <1>1, <1>2, <1>3, <1>4, <1>5, <1>6, <1>7, <1>8, <1>9, <1>10, <1>11, <1>12, <1>13, <1>14,
     <1>n, <1>15, <1>16, <1>17, <1>18, <1>19, <1>20
  DEF Next, Command, WaitHap, WaitNotifier, WaitLog, WaitTime, LogWritten, TimeReached, Kind

LEMMA SuspensionAlways == Spec => [](TypeOK /\ Suspension)
<1>1. Init => Suspension
  BY BranchAssumption DEF Init, Suspension
<1> QED
  BY <1>1, TypeInit, TypeNext, SuspensionNext, PTL DEF Spec
-----------------------------------------------------------------------------
(* Readers of pipes.  Leaving a wait, or entering one that is not for a    *)
(* pipe, forgets nobody.                                                   *)
LEMMA ReadersKept ==
    ASSUME TypeOK, NoReaderForgotten, data' = data,
           \A c \in Branch : wait'[c].kind = "pipe" /\ c \notin woken' => wait'[c] = wait[c] /\ c \notin woken
    PROVE  NoReaderForgotten'
BY DEF NoReaderForgotten

LEMMA ReadersSuspend ==
    ASSUME TypeOK, Suspension, NoReaderForgotten, data' = data, woken' = woken,
           NEW b \in Branch, running = b, NEW w, w # NoWait, w.kind # "pipe", Suspend(b, w)
    PROVE  NoReaderForgotten'
BY SuspendOne, ReadersKept

LEMMA ReadersLeave ==
    ASSUME TypeOK, NoReaderForgotten, data' = data, NEW b \in Branch, Leave(b)
    PROVE  NoReaderForgotten'
BY LeaveOne, NoWaitShape, ReadersKept

LEMMA ReadersSignal ==
    ASSUME TypeOK, NoReaderForgotten, data' = data, wait' = wait, NEW ids, Signal(ids)
    PROVE  NoReaderForgotten'
BY ReadersKept DEF Signal

LEMMA ReadersNext == TypeOK /\ Suspension /\ NoReaderForgotten /\ [Next]_vars => NoReaderForgotten'
<1> SUFFICES ASSUME TypeOK, Suspension, NoReaderForgotten, [Next]_vars PROVE NoReaderForgotten'
  OBVIOUS
<1>1. ASSUME NEW b \in Branch, Create(b) \/ Exit(b) PROVE NoReaderForgotten'
  BY <1>1, ReadersKept DEF Create, Exit
<1>2. ASSUME NEW b \in Branch, Interrupt(b) \/ InterruptNext(b) PROVE NoReaderForgotten'
  BY <1>2, ReadersLeave DEF Interrupt, InterruptNext, Raise
<1>3. ASSUME NEW b \in Branch, Resume(b) PROVE NoReaderForgotten'
  <2>1. CASE FindsNothing(b)
    <3>1. data' = data /\ wait' = wait /\ woken' = woken \ {b}
      BY <1>3, <2>1 DEF Resume
    <3> QED
      BY <2>1, <3>1 DEF NoReaderForgotten, FindsNothing
  <2>2. CASE ~FindsNothing(b)
    <3> SUFFICES ASSUME NEW c \in Branch, wait'[c].kind = "pipe", c \notin woken' PROVE data'[wait'[c].id] = 0
      BY DEF NoReaderForgotten
    <3>1. Leave(b) /\ b \in woken /\ data' = [p \in Pipe |-> IF p = wait[b].id THEN data[p] - 1 ELSE data[p]]
      BY <1>3, <2>2 DEF Resume
    <3>2. c # b /\ wait'[c] = wait[c] /\ c \notin woken
      BY <3>1, LeaveOne, NoWaitShape
    <3>3. data[wait[c].id] = 0 /\ wait[c].id \in Pipe
      BY <3>2, WaitShape DEF NoReaderForgotten, TypeOK
    <3>4. wait[b].id # wait[c].id
      BY <2>2, <3>3, WaitShape DEF FindsNothing, TypeOK
    <3> QED
      BY <3>1, <3>2, <3>3, <3>4
  <2> QED
    BY <2>1, <2>2
<1>4. ASSUME NEW x \in Barrier, NEW l \in 0..MaxLimit, SetLimit(x, l) PROVE NoReaderForgotten'
  BY <1>4, ReadersSignal, ReadersKept DEF SetLimit, ResetBarrier
<1>5. ASSUME NEW b \in Branch, NEW x \in Barrier, LastAtBarrier(b, x) \/ TooMany(b, x) PROVE NoReaderForgotten'
  BY <1>5, ReadersSignal, ReadersKept DEF LastAtBarrier, TooMany, ResetBarrier
<1>6. ASSUME NEW b \in Branch, NEW x \in Barrier, WaitBarrier(b, x) PROVE NoReaderForgotten'
  <2>1. [kind |-> "barrier", id |-> x, obj |-> NoObject] # NoWait
    BY DEF NoWait
  <2> QED
    BY <1>6, <2>1, ReadersSuspend DEF WaitBarrier
<1>7. ASSUME NEW p \in Pipe, AddData(p) PROVE NoReaderForgotten'
  <2> SUFFICES ASSUME NEW c \in Branch, wait[c].kind = "pipe", c \notin woken' PROVE data'[wait[c].id] = 0
    BY <1>7 DEF AddData, NoReaderForgotten
  <2>1. wait[c] # NoWait /\ wait[c].id \in Pipe /\ c \notin woken
    BY <1>7, WaitShape, NoWaitShape DEF AddData, Signal, TypeOK
  <2>2. wait[c].id # p
    BY <1>7, <2>1 DEF AddData, Signal, Signalled
  <2> QED
    BY <1>7, <2>1, <2>2 DEF AddData, NoReaderForgotten, TypeOK
<1>8. ASSUME NEW b \in Branch, NEW p \in Pipe, ReadPipe(b, p) PROVE NoReaderForgotten'
  <2> SUFFICES ASSUME NEW c \in Branch, wait[c].kind = "pipe", c \notin woken PROVE data'[wait[c].id] = 0
    BY <1>8 DEF ReadPipe, NoReaderForgotten
  <2>1. wait[c].id \in Pipe /\ data[wait[c].id] = 0
    BY WaitShape DEF TypeOK, NoReaderForgotten
  <2> QED
    BY <1>8, <2>1 DEF ReadPipe, TypeOK
<1>9. ASSUME NEW b \in Branch, NEW p \in Pipe, WaitPipe(b, p) PROVE NoReaderForgotten'
  <2>1. [kind |-> "pipe", id |-> p, obj |-> NoObject] # NoWait
    BY DEF NoWait
  <2> QED
    BY <1>9, <2>1, SuspendOne DEF WaitPipe, NoReaderForgotten
<1>10. ASSUME NEW b \in Branch, NEW k \in Kind, NEW o \in Object \cup {NoObject}, WaitEvent(b, k, o)
       PROVE  NoReaderForgotten'
  <2>1. [kind |-> k, id |-> nextId, obj |-> o] # NoWait /\ k # "pipe"
    BY DEF NoWait, Kind
  <2> QED
    BY <1>10, <2>1, ReadersSuspend DEF WaitEvent
<1>11. ASSUME NEW b \in Branch, RunInMain(b) PROVE NoReaderForgotten'
  <2>1. [kind |-> "main", id |-> nextId, obj |-> NoObject] # NoWait
    BY DEF NoWait
  <2> QED
    BY <1>11, <2>1, ReadersSuspend DEF RunInMain
<1>12. ASSUME NEW o \in Object \cup {NoObject}, HapOccurs(o) PROVE NoReaderForgotten'
  BY <1>12, ReadersSignal DEF HapOccurs
<1>n. ASSUME NEW o \in Object, NotifierOccurs(o) PROVE NoReaderForgotten'
  BY <1>n, ReadersSignal DEF NotifierOccurs
<1>13. ASSUME NEW k \in Kind, NEW o \in Object \cup {NoObject}, EventOccurs(k, o) PROVE NoReaderForgotten'
  BY <1>13, ReadersSignal DEF EventOccurs
<1>14. ASSUME NEW i \in Id, RunFunction(i) PROVE NoReaderForgotten'
  BY <1>14, ReadersSignal DEF RunFunction
<1>15. ASSUME NEW o \in Object, DeleteObject(o) \/ ObjectGone(o) PROVE NoReaderForgotten'
  BY <1>15, ReadersKept DEF DeleteObject, ObjectGone
<1>16. CASE UNCHANGED vars
  BY <1>16, ReadersKept DEF vars
<1> QED
  BY <1>1, <1>2, <1>3, <1>4, <1>5, <1>6, <1>7, <1>8, <1>9, <1>10, <1>11, <1>12, <1>13, <1>14,
     <1>n, <1>15, <1>16
  DEF Next, Command, WaitHap, WaitNotifier, WaitLog, WaitTime, LogWritten, TimeReached, Kind

(* No branch sleeps in wait-for-script-pipe while its pipe has data.       *)
THEOREM ReadersServed == Spec => []NoReaderForgotten
<1>1. Init => NoReaderForgotten
  BY NoWaitShape DEF Init, NoReaderForgotten
<1> QED
  BY <1>1, SuspensionAlways, ReadersNext, PTL DEF Spec
-----------------------------------------------------------------------------
(* Barriers.  The branches at a barrier are finitely many. *)
LEMMA AtBarrierFinite ==
    ASSUME NEW x, NEW S, S \subseteq Branch
    PROVE  IsFiniteSet(S) /\ Cardinality(S) \in Nat
BY BranchAssumption, FS_Subset, FS_CardinalityType

ExactAt(x) ==
    /\ count[x] = Cardinality(AtBarrier(x)) + lost[x]
    /\ AtBarrier(x) # {} => count[x] # limit[x]

LEMMA BarriersKept ==
    ASSUME BarrierExact, UNCHANGED barrierVars,
           \A c \in Branch : \A x \in Barrier :
             (wait'[c].id = x /\ c \notin woken') <=> (wait[c].id = x /\ c \notin woken)
    PROVE  BarrierExact'
<1> SUFFICES ASSUME NEW x \in Barrier PROVE ExactAt(x)'
  BY DEF BarrierExact, ExactAt
<1>1. AtBarrier(x)' = AtBarrier(x)
  BY DEF AtBarrier
<1> QED
  BY <1>1 DEF BarrierExact, ExactAt, barrierVars

LEMMA BarriersSuspend ==
    ASSUME TypeOK, Suspension, BarrierExact, UNCHANGED barrierVars, woken' = woken,
           NEW b \in Branch, running = b, NEW w, w # NoWait, w.id \notin Barrier, Suspend(b, w)
    PROVE  BarrierExact'
BY SuspendOne, NoWaitShape, BarriersKept

(* A signal that is not for a barrier. *)
LEMMA BarriersSignal ==
    ASSUME BarrierExact, UNCHANGED <<barrierVars, wait>>, NEW ids, ids \cap Barrier = {}, Signal(ids)
    PROVE  BarrierExact'
BY BarriersKept DEF Signal, Signalled

LEMMA HookIds ==
    ASSUME TypeOK, NEW S, S \subseteq hooks
    PROVE  {h.id : h \in S} \cap Barrier = {}
BY BranchAssumption DEF TypeOK, Id

LEMMA BarriersReset ==
    ASSUME TypeOK, BarrierExact, NEW x \in Barrier, ResetBarrier(x), wait' = wait,
           \A y \in Barrier \ {x} : limit'[y] = limit[y]
    PROVE  BarrierExact'
<1> SUFFICES ASSUME NEW y \in Barrier PROVE ExactAt(y)'
  BY DEF BarrierExact, ExactAt
<1>1. CASE y = x
  <2>1. AtBarrier(y)' = {}
    BY <1>1, NoWaitShape DEF AtBarrier, ResetBarrier, Signal, Signalled
  <2> QED
    BY <1>1, <2>1, FS_EmptySet DEF ResetBarrier, ExactAt, TypeOK
<1>2. CASE y # x
  <2>1. AtBarrier(y)' = AtBarrier(y)
    BY <1>2 DEF AtBarrier, ResetBarrier, Signal, Signalled
  <2> QED
    BY <1>2, <2>1 DEF ResetBarrier, ExactAt, BarrierExact, TypeOK
<1> QED
  BY <1>1, <1>2

LEMMA BarriersRaise ==
    ASSUME TypeOK, BarrierExact, NEW b \in Branch, Raise(b)
    PROVE  BarrierExact'
<1> SUFFICES ASSUME NEW y \in Barrier PROVE ExactAt(y)'
  BY DEF BarrierExact, ExactAt
<1>1. /\ \A c \in Branch : wait'[c] = IF c = b THEN NoWait ELSE wait[c]
      /\ woken' = woken \ {b}
  BY LeaveOne DEF Raise
<1>2. AtBarrier(y)' = AtBarrier(y) \ {b}
  BY <1>1, NoWaitShape DEF AtBarrier
<1>3. lost'[y] = IF b \in AtBarrier(y) THEN lost[y] + 1 ELSE lost[y]
  BY DEF Raise, AtBarrier
<1>4. IsFiniteSet(AtBarrier(y))
  BY AtBarrierFinite DEF AtBarrier
<1>5. Cardinality(AtBarrier(y)) \in Nat /\ lost[y] \in Nat /\ count[y] \in Nat
  BY <1>4, FS_CardinalityType DEF TypeOK
<1>6. CASE b \in AtBarrier(y)
  <2>1. Cardinality(AtBarrier(y) \ {b}) = Cardinality(AtBarrier(y)) - 1
    BY <1>4, <1>6, FS_RemoveElement
  <2> QED
    BY <1>2, <1>3, <1>5, <1>6, <2>1 DEF ExactAt, BarrierExact, Raise
<1>7. CASE b \notin AtBarrier(y)
  <2>1. AtBarrier(y) \ {b} = AtBarrier(y)
    BY <1>7
  <2> QED
    BY <1>2, <1>3, <1>5, <1>7, <2>1 DEF ExactAt, BarrierExact, Raise
<1> QED
  BY <1>6, <1>7

LEMMA BarriersNext == TypeOK /\ Suspension /\ BarrierExact /\ [Next]_vars => BarrierExact'
<1> SUFFICES ASSUME TypeOK, Suspension, BarrierExact, [Next]_vars PROVE BarrierExact'
  OBVIOUS
<1>1. ASSUME NEW b \in Branch, Create(b) \/ Exit(b) PROVE BarrierExact'
  BY <1>1, BarriersKept DEF Create, Exit
<1>2. ASSUME NEW b \in Branch, Interrupt(b) \/ InterruptNext(b) PROVE BarrierExact'
  BY <1>2, BarriersRaise DEF Interrupt, InterruptNext
<1>3. ASSUME NEW b \in Branch, Resume(b) PROVE BarrierExact'
  <2>1. CASE FindsNothing(b)
    <3>1. wait[b].id \notin Barrier
      BY <2>1, WaitShape DEF FindsNothing, TypeOK
    <3>2. wait' = wait /\ woken' = woken \ {b} /\ UNCHANGED barrierVars
      BY <1>3, <2>1 DEF Resume
    <3> QED
      BY <3>1, <3>2, BarriersKept
  <2>2. CASE ~FindsNothing(b)
    <3>1. b \in woken /\ Leave(b) /\ UNCHANGED barrierVars
      BY <1>3, <2>2 DEF Resume
    <3> QED
      BY <3>1, LeaveOne, NoWaitShape, BarriersKept
  <2> QED
    BY <2>1, <2>2
<1>4. ASSUME NEW x \in Barrier, NEW l \in 0..MaxLimit, SetLimit(x, l) PROVE BarrierExact'
  <2>1. CASE count[x] = l
    <3>1. \A y \in Barrier \ {x} : limit'[y] = limit[y]
      BY <1>4 DEF SetLimit, TypeOK
    <3> QED
      BY <1>4, <2>1, <3>1, BarriersReset DEF SetLimit
  <2>2. CASE count[x] # l
    <3> SUFFICES ASSUME NEW y \in Barrier PROVE ExactAt(y)'
      BY DEF BarrierExact, ExactAt
    <3>1. AtBarrier(y)' = AtBarrier(y)
      BY <1>4, <2>2 DEF AtBarrier, SetLimit
    <3> QED
      BY <1>4, <2>2, <3>1 DEF SetLimit, ExactAt, BarrierExact, TypeOK
  <2> QED
    BY <2>1, <2>2
<1>5. ASSUME NEW b \in Branch, NEW x \in Barrier, LastAtBarrier(b, x) PROVE BarrierExact'
  BY <1>5, BarriersReset DEF LastAtBarrier
<1>6. ASSUME NEW b \in Branch, NEW x \in Barrier, WaitBarrier(b, x) PROVE BarrierExact'
  <2> DEFINE w == [kind |-> "barrier", id |-> x, obj |-> NoObject]
  <2>1. w # NoWait /\ w.id = x
    BY DEF NoWait
  <2>2. running = b /\ Suspend(b, w)
    BY <1>6 DEF WaitBarrier
  <2> HIDE DEF w
  <2>3. /\ b \notin woken /\ wait[b] = NoWait
        /\ \A c \in Branch : wait'[c] = IF c = b THEN w ELSE wait[c]
    BY <2>1, <2>2, SuspendOne
  <2>4. /\ woken' = woken /\ lost' = lost /\ limit' = limit /\ count[x] + 1 < limit[x]
        /\ count' = [count EXCEPT ![x] = @ + 1]
    BY <1>6 DEF WaitBarrier, Enter
  <2> SUFFICES ASSUME NEW y \in Barrier PROVE ExactAt(y)'
    BY DEF BarrierExact, ExactAt
  <2>5. CASE y = x
    <3>1. AtBarrier(x)' = AtBarrier(x) \cup {b} /\ b \notin AtBarrier(x)
      BY <2>1, <2>3, <2>4, NoWaitShape DEF AtBarrier
    <3>2. IsFiniteSet(AtBarrier(x)) /\ Cardinality(AtBarrier(x)) \in Nat
      BY AtBarrierFinite DEF AtBarrier
    <3>3. Cardinality(AtBarrier(x)') = Cardinality(AtBarrier(x)) + 1
      BY <3>1, <3>2, FS_AddElement
    <3>4. count[x] = Cardinality(AtBarrier(x)) + lost[x] /\ count[x] \in Nat /\ lost[x] \in Nat /\ limit[x] \in Int
      BY DEF BarrierExact, TypeOK
    <3>5. count'[x] = count[x] + 1
      BY <2>4 DEF TypeOK
    <3> QED
      BY <2>4, <2>5, <3>2, <3>3, <3>4, <3>5 DEF ExactAt
  <2>6. CASE y # x
    <3>1. AtBarrier(y)' = AtBarrier(y)
      BY <2>1, <2>3, <2>4, <2>6, NoWaitShape DEF AtBarrier
    <3> QED
      BY <2>4, <2>6, <3>1 DEF ExactAt, BarrierExact, TypeOK
  <2> QED
    BY <2>5, <2>6
<1>7. ASSUME NEW b \in Branch, NEW x \in Barrier, TooMany(b, x) PROVE BarrierExact'
  <2> SUFFICES ASSUME NEW y \in Barrier PROVE ExactAt(y)'
    BY DEF BarrierExact, ExactAt
  <2>1. AtBarrier(y)' = AtBarrier(y)
    BY <1>7 DEF AtBarrier, TooMany
  <2>2. Cardinality(AtBarrier(y)) \in Nat /\ count[y] \in Nat /\ lost[y] \in Nat /\ limit[y] \in Int
    BY AtBarrierFinite DEF AtBarrier, TypeOK
  <2> QED
    BY <1>7, <2>1, <2>2 DEF TooMany, Enter, ExactAt, BarrierExact, TypeOK
<1>8. ASSUME NEW p \in Pipe, AddData(p) PROVE BarrierExact'
  <2>1. {p} \cap Barrier = {}
    BY BranchAssumption
  <2> QED
    BY <1>8, <2>1, BarriersSignal DEF AddData
<1>9. ASSUME NEW b \in Branch, NEW p \in Pipe, ReadPipe(b, p) PROVE BarrierExact'
  BY <1>9, BarriersKept DEF ReadPipe
<1>10. ASSUME NEW b \in Branch, NEW p \in Pipe, WaitPipe(b, p) PROVE BarrierExact'
  <2>1. [kind |-> "pipe", id |-> p, obj |-> NoObject] # NoWait /\ p \notin Barrier
    BY BranchAssumption DEF NoWait
  <2> QED
    BY <1>10, <2>1, BarriersSuspend DEF WaitPipe
<1>11. ASSUME NEW b \in Branch, NEW k \in Kind, NEW o \in Object \cup {NoObject}, WaitEvent(b, k, o)
       PROVE  BarrierExact'
  <2>1. [kind |-> k, id |-> nextId, obj |-> o] # NoWait /\ nextId \notin Barrier
    BY BranchAssumption DEF NoWait, Kind, TypeOK
  <2> QED
    BY <1>11, <2>1, BarriersSuspend DEF WaitEvent
<1>12. ASSUME NEW b \in Branch, RunInMain(b) PROVE BarrierExact'
  <2>1. [kind |-> "main", id |-> nextId, obj |-> NoObject] # NoWait /\ nextId \notin Barrier
    BY BranchAssumption DEF NoWait, TypeOK
  <2> QED
    BY <1>12, <2>1, BarriersSuspend DEF RunInMain
<1>13. ASSUME NEW o \in Object \cup {NoObject}, HapOccurs(o) PROVE BarrierExact'
  <2>1. About("hap", o) \subseteq hooks
    BY DEF About
  <2> QED
    BY <1>13, <2>1, HookIds, BarriersSignal DEF HapOccurs
<1>n. ASSUME NEW o \in Object, NotifierOccurs(o) PROVE BarrierExact'
  <2>1. About("notifier", o) \subseteq hooks
    BY DEF About
  <2> QED
    BY <1>n, <2>1, HookIds, BarriersSignal DEF NotifierOccurs
<1>14. ASSUME NEW k \in Kind, NEW o \in Object \cup {NoObject}, EventOccurs(k, o) PROVE BarrierExact'
  <2>1. About(k, o) \subseteq hooks
    BY DEF About
  <2> QED
    BY <1>14, <2>1, HookIds, BarriersSignal DEF EventOccurs
<1>15. ASSUME NEW i \in Id, RunFunction(i) PROVE BarrierExact'
  <2>1. {i} \cap Barrier = {}
    BY BranchAssumption DEF Id
  <2> QED
    BY <1>15, <2>1, BarriersSignal DEF RunFunction
<1>16. ASSUME NEW o \in Object, DeleteObject(o) \/ ObjectGone(o) PROVE BarrierExact'
  BY <1>16, BarriersKept DEF DeleteObject, ObjectGone
<1>17. CASE UNCHANGED vars
  BY <1>17, BarriersKept DEF vars
<1> QED
  BY <1>1, <1>2, <1>3, <1>4, <1>5, <1>6, <1>7, <1>8, <1>9, <1>10, <1>11, <1>12, <1>13, <1>14,
     <1>n, <1>15, <1>16, <1>17
  DEF Next, Command, WaitHap, WaitNotifier, WaitLog, WaitTime, LogWritten, TimeReached, Kind

(* The count of a script barrier is explained by the branches at it, and   *)
(* no branch is left at a barrier that is full.                            *)
THEOREM BarriersOpen == Spec => []BarrierExact
<1>1. Init => BarrierExact
  <2> SUFFICES ASSUME Init, NEW x \in Barrier PROVE ExactAt(x)
    BY DEF BarrierExact, ExactAt
  <2>1. AtBarrier(x) = {}
    BY NoWaitShape DEF Init, AtBarrier
  <2> QED
    BY <2>1, FS_EmptySet DEF Init, ExactAt
<1> QED
  BY <1>1, SuspensionAlways, BarriersNext, PTL DEF Spec
-----------------------------------------------------------------------------
(* Identifiers are not reused: every one in sight was taken, a wait has    *)
(* its own, and what is left of an interrupted wait is of the same kind.   *)
OwnWait(b) == wait[b].id \in Id
Identifiers ==
    /\ \A b \in Branch : OwnWait(b) => wait[b].id < nextId
    /\ \A h \in hooks : h.id < nextId
    /\ \A i \in toRun \cup answers \cup late : i < nextId
    /\ \A b, c \in Branch : OwnWait(b) /\ wait[b].id = wait[c].id => b = c
    /\ \A b \in Branch : \A h \in hooks : wait[b].id = h.id => wait[b].kind = h.kind /\ wait[b].obj = h.obj
    /\ \A b \in Branch : wait[b].id \in toRun \cup answers => wait[b].kind = "main"

LEMMA IdentifiersKept ==
    ASSUME TypeOK, TypeOK', Identifiers, nextId' = nextId,
           hooks' \subseteq hooks, toRun' \cup answers' \subseteq toRun \cup answers, late' = late,
           \A c \in Branch : wait'[c] = wait[c] \/ wait'[c].id \notin Id
    PROVE  Identifiers'
<1>1. \A c \in Branch : wait'[c].id \in Id => wait'[c] = wait[c]
  OBVIOUS
<1>2. \A h \in hooks : h.id \in Id
  BY DEF TypeOK
<1>3. \A i \in toRun \cup answers : i \in Id
  BY DEF TypeOK
<1> QED
  BY <1>1, <1>2, <1>3 DEF Identifiers, OwnWait

(* A wait with a new identifier begins. *)
LEMMA IdentifiersNew ==
    ASSUME TypeOK, TypeOK', Identifiers, Suspension, NEW b \in Branch, running = b,
           NEW w \in Wait, w # NoWait, w.id = nextId, nextId \in Id, nextId' = nextId + 1, Suspend(b, w),
           answers' = answers,
           \/ w.kind \in Kind /\ hooks' = hooks \cup {[kind |-> w.kind, id |-> nextId, obj |-> w.obj]} /\ toRun' = toRun
           \/ w.kind = "main" /\ hooks' = hooks /\ toRun' = toRun \cup {nextId},
           late' \subseteq late \cup {nextId}
    PROVE  Identifiers'
<1>1. \A c \in Branch : wait'[c] = IF c = b THEN w ELSE wait[c]
  BY SuspendOne
<1>2. nextId \in Nat /\ Id \subseteq Nat /\ hooks \subseteq [kind: Kind, id: Id, obj: Object \cup {NoObject}]
      /\ toRun \subseteq Id /\ answers \subseteq Id /\ late \subseteq Id
  BY DEF TypeOK, Id
<1>3. \A c \in Branch : wait[c].id # nextId
  BY <1>2 DEF Identifiers, OwnWait
<1> DEFINE Older(i) == i < nextId
<1>a. \A i \in Nat : Older(i) => i < nextId + 1
  BY <1>2
<1>b. nextId < nextId + 1
  BY <1>2
<1>4. \A c \in Branch : OwnWait(c)' => wait'[c].id < nextId'
  <2> SUFFICES ASSUME NEW c \in Branch, wait'[c].id \in Id PROVE wait'[c].id < nextId + 1
    BY DEF OwnWait
  <2>1. CASE c = b
    BY <1>1, <1>b, <2>1
  <2>2. CASE c # b
    <3>1. wait'[c] = wait[c] /\ wait[c].id \in Nat
      BY <1>1, <1>2, <2>2
    <3>2. Older(wait[c].id)
      BY <3>1 DEF Identifiers, OwnWait
    <3> QED
      BY <1>a, <3>1, <3>2
  <2> QED
    BY <2>1, <2>2
<1>5. \A h \in hooks' : h.id < nextId'
  <2>1. \A h \in hooks : h.id \in Nat /\ Older(h.id)
    BY <1>2 DEF Identifiers
  <2>2. \A h \in hooks : h.id < nextId + 1
    BY <1>a, <2>1
  <2> QED
    BY <1>b, <2>2
<1>6. \A i \in toRun' \cup answers' \cup late' : i < nextId'
  <2>1. \A i \in toRun \cup answers \cup late : i \in Nat /\ Older(i)
    BY <1>2 DEF Identifiers
  <2>2. \A i \in toRun \cup answers \cup late : i < nextId + 1
    BY <1>a, <2>1
  <2> QED
    BY <1>b, <2>2
<1>7. \A c, d \in Branch : OwnWait(c)' /\ wait'[c].id = wait'[d].id => c = d
  BY <1>1, <1>3 DEF Identifiers, OwnWait
<1>8. \A c \in Branch : \A h \in hooks' : wait'[c].id = h.id => wait'[c].kind = h.kind /\ wait'[c].obj = h.obj
  <2> SUFFICES ASSUME NEW c \in Branch, NEW h \in hooks', wait'[c].id = h.id
               PROVE  wait'[c].kind = h.kind /\ wait'[c].obj = h.obj
    OBVIOUS
  <2>1. CASE h \in hooks
    <3>1. h.id # nextId
      BY <1>2, <2>1 DEF Identifiers
    <3> QED
      BY <1>1, <2>1, <3>1 DEF Identifiers
  <2>2. CASE h \notin hooks
    BY <1>1, <1>3, <2>2
  <2> QED
    BY <2>1, <2>2
<1>9. \A c \in Branch : wait'[c].id \in toRun' \cup answers' => wait'[c].kind = "main"
  <2> SUFFICES ASSUME NEW c \in Branch, wait'[c].id \in toRun' \cup answers' PROVE wait'[c].kind = "main"
    OBVIOUS
  <2>1. nextId \notin toRun \cup answers
    BY <1>2 DEF Identifiers
  <2> QED
    BY <1>1, <1>3, <2>1 DEF Identifiers
<1> QED
  BY <1>4, <1>5, <1>6, <1>7, <1>8, <1>9 DEF Identifiers

LEMMA IdentifiersLeave ==
    ASSUME TypeOK, TypeOK', Identifiers, NEW b \in Branch, Leave(b), UNCHANGED <<nextId, toRun, late>>
    PROVE  Identifiers'
<1>1. hooks' \subseteq hooks /\ answers' \subseteq answers
  BY DEF Leave
<1> QED
  BY <1>1, LeaveOne, NoWaitShape, IdentifiersKept

LEMMA IdentifiersNext ==
    TypeOK /\ TypeOK' /\ Suspension /\ Identifiers /\ [Next]_vars => Identifiers'
<1> SUFFICES ASSUME TypeOK, TypeOK', Suspension, Identifiers, [Next]_vars PROVE Identifiers'
  OBVIOUS
<1>1. ASSUME NEW b \in Branch, Create(b) \/ Exit(b) PROVE Identifiers'
  BY <1>1, IdentifiersKept DEF Create, Exit, hookVars, mainVars, objectVars
<1>2. ASSUME NEW b \in Branch, Interrupt(b) \/ InterruptNext(b) PROVE Identifiers'
  BY <1>2, IdentifiersLeave DEF Interrupt, InterruptNext, Raise, objectVars
<1>3. ASSUME NEW b \in Branch, Resume(b) PROVE Identifiers'
  <2>1. CASE FindsNothing(b)
    BY <1>3, <2>1, IdentifiersKept DEF Resume, hookVars, objectVars
  <2>2. CASE ~FindsNothing(b)
    BY <1>3, <2>2, IdentifiersLeave DEF Resume, objectVars
  <2> QED
    BY <2>1, <2>2
<1>4. ASSUME NEW x \in Barrier, NEW l \in 0..MaxLimit, SetLimit(x, l) PROVE Identifiers'
  BY <1>4, IdentifiersKept DEF SetLimit, hookVars, mainVars, objectVars
<1>5. ASSUME NEW b \in Branch, NEW x \in Barrier, LastAtBarrier(b, x) \/ TooMany(b, x) PROVE Identifiers'
  BY <1>5, IdentifiersKept DEF LastAtBarrier, TooMany, hookVars, mainVars, objectVars
<1>6. ASSUME NEW b \in Branch, NEW x \in Barrier, WaitBarrier(b, x) PROVE Identifiers'
  <2>1. [kind |-> "barrier", id |-> x, obj |-> NoObject] # NoWait /\ x \notin Id
    BY BranchAssumption DEF NoWait, Id
  <2>2. \A c \in Branch : wait'[c] = wait[c] \/ wait'[c].id \notin Id
    BY <1>6, <2>1, SuspendOne DEF WaitBarrier
  <2> QED
    BY <1>6, <2>2, IdentifiersKept DEF WaitBarrier, hookVars, mainVars, objectVars
<1>7. ASSUME NEW p \in Pipe, AddData(p) PROVE Identifiers'
  BY <1>7, IdentifiersKept DEF AddData, hookVars, mainVars, objectVars
<1>8. ASSUME NEW b \in Branch, NEW p \in Pipe, ReadPipe(b, p) PROVE Identifiers'
  BY <1>8, IdentifiersKept DEF ReadPipe, hookVars, mainVars, objectVars
<1>9. ASSUME NEW b \in Branch, NEW p \in Pipe, WaitPipe(b, p) PROVE Identifiers'
  <2>1. [kind |-> "pipe", id |-> p, obj |-> NoObject] # NoWait /\ p \notin Id
    BY BranchAssumption DEF NoWait, Id
  <2>2. \A c \in Branch : wait'[c] = wait[c] \/ wait'[c].id \notin Id
    BY <1>9, <2>1, SuspendOne DEF WaitPipe
  <2> QED
    BY <1>9, <2>2, IdentifiersKept DEF WaitPipe, hookVars, mainVars, objectVars
<1>10. ASSUME NEW b \in Branch, NEW k \in Kind, NEW o \in Object \cup {NoObject}, WaitEvent(b, k, o)
       PROVE  Identifiers'
  <2> DEFINE w == [kind |-> k, id |-> nextId, obj |-> o]
  <2>1. w # NoWait /\ w.id = nextId /\ w.kind = k /\ w.obj = o
    BY DEF NoWait, Kind
  <2>2. nextId \in Id
    BY <1>10 DEF WaitEvent, FreshId
  <2>3. w \in Wait
    BY <2>2 DEF Wait
  <2>4. /\ running = b /\ nextId' = nextId + 1 /\ Suspend(b, w) /\ answers' = answers /\ toRun' = toRun
        /\ hooks' = hooks \cup {[kind |-> k, id |-> nextId, obj |-> o]}
        /\ late' \subseteq late \cup {nextId}
    BY <1>10 DEF WaitEvent, TakeId, mainVars
  <2> HIDE DEF w
  <2> QED
    BY <2>1, <2>2, <2>3, <2>4, IdentifiersNew
<1>11. ASSUME NEW b \in Branch, RunInMain(b) PROVE Identifiers'
  <2> DEFINE w == [kind |-> "main", id |-> nextId, obj |-> NoObject]
  <2>1. w # NoWait /\ w.id = nextId /\ w.kind = "main"
    BY DEF NoWait
  <2>2. nextId \in Id
    BY <1>11 DEF RunInMain, FreshId
  <2>3. w \in Wait
    BY <2>2 DEF Wait
  <2>4. /\ running = b /\ nextId' = nextId + 1 /\ Suspend(b, w) /\ answers' = answers
        /\ hooks' = hooks /\ toRun' = toRun \cup {nextId} /\ late' = late
    BY <1>11 DEF RunInMain, TakeId, hookVars, objectVars
  <2> HIDE DEF w
  <2> QED
    BY <2>1, <2>2, <2>3, <2>4, IdentifiersNew
<1>12. ASSUME NEW o \in Object \cup {NoObject}, HapOccurs(o) PROVE Identifiers'
  BY <1>12, IdentifiersKept DEF HapOccurs, mainVars, objectVars
<1>n. ASSUME NEW o \in Object, NotifierOccurs(o) PROVE Identifiers'
  BY <1>n, IdentifiersKept DEF NotifierOccurs, hookVars, mainVars, objectVars
<1>13. ASSUME NEW k \in Kind, NEW o \in Object \cup {NoObject}, EventOccurs(k, o) PROVE Identifiers'
  BY <1>13, IdentifiersKept DEF EventOccurs, mainVars, objectVars
<1>14. ASSUME NEW i \in Id, RunFunction(i) PROVE Identifiers'
  BY <1>14, IdentifiersKept DEF RunFunction, hookVars, objectVars
<1>15. ASSUME NEW o \in Object, DeleteObject(o) \/ ObjectGone(o) PROVE Identifiers'
  BY <1>15, IdentifiersKept DEF DeleteObject, ObjectGone, hookVars, mainVars
<1>16. CASE UNCHANGED vars
  BY <1>16, IdentifiersKept DEF vars, hookVars, mainVars, objectVars
<1> QED
  BY <1>1, <1>2, <1>3, <1>4, <1>5, <1>6, <1>7, <1>8, <1>9, <1>10, <1>11, <1>12, <1>13, <1>14,
     <1>n, <1>15, <1>16
  DEF Next, Command, WaitHap, WaitNotifier, WaitLog, WaitTime, LogWritten, TimeReached, Kind

LEMMA IdentifiersAlways == Spec => [](TypeOK /\ Suspension /\ Identifiers)
<1>1. Init => Identifiers
  BY BranchAssumption, NoWaitShape DEF Init, Identifiers, OwnWait
<1> QED
  BY <1>1, TypeInit, TypeNext, SuspensionAlways, IdentifiersNext, PTL DEF Spec
-----------------------------------------------------------------------------
(* Calls in the main branch. *)
LEMMA AnswersKept ==
    ASSUME AnsweredOnce, UNCHANGED mainVars,
           \A c \in Branch : wait'[c].kind = "main" => wait'[c] = wait[c] /\ (c \in woken' <=> c \in woken)
    PROVE  AnsweredOnce'
BY DEF AnsweredOnce, mainVars

(* A signal for identifiers that are not those of calls. *)
LEMMA AnswersSignal ==
    ASSUME AnsweredOnce, UNCHANGED <<mainVars, wait>>, NEW ids, Signal(ids),
           \A c \in Branch : wait[c].kind = "main" => wait[c].id \notin ids
    PROVE  AnsweredOnce'
BY AnswersKept DEF Signal, Signalled

LEMMA AnswersLeave ==
    ASSUME TypeOK, Identifiers, AnsweredOnce, NEW b \in Branch, Leave(b), toRun' = toRun
    PROVE  AnsweredOnce'
<1> SUFFICES ASSUME NEW c \in Branch, wait'[c].kind = "main"
             PROVE  \/ wait'[c].id \in toRun' \ answers' /\ c \notin woken'
                    \/ wait'[c].id \in answers' \ toRun' /\ c \in woken'
  BY DEF AnsweredOnce
<1>1. c # b /\ wait'[c] = wait[c] /\ woken' = woken \ {b}
  BY LeaveOne, NoWaitShape
<1>2. wait[c].id \in Id
  BY <1>1, WaitShape DEF TypeOK
<1>3. wait[c].id # wait[b].id
  BY <1>1, <1>2 DEF Identifiers, OwnWait
<1>4. wait[c].id \in answers' <=> wait[c].id \in answers
  BY <1>3 DEF Leave
<1> QED
  BY <1>1, <1>4 DEF AnsweredOnce

LEMMA AnswersNext == TypeOK /\ Suspension /\ Identifiers /\ AnsweredOnce /\ [Next]_vars => AnsweredOnce'
<1> SUFFICES ASSUME TypeOK, Suspension, Identifiers, AnsweredOnce, [Next]_vars PROVE AnsweredOnce'
  OBVIOUS
<1>0. \A c \in Branch : wait[c].kind = "main" => wait[c].id \in Id /\ wait[c].id \notin Barrier \cup Pipe
  BY WaitShape, BranchAssumption DEF TypeOK, Id
<1>1. ASSUME NEW b \in Branch, Create(b) \/ Exit(b) PROVE AnsweredOnce'
  BY <1>1, AnswersKept DEF Create, Exit
<1>2. ASSUME NEW b \in Branch, Interrupt(b) \/ InterruptNext(b) PROVE AnsweredOnce'
  BY <1>2, AnswersLeave DEF Interrupt, InterruptNext, Raise
<1>3. ASSUME NEW b \in Branch, Resume(b) PROVE AnsweredOnce'
  <2>1. CASE FindsNothing(b)
    <3>1. wait' = wait /\ woken' = woken \ {b} /\ wait[b].kind # "main" /\ UNCHANGED mainVars
      BY <1>3, <2>1 DEF Resume, FindsNothing, mainVars
    <3> QED
      BY <3>1, AnswersKept
  <2>2. CASE ~FindsNothing(b)
    BY <1>3, <2>2, AnswersLeave DEF Resume
  <2> QED
    BY <2>1, <2>2
<1>4. ASSUME NEW x \in Barrier, NEW l \in 0..MaxLimit, SetLimit(x, l) PROVE AnsweredOnce'
  <2>1. \A c \in Branch : wait[c].kind = "main" => wait[c].id \notin {x}
    BY <1>0
  <2> QED
    BY <1>4, <2>1, AnswersSignal, AnswersKept DEF SetLimit, ResetBarrier
<1>5. ASSUME NEW b \in Branch, NEW x \in Barrier, LastAtBarrier(b, x) \/ TooMany(b, x) PROVE AnsweredOnce'
  <2>1. \A c \in Branch : wait[c].kind = "main" => wait[c].id \notin {x}
    BY <1>0
  <2> QED
    BY <1>5, <2>1, AnswersSignal, AnswersKept DEF LastAtBarrier, TooMany, ResetBarrier
<1>6. ASSUME NEW b \in Branch, NEW x \in Barrier, WaitBarrier(b, x) PROVE AnsweredOnce'
  <2>1. [kind |-> "barrier", id |-> x, obj |-> NoObject] # NoWait
    BY DEF NoWait
  <2> QED
    BY <1>6, <2>1, SuspendOne, AnswersKept DEF WaitBarrier
<1>7. ASSUME NEW p \in Pipe, AddData(p) PROVE AnsweredOnce'
  <2>1. \A c \in Branch : wait[c].kind = "main" => wait[c].id \notin {p}
    BY <1>0
  <2> QED
    BY <1>7, <2>1, AnswersSignal DEF AddData
<1>8. ASSUME NEW b \in Branch, NEW p \in Pipe, ReadPipe(b, p) PROVE AnsweredOnce'
  BY <1>8, AnswersKept DEF ReadPipe
<1>9. ASSUME NEW b \in Branch, NEW p \in Pipe, WaitPipe(b, p) PROVE AnsweredOnce'
  <2>1. [kind |-> "pipe", id |-> p, obj |-> NoObject] # NoWait
    BY DEF NoWait
  <2> QED
    BY <1>9, <2>1, SuspendOne, AnswersKept DEF WaitPipe
<1>10. ASSUME NEW b \in Branch, NEW k \in Kind, NEW o \in Object \cup {NoObject}, WaitEvent(b, k, o)
       PROVE  AnsweredOnce'
  <2>1. [kind |-> k, id |-> nextId, obj |-> o] # NoWait /\ k # "main"
    BY DEF NoWait, Kind
  <2> QED
    BY <1>10, <2>1, SuspendOne, AnswersKept DEF WaitEvent
<1>11. ASSUME NEW b \in Branch, RunInMain(b) PROVE AnsweredOnce'
  <2> DEFINE w == [kind |-> "main", id |-> nextId, obj |-> NoObject]
  <2>1. w # NoWait /\ w.id = nextId
    BY DEF NoWait
  <2>2. running = b /\ Suspend(b, w) /\ toRun' = toRun \cup {nextId} /\ answers' = answers /\ woken' = woken
    BY <1>11 DEF RunInMain
  <2>3. nextId \notin answers \cup toRun
    BY DEF Identifiers, TypeOK
  <2>4. \A c \in Branch : wait[c].id # nextId
    BY <1>11 DEF Identifiers, OwnWait, RunInMain, FreshId, TypeOK
  <2> HIDE DEF w
  <2> SUFFICES ASSUME NEW c \in Branch, wait'[c].kind = "main"
               PROVE  \/ wait'[c].id \in toRun' \ answers' /\ c \notin woken'
                      \/ wait'[c].id \in answers' \ toRun' /\ c \in woken'
    BY DEF AnsweredOnce
  <2>5. CASE c = b
    BY <2>1, <2>2, <2>3, <2>5, SuspendOne
  <2>6. CASE c # b
    <3>1. wait'[c] = wait[c]
      BY <2>1, <2>2, <2>6, SuspendOne
    <3> QED
      BY <2>2, <2>4, <3>1 DEF AnsweredOnce
  <2> QED
    BY <2>5, <2>6
<1>12. ASSUME NEW o \in Object \cup {NoObject}, HapOccurs(o) PROVE AnsweredOnce'
  <2>0. PICK told \in SUBSET About("hap", o) : Signal({h.id : h \in told})
    BY <1>12 DEF HapOccurs
  <2> DEFINE ids == {h.id : h \in told}
  <2>1. \A c \in Branch : wait[c].kind = "main" => wait[c].id \notin ids
    BY DEF Identifiers, About
  <2>2. Signal(ids) /\ UNCHANGED <<mainVars, wait>>
    BY <1>12, <2>0 DEF HapOccurs
  <2> QED
    BY <2>1, <2>2, AnswersSignal
<1>n. ASSUME NEW o \in Object, NotifierOccurs(o) PROVE AnsweredOnce'
  <2>0. PICK told \in SUBSET About("notifier", o) : Signal({h.id : h \in told})
    BY <1>n DEF NotifierOccurs
  <2> DEFINE ids == {h.id : h \in told}
  <2>1. \A c \in Branch : wait[c].kind = "main" => wait[c].id \notin ids
    BY DEF Identifiers, About
  <2>2. Signal(ids) /\ UNCHANGED <<mainVars, wait>>
    BY <1>n, <2>0 DEF NotifierOccurs
  <2> QED
    BY <2>1, <2>2, AnswersSignal
<1>13. ASSUME NEW k \in Kind, NEW o \in Object \cup {NoObject}, EventOccurs(k, o) PROVE AnsweredOnce'
  <2>0. PICK used \in SUBSET About(k, o) : Signal({h.id : h \in used})
    BY <1>13 DEF EventOccurs
  <2> DEFINE ids == {h.id : h \in used}
  <2>1. \A c \in Branch : wait[c].kind = "main" => wait[c].id \notin ids
    BY DEF Identifiers, About, Kind
  <2>2. Signal(ids) /\ UNCHANGED <<mainVars, wait>>
    BY <1>13, <2>0 DEF EventOccurs
  <2> QED
    BY <2>1, <2>2, AnswersSignal
<1>14. ASSUME NEW i \in Id, RunFunction(i) PROVE AnsweredOnce'
  <2>1. i \in toRun /\ toRun' = toRun \ {i} /\ answers' = answers \cup {i} /\ wait' = wait
        /\ woken' = woken \cup Signalled({i})
    BY <1>14 DEF RunFunction, Signal
  <2> SUFFICES ASSUME NEW c \in Branch, wait[c].kind = "main"
               PROVE  \/ wait[c].id \in toRun' \ answers' /\ c \notin woken'
                      \/ wait[c].id \in answers' \ toRun' /\ c \in woken'
    BY <2>1 DEF AnsweredOnce
  <2>2. wait[c] # NoWait
    BY NoWaitShape
  <2> QED
    BY <2>1, <2>2 DEF AnsweredOnce, Signalled
<1>15. ASSUME NEW o \in Object, DeleteObject(o) \/ ObjectGone(o) PROVE AnsweredOnce'
  BY <1>15, AnswersKept DEF DeleteObject, ObjectGone
<1>16. CASE UNCHANGED vars
  BY <1>16, AnswersKept DEF vars
<1> QED
  BY <1>1, <1>2, <1>3, <1>4, <1>5, <1>6, <1>7, <1>8, <1>9, <1>10, <1>11, <1>12, <1>13, <1>14,
     <1>n, <1>15, <1>16
  DEF Next, Command, WaitHap, WaitNotifier, WaitLog, WaitTime, LogWritten, TimeReached, Kind

(* A branch in sb_run_in_main_branch is woken by its own function only,    *)
(* which runs once, whatever was interrupted before.                       *)
THEOREM AnsweredExactlyOnce == Spec => []AnsweredOnce
<1>1. Init => AnsweredOnce
  BY NoWaitShape DEF Init, AnsweredOnce
<1> QED
  BY <1>1, IdentifiersAlways, AnswersNext, PTL DEF Spec
-----------------------------------------------------------------------------
(* Waits for haps.  While an object is being deleted, those for its haps   *)
(* are still to be interrupted, or were entered again.                     *)
Deletion ==
    /\ deleting \cap deleted = {}
    /\ \A o, p \in deleting : o = p
    /\ \A o \in deleting : \A b \in Branch :
         wait[b].kind = "hap" /\ wait[b].obj = o => b \in todo \/ wait[b].id \in late

Tracked == HapsTracked /\ Deletion
HapRec(b) == [kind |-> "hap", id |-> wait[b].id, obj |-> wait[b].obj]
HapCallbacks == {h \in hooks : h.kind = "hap"}

LEMMA TrackedKept ==
    ASSUME TypeOK, Tracked, HapCallbacks' = HapCallbacks, UNCHANGED <<objBranches, deleting, deleted, todo, late>>,
           \A c \in Branch : wait'[c].kind = "hap" \/ wait[c].kind = "hap" => wait'[c] = wait[c]
    PROVE  Tracked'
<1>1. HapWaiters' = HapWaiters
  BY DEF HapWaiters
<1>2. \A c \in HapWaiters : wait'[c] = wait[c] /\ wait[c].kind = "hap" /\ c \in Branch
  BY DEF HapWaiters
<1>3. HapsTracked'
  <2>1. HapCallbacks = {HapRec(c) : c \in HapWaiters}
    BY Zenon DEF Tracked, HapsTracked, CallbacksOf, HapCallbacks, HapRec
  <2>2. \A c \in HapWaiters : HapRec(c)' = HapRec(c)
    BY <1>2 DEF HapRec
  <2>3. HapCallbacks' = {HapRec(c)' : c \in HapWaiters'}
    BY <1>1, <2>1, <2>2
  <2>4. \A o \in Object : objBranches'[o] = {c \in HapWaiters' : wait'[c].obj = o}
    <3> SUFFICES ASSUME NEW o \in Object PROVE objBranches'[o] = {c \in HapWaiters' : wait'[c].obj = o}
      OBVIOUS
    <3>1. objBranches[o] = {c \in HapWaiters : wait[c].obj = o}
      BY DEF Tracked, HapsTracked
    <3> QED
      BY <1>1, <1>2, <3>1
  <2>5. \A c \in HapWaiters' : wait'[c].obj \notin deleted'
    BY <1>1, <1>2 DEF Tracked, HapsTracked
  <2> QED
    BY <2>3, <2>4, <2>5, Zenon DEF HapsTracked, CallbacksOf, HapCallbacks, HapRec
<1>4. Deletion'
  BY DEF Tracked, Deletion
<1> QED
  BY <1>3, <1>4 DEF Tracked

LEMMA TrackedLeave ==
    ASSUME TypeOK, Identifiers, Tracked, NEW b \in Branch, Leave(b),
           UNCHANGED <<deleting, deleted, late>>, todo' = todo \ {b}
    PROVE  Tracked'
<1>1. \A c \in Branch : wait'[c] = IF c = b THEN NoWait ELSE wait[c]
  BY LeaveOne
<1>2. HapWaiters' = HapWaiters \ {b}
  BY <1>1, NoWaitShape DEF HapWaiters
<1>3. \A c \in HapWaiters : c \in Branch /\ wait[c].kind = "hap" /\ wait[c].id \in Id
  BY WaitShape DEF HapWaiters, TypeOK, Kind
<1>4. \A o \in Object : objBranches'[o] = {c \in HapWaiters' : wait'[c].obj = o}
  <2> SUFFICES ASSUME NEW o \in Object PROVE objBranches'[o] = {c \in HapWaiters' : wait'[c].obj = o}
    OBVIOUS
  <2>1. objBranches[o] = {c \in HapWaiters : wait[c].obj = o}
    BY DEF Tracked, HapsTracked
  <2>2. {c \in HapWaiters' : wait'[c].obj = o} = objBranches[o] \ {b}
    BY <1>1, <1>2, <1>3, <2>1
  <2>3. b \in objBranches[o] => wait[b].kind = "hap" /\ wait[b].obj = o
    BY <1>3, <2>1
  <2> QED
    BY <2>2, <2>3, LeaveOne, ZenonT(60)
<1>5. HapCallbacks' = {HapRec(c)' : c \in HapWaiters'}
  <2>1. HapCallbacks = {HapRec(c) : c \in HapWaiters}
    BY Zenon DEF Tracked, HapsTracked, CallbacksOf, HapCallbacks, HapRec
  <2>2. HapCallbacks' = {h \in HapCallbacks : ~(wait[b].kind = "hap" /\ h.id = wait[b].id)}
    BY DEF HapCallbacks, Leave, OwnHooks
  <2>3. \A c \in HapWaiters : HapRec(c).id = wait[c].id
    BY DEF HapRec
  <2>4. \A c \in HapWaiters : (wait[b].kind = "hap" /\ wait[c].id = wait[b].id) <=> c = b
    BY <1>3 DEF Identifiers, OwnWait
  <2>5. HapCallbacks' = {HapRec(c) : c \in HapWaiters \ {b}}
    BY <2>1, <2>2, <2>3, <2>4
  <2>6. \A c \in HapWaiters \ {b} : HapRec(c)' = HapRec(c)
    BY <1>1, <1>3 DEF HapRec
  <2> QED
    BY <1>2, <2>5, <2>6
<1>6. \A c \in HapWaiters' : wait'[c].obj \notin deleted'
  BY <1>1, <1>2, <1>3 DEF Tracked, HapsTracked
<1>7. HapsTracked'
  BY <1>4, <1>5, <1>6, Zenon DEF HapsTracked, CallbacksOf, HapCallbacks, HapRec
<1>8. Deletion'
  BY <1>1, NoWaitShape DEF Tracked, Deletion
<1> QED
  BY <1>7, <1>8 DEF Tracked

LEMMA TrackedHap ==
    ASSUME TypeOK, Suspension, Identifiers, Tracked,
           NEW b \in Branch, NEW o \in Object \cup {NoObject}, WaitHap(b, o)
    PROVE  Tracked'
<1> DEFINE w == [kind |-> "hap", id |-> nextId, obj |-> o]
<1>1. w # NoWait /\ w.kind = "hap" /\ w.id = nextId /\ w.obj = o
  BY DEF NoWait
<1>2. /\ running = b /\ Suspend(b, w) /\ o \notin deleted /\ nextId \in Id
      /\ hooks' = hooks \cup {w} /\ UNCHANGED <<deleting, deleted, todo>>
      /\ late' = IF o \in deleting THEN late \cup {nextId} ELSE late
      /\ \A p \in Object : objBranches'[p] = IF p = o THEN objBranches[p] \cup {b} ELSE objBranches[p]
  BY DEF WaitHap, WaitEvent, FreshId
<1> HIDE DEF w
<1>3. wait[b] = NoWait /\ \A c \in Branch : wait'[c] = IF c = b THEN w ELSE wait[c]
  BY <1>1, <1>2, SuspendOne
<1>4. \A c \in Branch : wait[c].id # nextId
  BY <1>2 DEF Identifiers, OwnWait, TypeOK
<1>5. HapWaiters' = HapWaiters \cup {b} /\ b \notin HapWaiters
  BY <1>1, <1>2, <1>3, <1>4, NoWaitShape DEF HapWaiters
<1>6. \A c \in HapWaiters : c \in Branch /\ wait'[c] = wait[c]
  BY <1>3, <1>5 DEF HapWaiters
<1>7. HapCallbacks' = {HapRec(c)' : c \in HapWaiters'}
  <2>1. HapCallbacks = {HapRec(c) : c \in HapWaiters}
    BY Zenon DEF Tracked, HapsTracked, CallbacksOf, HapCallbacks, HapRec
  <2>2. HapCallbacks' = HapCallbacks \cup {w}
    BY <1>1, <1>2 DEF HapCallbacks
  <2>3. HapRec(b)' = w
    BY <1>3 DEF HapRec, w
  <2>4. \A c \in HapWaiters : HapRec(c)' = HapRec(c)
    BY <1>6 DEF HapRec
  <2> QED
    BY <1>5, <2>1, <2>2, <2>3, <2>4
<1>8. \A p \in Object : objBranches'[p] = {c \in HapWaiters' : wait'[c].obj = p}
  <2> SUFFICES ASSUME NEW p \in Object PROVE objBranches'[p] = {c \in HapWaiters' : wait'[c].obj = p}
    OBVIOUS
  <2>1. objBranches[p] = {c \in HapWaiters : wait[c].obj = p}
    BY DEF Tracked, HapsTracked
  <2>2. wait'[b].obj = o
    BY <1>1, <1>3
  <2> QED
    BY <1>2, <1>5, <1>6, <2>1, <2>2, ZenonT(60)
<1>9. \A c \in HapWaiters' : wait'[c].obj \notin deleted'
  BY <1>1, <1>2, <1>3, <1>5, <1>6 DEF Tracked, HapsTracked
<1>10. HapsTracked'
  BY <1>7, <1>8, <1>9, Zenon DEF HapsTracked, CallbacksOf, HapCallbacks, HapRec
<1>11. Deletion'
  <2> SUFFICES ASSUME NEW p \in deleting, NEW c \in Branch, wait'[c].kind = "hap", wait'[c].obj = p
               PROVE  c \in todo \/ wait'[c].id \in late'
    BY <1>2 DEF Tracked, Deletion
  <2>1. CASE c = b
    BY <1>1, <1>2, <1>3, <2>1
  <2>2. CASE c # b
    BY <1>2, <1>3, <2>2 DEF Tracked, Deletion
  <2> QED
    BY <2>1, <2>2
<1> QED
  BY <1>10, <1>11 DEF Tracked

LEMMA TrackedGone ==
    ASSUME TypeOK, Tracked, NEW o \in Object, ObjectGone(o)
    PROVE  Tracked'
<1>1. /\ deleting' = {} /\ deleted' = deleted \cup {o} /\ UNCHANGED <<wait, late, todo>>
      /\ hooks' = {h \in hooks : h.obj # o}
      /\ o \in deleting /\ todo = {} /\ o \notin deleted
      /\ \A p \in Object : objBranches'[p] = IF p = o THEN {} ELSE objBranches[p]
  BY DEF ObjectGone, Tracked, Deletion, TypeOK
<1>2. HapWaiters' = {c \in HapWaiters : wait[c].obj # o}
  BY <1>1 DEF HapWaiters, Tracked, Deletion
<1>3. HapCallbacks' = {HapRec(c)' : c \in HapWaiters'}
  <2>1. HapCallbacks = {HapRec(c) : c \in HapWaiters}
    BY Zenon DEF Tracked, HapsTracked, CallbacksOf, HapCallbacks, HapRec
  <2>2. HapCallbacks' = {h \in HapCallbacks : h.obj # o}
    BY <1>1 DEF HapCallbacks
  <2>3. \A c \in HapWaiters : HapRec(c)' = HapRec(c) /\ HapRec(c).obj = wait[c].obj
    BY <1>1 DEF HapRec
  <2> QED
    BY <1>2, <2>1, <2>2, <2>3
<1>4. \A p \in Object : objBranches'[p] = {c \in HapWaiters' : wait'[c].obj = p}
  <2> SUFFICES ASSUME NEW p \in Object PROVE objBranches'[p] = {c \in HapWaiters' : wait[c].obj = p}
    BY <1>1
  <2>1. objBranches[p] = {c \in HapWaiters : wait[c].obj = p}
    BY DEF Tracked, HapsTracked
  <2> QED
    BY <1>1, <1>2, <2>1
<1>5. \A c \in HapWaiters' : wait'[c].obj \notin deleted'
  BY <1>1, <1>2 DEF Tracked, HapsTracked
<1>6. HapsTracked'
  BY <1>3, <1>4, <1>5, Zenon DEF HapsTracked, CallbacksOf, HapCallbacks, HapRec
<1>7. Deletion'
  BY <1>1 DEF Deletion
<1> QED
  BY <1>6, <1>7 DEF Tracked

LEMMA TrackedNext == TypeOK /\ Suspension /\ Identifiers /\ Tracked /\ [Next]_vars => Tracked'
<1> SUFFICES ASSUME TypeOK, Suspension, Identifiers, Tracked, [Next]_vars PROVE Tracked'
  OBVIOUS
<1>0. hooks' = hooks => HapCallbacks' = HapCallbacks
  BY DEF HapCallbacks
<1>1. ASSUME NEW b \in Branch, Create(b) \/ Exit(b) PROVE Tracked'
  BY <1>0, <1>1, TrackedKept DEF Create, Exit, hookVars, objectVars
<1>2. ASSUME NEW b \in Branch, Interrupt(b) PROVE Tracked'
  <2>1. todo' = todo \ {b}
    BY <1>2 DEF Interrupt, MainFree, Suspension, objectVars
  <2> QED
    BY <1>2, <2>1, TrackedLeave DEF Interrupt, Raise, objectVars
<1>3. ASSUME NEW b \in Branch, InterruptNext(b) PROVE Tracked'
  BY <1>3, TrackedLeave DEF InterruptNext, Raise
<1>4. ASSUME NEW b \in Branch, Resume(b) PROVE Tracked'
  <2>1. CASE FindsNothing(b)
    BY <1>0, <1>4, <2>1, TrackedKept DEF Resume, hookVars, objectVars
  <2>2. CASE ~FindsNothing(b)
    <3>1. Leave(b) /\ todo' = todo \ {b} /\ UNCHANGED <<deleting, deleted, late>>
      BY <1>4, <2>2 DEF Resume, MainFree, Suspension, objectVars
    <3> QED
      BY <3>1, TrackedLeave
  <2> QED
    BY <2>1, <2>2
<1>5. ASSUME NEW x \in Barrier, NEW l \in 0..MaxLimit, SetLimit(x, l) PROVE Tracked'
  BY <1>0, <1>5, TrackedKept DEF SetLimit, hookVars, objectVars
<1>6. ASSUME NEW b \in Branch, NEW x \in Barrier, LastAtBarrier(b, x) \/ TooMany(b, x) PROVE Tracked'
  BY <1>0, <1>6, TrackedKept DEF LastAtBarrier, TooMany, hookVars, objectVars
<1>7. ASSUME NEW b \in Branch, NEW x \in Barrier, WaitBarrier(b, x) PROVE Tracked'
  <2>1. [kind |-> "barrier", id |-> x, obj |-> NoObject] # NoWait
    BY DEF NoWait
  <2> QED
    BY <1>0, <1>7, <2>1, SuspendOne, NoWaitShape, TrackedKept DEF WaitBarrier, hookVars, objectVars
<1>8. ASSUME NEW p \in Pipe, AddData(p) PROVE Tracked'
  BY <1>0, <1>8, TrackedKept DEF AddData, hookVars, objectVars
<1>9. ASSUME NEW b \in Branch, NEW p \in Pipe, ReadPipe(b, p) PROVE Tracked'
  BY <1>0, <1>9, TrackedKept DEF ReadPipe, hookVars, objectVars
<1>10. ASSUME NEW b \in Branch, NEW p \in Pipe, WaitPipe(b, p) PROVE Tracked'
  <2>1. [kind |-> "pipe", id |-> p, obj |-> NoObject] # NoWait
    BY DEF NoWait
  <2> QED
    BY <1>0, <1>10, <2>1, SuspendOne, NoWaitShape, TrackedKept DEF WaitPipe, hookVars, objectVars
<1>11. ASSUME NEW b \in Branch, NEW k \in Kind \ {"hap"}, NEW o \in Object \cup {NoObject}, WaitEvent(b, k, o)
       PROVE  Tracked'
  <2>1. [kind |-> k, id |-> nextId, obj |-> o] # NoWait /\ k # "hap"
    BY DEF NoWait, Kind
  <2>2. running = b /\ Suspend(b, [kind |-> k, id |-> nextId, obj |-> o])
    BY <1>11 DEF WaitEvent
  <2>3. \A c \in Branch : wait'[c].kind = "hap" \/ wait[c].kind = "hap" => wait'[c] = wait[c]
    BY <2>1, <2>2, SuspendOne, NoWaitShape
  <2>4. HapCallbacks' = HapCallbacks
    BY <1>11, <2>1 DEF WaitEvent, HapCallbacks
  <2>5. objBranches' = objBranches
    BY <1>11, <2>1 DEF WaitEvent, TypeOK
  <2> QED
    BY <1>11, <2>1, <2>3, <2>4, <2>5, TrackedKept DEF WaitEvent
<1>12. ASSUME NEW b \in Branch, RunInMain(b) PROVE Tracked'
  <2>1. [kind |-> "main", id |-> nextId, obj |-> NoObject] # NoWait
    BY DEF NoWait
  <2> QED
    BY <1>0, <1>12, <2>1, SuspendOne, NoWaitShape, TrackedKept DEF RunInMain, hookVars, objectVars
<1>13. ASSUME NEW o \in Object \cup {NoObject}, HapOccurs(o) PROVE Tracked'
  BY <1>0, <1>13, TrackedKept DEF HapOccurs, objectVars
<1>n. ASSUME NEW o \in Object, NotifierOccurs(o) PROVE Tracked'
  BY <1>0, <1>n, TrackedKept DEF NotifierOccurs, hookVars, objectVars
<1>14. ASSUME NEW k \in Kind \ {"hap"}, NEW o \in Object \cup {NoObject}, EventOccurs(k, o) PROVE Tracked'
  <2>1. HapCallbacks' = HapCallbacks
    BY <1>14 DEF EventOccurs, HapCallbacks, About
  <2> QED
    BY <1>14, <2>1, TrackedKept DEF EventOccurs, objectVars
<1>15. ASSUME NEW i \in Id, RunFunction(i) PROVE Tracked'
  BY <1>0, <1>15, TrackedKept DEF RunFunction, hookVars, objectVars
<1>16. ASSUME NEW o \in Object, DeleteObject(o) PROVE Tracked'
  <2>1. /\ deleting = {} /\ o \notin deleted /\ deleting' = {o} /\ todo' = objBranches[o]
        /\ UNCHANGED <<wait, hooks, objBranches, deleted, late>>
    BY <1>16 DEF DeleteObject, MainFree, hookVars
  <2>2. HapWaiters' = HapWaiters
    BY <2>1 DEF HapWaiters
  <2>3. HapsTracked'
    BY <2>1, <2>2, ZenonT(60) DEF Tracked, HapsTracked, CallbacksOf
  <2>4. \A b \in Branch : wait[b].kind = "hap" /\ wait[b].obj = o => b \in objBranches[o]
    BY <2>1 DEF Tracked, HapsTracked, HapWaiters
  <2>5. Deletion'
    BY <2>1, <2>4 DEF Deletion
  <2> QED
    BY <2>3, <2>5 DEF Tracked
<1>17. CASE UNCHANGED vars
  BY <1>0, <1>17, TrackedKept DEF vars, hookVars, objectVars
<1> QED
  BY <1>1, <1>2, <1>3, <1>4, <1>5, <1>6, <1>7, <1>8, <1>9, <1>10, <1>11, <1>12, <1>13, <1>14,
     <1>n, <1>15, <1>16, <1>17, TrackedHap, TrackedGone
  DEF Next, Command, WaitNotifier, WaitLog, WaitTime, LogWritten, TimeReached, Kind

-----------------------------------------------------------------------------
(* Waits for notifiers.  An identifier in late is that of a wait for a hap *)
(* and never matters here. *)
NotifiersTracked == CallbacksOf("notifier", NotifierWaiters)
NoteRec(b) == [kind |-> "notifier", id |-> wait[b].id, obj |-> wait[b].obj]
NoteCallbacks == {h \in hooks : h.kind = "notifier"}

LEMMA NotifiersKept ==
    ASSUME TypeOK, NotifiersTracked, NoteCallbacks' = NoteCallbacks, deleted' = deleted,
           \A c \in Branch : wait'[c].kind = "notifier" \/ wait[c].kind = "notifier" => wait'[c] = wait[c]
    PROVE  NotifiersTracked'
<1>1. NotifierWaiters' = NotifierWaiters
  BY DEF NotifierWaiters
<1>2. NoteCallbacks = {NoteRec(c) : c \in NotifierWaiters}
  BY Zenon DEF NotifiersTracked, CallbacksOf, NoteCallbacks, NoteRec
<1>3. \A c \in NotifierWaiters : NoteRec(c)' = NoteRec(c)
  BY DEF NotifierWaiters, NoteRec
<1>4. NoteCallbacks' = {NoteRec(c)' : c \in NotifierWaiters'}
  BY <1>1, <1>2, <1>3
<1> QED
  BY <1>4, Zenon DEF NotifiersTracked, CallbacksOf, NoteCallbacks, NoteRec

LEMMA NotifiersLeave ==
    ASSUME TypeOK, Identifiers, NotifiersTracked, NEW b \in Branch, Leave(b), deleted' = deleted
    PROVE  NotifiersTracked'
<1>1. \A c \in Branch : wait'[c] = IF c = b THEN NoWait ELSE wait[c]
  BY LeaveOne
<1>2. NotifierWaiters' = NotifierWaiters \ {b}
  BY <1>1, NoWaitShape DEF NotifierWaiters
<1>3. \A c \in NotifierWaiters : c \in Branch /\ wait[c].kind = "notifier" /\ wait[c].id \in Id
  BY WaitShape DEF NotifierWaiters, TypeOK, Kind
<1>4. NoteCallbacks = {NoteRec(c) : c \in NotifierWaiters}
  BY Zenon DEF NotifiersTracked, CallbacksOf, NoteCallbacks, NoteRec
<1>5. NoteCallbacks' = {h \in NoteCallbacks : ~(wait[b].kind = "notifier" /\ h.id = wait[b].id)}
  BY DEF NoteCallbacks, Leave, OwnHooks
<1>6. \A c \in NotifierWaiters : NoteRec(c).id = wait[c].id
  BY DEF NoteRec
<1>7. \A c \in NotifierWaiters : (wait[b].kind = "notifier" /\ wait[c].id = wait[b].id) <=> c = b
  BY <1>3 DEF Identifiers, OwnWait
<1>8. NoteCallbacks' = {NoteRec(c) : c \in NotifierWaiters \ {b}}
  BY <1>4, <1>5, <1>6, <1>7
<1>9. \A c \in NotifierWaiters \ {b} : NoteRec(c)' = NoteRec(c)
  BY <1>1, <1>3 DEF NoteRec
<1>10. NoteCallbacks' = {NoteRec(c)' : c \in NotifierWaiters'}
  BY <1>2, <1>8, <1>9
<1> QED
  BY <1>10, Zenon DEF NotifiersTracked, CallbacksOf, NoteCallbacks, NoteRec

LEMMA NotifiersWait ==
    ASSUME TypeOK, Suspension, NotifiersTracked, NEW b \in Branch, NEW o \in Object, WaitNotifier(b, o)
    PROVE  NotifiersTracked'
<1> DEFINE w == [kind |-> "notifier", id |-> nextId, obj |-> o]
<1>1. w # NoWait /\ w.kind = "notifier" /\ w.obj = o
  BY DEF NoWait
<1>2. running = b /\ Suspend(b, w) /\ o \notin deleted /\ hooks' = hooks \cup {w} /\ deleted' = deleted
  BY DEF WaitNotifier, WaitEvent
<1> HIDE DEF w
<1>3. wait[b] = NoWait /\ \A c \in Branch : wait'[c] = IF c = b THEN w ELSE wait[c]
  BY <1>1, <1>2, SuspendOne
<1>4. NotifierWaiters' = NotifierWaiters \cup {b}
  BY <1>1, <1>2, <1>3 DEF NotifierWaiters
<1>5. NoteCallbacks' = NoteCallbacks \cup {w}
  BY <1>1, <1>2 DEF NoteCallbacks
<1>6. NoteCallbacks = {NoteRec(c) : c \in NotifierWaiters}
  BY Zenon DEF NotifiersTracked, CallbacksOf, NoteCallbacks, NoteRec
<1>7. NoteRec(b)' = w
  BY <1>3 DEF NoteRec, w
<1>8. \A c \in NotifierWaiters : NoteRec(c)' = NoteRec(c)
  BY <1>3, NoWaitShape DEF NoteRec, NotifierWaiters
<1>9. NoteCallbacks' = {NoteRec(c)' : c \in NotifierWaiters'}
  BY <1>4, <1>5, <1>6, <1>7, <1>8
<1> QED
  BY <1>9, Zenon DEF NotifiersTracked, CallbacksOf, NoteCallbacks, NoteRec

LEMMA NotifiersGone ==
    ASSUME NotifiersTracked, NEW o \in Object, ObjectGone(o)
    PROVE  NotifiersTracked'
<1>1. deleted' = deleted \cup {o} /\ wait' = wait /\ hooks' = {h \in hooks : h.obj # o}
  BY DEF ObjectGone
<1>2. NotifierWaiters' = {c \in NotifierWaiters : wait[c].obj # o}
  BY <1>1 DEF NotifierWaiters
<1>3. NoteCallbacks = {NoteRec(c) : c \in NotifierWaiters}
  BY Zenon DEF NotifiersTracked, CallbacksOf, NoteCallbacks, NoteRec
<1>4. NoteCallbacks' = {h \in NoteCallbacks : h.obj # o}
  BY <1>1 DEF NoteCallbacks
<1>5. \A c \in NotifierWaiters : NoteRec(c)' = NoteRec(c) /\ NoteRec(c).obj = wait[c].obj
  BY <1>1 DEF NoteRec
<1>6. NoteCallbacks' = {NoteRec(c)' : c \in NotifierWaiters'}
  BY <1>2, <1>3, <1>4, <1>5
<1> QED
  BY <1>6, Zenon DEF NotifiersTracked, CallbacksOf, NoteCallbacks, NoteRec

LEMMA NotifiersNext == TypeOK /\ Suspension /\ Identifiers /\ NotifiersTracked /\ [Next]_vars => NotifiersTracked'
<1> SUFFICES ASSUME TypeOK, Suspension, Identifiers, NotifiersTracked, [Next]_vars PROVE NotifiersTracked'
  OBVIOUS
<1>0. hooks' = hooks => NoteCallbacks' = NoteCallbacks
  BY DEF NoteCallbacks
<1>1. ASSUME NEW b \in Branch, Create(b) \/ Exit(b) PROVE NotifiersTracked'
  BY <1>0, <1>1, NotifiersKept DEF Create, Exit, hookVars, objectVars
<1>2. ASSUME NEW b \in Branch, Interrupt(b) \/ InterruptNext(b) PROVE NotifiersTracked'
  BY <1>2, NotifiersLeave DEF Interrupt, InterruptNext, Raise, objectVars
<1>3. ASSUME NEW b \in Branch, Resume(b) PROVE NotifiersTracked'
  <2>1. CASE FindsNothing(b)
    BY <1>0, <1>3, <2>1, NotifiersKept DEF Resume, hookVars, objectVars
  <2>2. CASE ~FindsNothing(b)
    BY <1>3, <2>2, NotifiersLeave DEF Resume, objectVars
  <2> QED
    BY <2>1, <2>2
<1>4. ASSUME NEW x \in Barrier, NEW l \in 0..MaxLimit, SetLimit(x, l) PROVE NotifiersTracked'
  BY <1>0, <1>4, NotifiersKept DEF SetLimit, hookVars, objectVars
<1>5. ASSUME NEW b \in Branch, NEW x \in Barrier, LastAtBarrier(b, x) \/ TooMany(b, x) PROVE NotifiersTracked'
  BY <1>0, <1>5, NotifiersKept DEF LastAtBarrier, TooMany, hookVars, objectVars
<1>6. ASSUME NEW b \in Branch, NEW x \in Barrier, WaitBarrier(b, x) PROVE NotifiersTracked'
  <2>1. [kind |-> "barrier", id |-> x, obj |-> NoObject] # NoWait
    BY DEF NoWait
  <2> QED
    BY <1>0, <1>6, <2>1, SuspendOne, NoWaitShape, NotifiersKept DEF WaitBarrier, hookVars, objectVars
<1>7. ASSUME NEW p \in Pipe, AddData(p) PROVE NotifiersTracked'
  BY <1>0, <1>7, NotifiersKept DEF AddData, hookVars, objectVars
<1>8. ASSUME NEW b \in Branch, NEW p \in Pipe, ReadPipe(b, p) PROVE NotifiersTracked'
  BY <1>0, <1>8, NotifiersKept DEF ReadPipe, hookVars, objectVars
<1>9. ASSUME NEW b \in Branch, NEW p \in Pipe, WaitPipe(b, p) PROVE NotifiersTracked'
  <2>1. [kind |-> "pipe", id |-> p, obj |-> NoObject] # NoWait
    BY DEF NoWait
  <2> QED
    BY <1>0, <1>9, <2>1, SuspendOne, NoWaitShape, NotifiersKept DEF WaitPipe, hookVars, objectVars
<1>10. ASSUME NEW b \in Branch, NEW k \in Kind \ {"notifier"}, NEW o \in Object \cup {NoObject}, WaitEvent(b, k, o)
       PROVE  NotifiersTracked'
  <2>1. [kind |-> k, id |-> nextId, obj |-> o] # NoWait /\ k # "notifier"
    BY DEF NoWait, Kind
  <2>2. running = b /\ Suspend(b, [kind |-> k, id |-> nextId, obj |-> o]) /\ deleted' = deleted
    BY <1>10 DEF WaitEvent
  <2>3. \A c \in Branch : wait'[c].kind = "notifier" \/ wait[c].kind = "notifier" => wait'[c] = wait[c]
    BY <2>1, <2>2, SuspendOne, NoWaitShape
  <2>4. NoteCallbacks' = NoteCallbacks
    BY <1>10, <2>1 DEF WaitEvent, NoteCallbacks
  <2> QED
    BY <2>2, <2>3, <2>4, NotifiersKept
<1>11. ASSUME NEW b \in Branch, RunInMain(b) PROVE NotifiersTracked'
  <2>1. [kind |-> "main", id |-> nextId, obj |-> NoObject] # NoWait
    BY DEF NoWait
  <2> QED
    BY <1>0, <1>11, <2>1, SuspendOne, NoWaitShape, NotifiersKept DEF RunInMain, hookVars, objectVars
<1>12. ASSUME NEW o \in Object \cup {NoObject}, HapOccurs(o) PROVE NotifiersTracked'
  BY <1>0, <1>12, NotifiersKept DEF HapOccurs, objectVars
<1>13. ASSUME NEW o \in Object, NotifierOccurs(o) PROVE NotifiersTracked'
  BY <1>0, <1>13, NotifiersKept DEF NotifierOccurs, hookVars, objectVars
<1>14. ASSUME NEW k \in {"log", "time"}, NEW o \in Object \cup {NoObject}, EventOccurs(k, o)
       PROVE  NotifiersTracked'
  <2>1. NoteCallbacks' = NoteCallbacks
    BY <1>14 DEF EventOccurs, NoteCallbacks, About
  <2> QED
    BY <1>14, <2>1, NotifiersKept DEF EventOccurs, objectVars
<1>15. ASSUME NEW i \in Id, RunFunction(i) PROVE NotifiersTracked'
  BY <1>0, <1>15, NotifiersKept DEF RunFunction, hookVars, objectVars
<1>16. ASSUME NEW o \in Object, DeleteObject(o) PROVE NotifiersTracked'
  BY <1>0, <1>16, NotifiersKept DEF DeleteObject, hookVars
<1>17. CASE UNCHANGED vars
  BY <1>0, <1>17, NotifiersKept DEF vars, hookVars, objectVars
<1> QED
  BY <1>1, <1>2, <1>3, <1>4, <1>5, <1>6, <1>7, <1>8, <1>9, <1>10, <1>11, <1>12, <1>13, <1>14,
     <1>15, <1>16, <1>17, NotifiersWait, NotifiersGone
  DEF Next, Command, WaitHap, WaitLog, WaitTime, LogWritten, TimeReached, Kind

(* Every branch that waits for a hap or a notifier has its callback, the   *)
(* branches that wait for a hap can be found when the object is deleted,   *)
(* and no callback is left behind, whichever way the branches leave their  *)
(* waits.                                                                  *)
THEOREM WaitersAlwaysTracked == Spec => []WaitersTracked
<1>1. Init => Tracked /\ NotifiersTracked
  <2> SUFFICES ASSUME Init PROVE Tracked /\ NotifiersTracked
    OBVIOUS
  <2>1. HapWaiters = {} /\ NotifierWaiters = {}
    BY NoWaitShape DEF Init, HapWaiters, NotifierWaiters
  <2>2. hooks = {} /\ deleting = {} /\ \A o \in Object : objBranches[o] = {}
    BY DEF Init
  <2> QED
    BY <2>1, <2>2 DEF Tracked, HapsTracked, CallbacksOf, Deletion, NotifiersTracked
<1>2. Tracked /\ NotifiersTracked => WaitersTracked
  BY DEF Tracked, NotifiersTracked, WaitersTracked
<1> QED
  BY <1>1, <1>2, IdentifiersAlways, TrackedNext, NotifiersNext, PTL DEF Spec
=============================================================================
