---------------------------- MODULE SloopProofs ----------------------------
(***************************************************************************)
(* Theorems about the event loop: for any number of values, awaits, scopes *)
(* and cancels, and wherever the snoopers yield, values reach the task in  *)
(* order, callbacks of wait are cancelled once, and the exception of a     *)
(* scope stays inside it.                                                  *)
(***************************************************************************)
EXTENDS Sloop, FiniteSetTheorems, SequenceTheorems, TLAPS

(* A queue has an entry, or has it at most once. *)
Has(q, t)  == \E k \in 1..Len(q) : q[k] = t
Once(q, t) == \A j, k \in 1..Len(q) : q[j] = t /\ q[k] = t => j = k

(* At most one handle in the queue resumes the task, and only when the     *)
(* future that it awaits is done.                                          *)
WakesOnce ==
    /\ Has(ready, WakeUp) => pc = "await" /\ fut # "pending"
    /\ Once(ready, WakeUp)
    /\ \A t \in Thunks : Has(ready, t) /\ t.op = "wakeup" => t = WakeUp

(* What SIM_run_alone has queued for a future is for the one of that kind  *)
(* that the task awaits, or for one of the past.                           *)
ThunkArg == 0..MaxAwaits + MaxScopes
AnswersFit ==
    \A n \in ThunkArg :
      /\ Pending("set", n) => n \in 1..cur /\ (pc = "await" /\ n = cur => kind = "next" /\ flight # 0)
      /\ Pending("stop", n) => n \in 1..cur /\ (pc = "await" /\ n = cur => kind = "wait")
      /\ Once(alone, Thunk("stop", n))

(* The iterator has a future only while the task awaits it with nothing    *)
(* queued or on its way, and a result of that future is one on its way.    *)
AwaitFits ==
    /\ armed => pc = "await" /\ kind = "next" /\ fut # "set" /\ flight = 0 /\ queue = <<>>
    /\ flight # 0 => pc = "await" /\ kind = "next" /\ (fut = "pending" => Pending("set", cur))
    /\ pc = "await" /\ kind = "next" /\ fut = "set" => flight # 0
    /\ pc = "await" /\ fut = "cancelled" => by # None
    /\ pc = "await" => cur \in Await

(* Waits to come have no callback yet. *)
WaitsToCome == \A f \in Await : f > cur => handle[f] = "none" /\ ~stopped[f]

(* The values, in the order of their stations. *)
Flown == {flight} \ {0}
Stations ==
    /\ Rising(got) /\ Rising(queue)
    /\ \A x \in Items(got) : (\A y \in Flown \cup Items(queue) : x < y)
    /\ \A x \in Flown : \A y \in Items(queue) : x < y
    /\ Items(got) \cup Flown \cup Items(queue) = (1..yielded) \ lost
    /\ lost \subseteq 1..yielded

(* An identifier that will reach the task is known to an open scope, or    *)
(* excused.                                                                *)
Excused == {None, Foreign} \cup odd
Known == Excused \cup {ident[scopes[k]] : k \in 1..Len(scopes)}
CancelsKnown ==
    /\ pc = "await" => must \in Known
    /\ pc = "await" /\ fut = "cancelled" => by \in Known
    /\ pc = "run" => must \in Excused
    /\ pc = "done" => by \in Excused

(* Each exception that is on its way to a scope is one that has been       *)
(* yielded: an identifier is left for it.                                  *)
Asking(q) == {k \in 1..Len(q) : q[k].op \in {"soon", "propagate"}}
Interrupted == {s \in ScopeId : exc[s] # "none"}
Requests == Cardinality(Asking(alone)) + Cardinality(Asking(ready))
IdentifiersLeft == unique - 1 + Requests <= Cardinality(Interrupted) + errors

IInv ==
    /\ TypeOK /\ WakesOnce /\ AnswersFit /\ AwaitFits /\ HandlesOwned /\ WaitsToCome /\ Stations
    /\ CancelsKnown /\ IdentifiersLeft
-----------------------------------------------------------------------------
(* The queues. *)

(* Entries taken from the front or put at the end leave queues of entries. *)
LEMMA QueueType ==
  ASSUME NEW q \in Seq(Thunks), NEW h \in Thunks
  PROVE  /\ Append(q, h) \in Seq(Thunks)
         /\ q # <<>> => Tail(q) \in Seq(Thunks) /\ Head(q) \in Thunks
BY AppendProperties, HeadTailProperties

(* An entry at the end asks for one identifier or none. *)
LEMMA AskingAppended ==
  ASSUME NEW q \in Seq(Thunks), NEW h \in Thunks
  PROVE  /\ IsFiniteSet(Asking(q)) /\ Cardinality(Asking(q)) \in Nat
         /\ h.op \in {"soon", "propagate"} => Cardinality(Asking(Append(q, h))) = Cardinality(Asking(q)) + 1
         /\ h.op \notin {"soon", "propagate"} => Cardinality(Asking(Append(q, h))) = Cardinality(Asking(q))
<1>1. IsFiniteSet(Asking(q)) /\ Cardinality(Asking(q)) \in Nat
  <2>1. Len(q) \in Nat
    BY LenProperties
  <2>2. IsFiniteSet(1..Len(q))
    BY <2>1, FS_Interval
  <2>3. QED
    BY <2>2, FS_Subset, FS_CardinalityType DEF Asking
<1>2. Asking(Append(q, h)) = Asking(q) \cup (IF h.op \in {"soon", "propagate"} THEN {Len(q) + 1} ELSE {})
  BY AppendProperties, LenProperties DEF Asking
<1>3. Len(q) + 1 \notin Asking(q)
  BY LenProperties DEF Asking
<1>4. QED
  BY <1>1, <1>2, <1>3, FS_AddElement

(* Taking the front entry takes its request. *)
LEMMA AskingTail ==
  ASSUME NEW q \in Seq(Thunks), q # <<>>
  PROVE  /\ Head(q).op \in {"soon", "propagate"} => Cardinality(Asking(Tail(q))) = Cardinality(Asking(q)) - 1
         /\ Head(q).op \notin {"soon", "propagate"} => Cardinality(Asking(Tail(q))) = Cardinality(Asking(q))
<1>1. Len(q) \in Nat /\ Len(q) > 0 /\ Tail(q) \in Seq(Thunks) /\ Len(Tail(q)) = Len(q) - 1
  BY HeadTailProperties, LenProperties, EmptySeq
<1>2. \A k \in 1..Len(q) - 1 : Tail(q)[k] = q[k + 1]
  BY <1>1, HeadTailProperties
<1>3. Head(q) = q[1]
  BY HeadTailProperties
<1> DEFINE R == Asking(q) \ {1}
<1>4. IsFiniteSet(Asking(q)) /\ IsFiniteSet(R)
  <2>1. IsFiniteSet(1..Len(q))
    BY <1>1, FS_Interval
  <2>2. QED
    BY <2>1, FS_Subset DEF Asking
<1>5. Cardinality(Asking(Tail(q))) = Cardinality(R)
  <2> DEFINE f == [k \in R |-> k - 1]
  <2>1. f \in Bijection(R, Asking(Tail(q)))
    <3>1. \A k \in R : k - 1 \in Asking(Tail(q))
      BY <1>1, <1>2 DEF Asking
    <3>2. \A j \in Asking(Tail(q)) : j + 1 \in R /\ j \in Int
      BY <1>1, <1>2 DEF Asking
    <3>3. \A j, k \in R : f[j] = f[k] => j = k
      BY <1>1 DEF Asking
    <3>4. \A j \in Asking(Tail(q)) : f[j + 1] = j
      BY <3>2
    <3>5. f \in [R -> Asking(Tail(q))] /\ DOMAIN f = R
      BY <3>1
    <3> HIDE DEF f, R
    <3>6. f \in Injection(R, Asking(Tail(q)))
      BY <3>3, <3>5 DEF Injection, IsInjective
    <3>7. f \in Surjection(R, Asking(Tail(q)))
      BY <3>2, <3>4, <3>5 DEF Surjection
    <3>8. QED
      BY <3>6, <3>7 DEF Bijection
  <2>2. QED
    BY <1>4, <2>1, FS_Bijection DEF ExistsBijection
<1>6. 1 \in Asking(q) <=> Head(q).op \in {"soon", "propagate"}
  BY <1>1, <1>3 DEF Asking
<1>7. Cardinality(R) = IF 1 \in Asking(q) THEN Cardinality(Asking(q)) - 1 ELSE Cardinality(Asking(q))
  BY <1>4, FS_RemoveElement
<1>8. QED
  BY <1>5, <1>6, <1>7
-----------------------------------------------------------------------------
(* Types. *)
LoopTyped == alone \in Seq(Thunks) /\ ready \in Seq(Thunks) /\ asleep \in BOOLEAN
FutTyped ==
    /\ pc \in {"run", "await", "done"} /\ cur \in 0..MaxAwaits
    /\ kind \in {"next", "wait"} /\ fut \in {"pending", "set", "cancelled"}
    /\ {by, must} \subseteq Ident
IterTyped ==
    /\ yielded \in 0..MaxItems /\ flight \in 0..MaxItems /\ armed \in BOOLEAN
    /\ queue \in Seq(1..MaxItems) /\ got \in Seq(1..MaxItems)
    /\ lost \subseteq 1..MaxItems
WaitTyped == handle \in [Await -> {"none", "on", "off"}] /\ stopped \in [Await -> BOOLEAN]
ScopeTyped ==
    /\ scopes \in Seq(ScopeId) /\ entered \in 0..MaxScopes
    /\ ident \in [ScopeId -> Ident]
    /\ exc \in [ScopeId -> {"none", "timeout", "error"}]
    /\ unique \in 1..MaxIdent + 1
    /\ errors \in 0..MaxErrors /\ cancels \in 0..MaxCancels
    /\ odd \subseteq Ident

LEMMA TypeParts ==
  /\ TypeOK <=> /\ LoopTyped /\ FutTyped /\ IterTyped /\ WaitTyped /\ ScopeTyped
                /\ {running, broken} \subseteq BOOLEAN
  /\ TypeOK' <=> /\ LoopTyped' /\ FutTyped' /\ IterTyped' /\ WaitTyped' /\ ScopeTyped'
                 /\ {running', broken'} \subseteq BOOLEAN
BY DEF TypeOK, LoopTyped, FutTyped, IterTyped, WaitTyped, ScopeTyped

(* The thunks that the program makes. *)
LEMMA ThunkType ==
  /\ Quiesce \in Thunks /\ WakeUp \in Thunks
  /\ \A op \in ThunkOp, n \in 0..MaxAwaits + MaxScopes : Thunk(op, n) \in Thunks
BY BoundsAssumption DEF Quiesce, WakeUp, Thunk, Thunks, ThunkOp

(* The queues stay queues of entries. *)
LEMMA CallSoonType ==
  ASSUME LoopTyped, NEW h \in Thunks, NEW r \in Seq(Thunks), NEW a \in Seq(Thunks),
         Quiet(r, a) \/ CallSoon(h, r, a)
  PROVE  LoopTyped'
<1>1. Append(r, h) \in Seq(Thunks) /\ Append(a, Quiesce) \in Seq(Thunks)
  BY ThunkType, QueueType
<1>2. QED
  BY <1>1 DEF LoopTyped, Quiet, CallSoon

LEMMA SetResultType ==
  ASSUME LoopTyped, FutTyped, NEW f, NEW r \in Seq(Thunks), NEW a \in Seq(Thunks), SetResult(f, r, a)
  PROVE  LoopTyped' /\ FutTyped'
<1>1. LoopTyped'
  BY CallSoonType, ThunkType DEF SetResult
<1>2. FutTyped'
  BY DEF SetResult, FutTyped, futVars
<1>3. QED
  BY <1>1, <1>2

LEMMA CancelType ==
  ASSUME LoopTyped, FutTyped, NEW i \in Ident, NEW r \in Seq(Thunks), NEW a \in Seq(Thunks), Cancel(i, r, a)
  PROVE  LoopTyped' /\ FutTyped'
<1>1. LoopTyped'
  BY CallSoonType, ThunkType DEF Cancel
<1>2. FutTyped'
  BY DEF Cancel, FutTyped
<1>3. QED
  BY <1>1, <1>2

(* An identifier is left for a scope that asks for one. *)
LEMMA PropagateType ==
  ASSUME LoopTyped, FutTyped, ScopeTyped, NEW s, NEW r \in Seq(Thunks), NEW a \in Seq(Thunks),
         Propagate(s, r, a), unique <= MaxIdent
  PROVE  /\ LoopTyped' /\ FutTyped'
         /\ ident' \in [ScopeId -> Ident] /\ unique' \in 1..MaxIdent + 1 /\ odd' \subseteq Ident
<1>1. CASE IsOpen(s)
  <2>1. s \in ScopeId
    BY <1>1, ElementOfSeq DEF IsOpen, ScopeTyped
  <2>2. MaxIdent \in Nat /\ unique \in Ident
    BY BoundsAssumption DEF ScopeTyped, Ident, MaxIdent
  <2>3. LoopTyped' /\ FutTyped'
    BY <1>1, <2>2, CancelType DEF Propagate
  <2>4. unique' \in 1..MaxIdent + 1
    BY <1>1, <2>2 DEF Propagate, ScopeTyped
  <2>5. ident' \in [ScopeId -> Ident] /\ odd' \subseteq Ident
    <3>1. ident' = [ident EXCEPT ![s] = unique] /\ ident[s] \in Ident
      BY <1>1, <2>1 DEF Propagate, ScopeTyped
    <3>2. odd' \subseteq odd \cup {ident[s]} \cup {unique}
      BY <1>1 DEF Propagate
    <3>3. QED
      BY <2>2, <3>1, <3>2 DEF ScopeTyped
  <2>6. QED
    BY <2>3, <2>4, <2>5
<1>2. CASE ~IsOpen(s)
  <2>1. LoopTyped'
    BY <1>2, CallSoonType, ThunkType DEF Propagate
  <2>2. QED
    BY <1>2, <2>1 DEF Propagate, ScopeTyped, FutTyped, futVars
<1>3. QED
  BY <1>1, <1>2

(* While an exception is on its way to a scope, an identifier is left. *)
LEMMA InterruptedFinite ==
  ASSUME ScopeTyped
  PROVE  IsFiniteSet(Interrupted) /\ Cardinality(Interrupted) \in 0..MaxScopes
<1>1. MaxScopes \in Nat
  BY BoundsAssumption
<1>2. IsFiniteSet(ScopeId) /\ Cardinality(ScopeId) = MaxScopes
  BY <1>1, FS_Interval DEF ScopeId
<1>3. Interrupted \subseteq ScopeId
  BY DEF Interrupted
<1>4. IsFiniteSet(Interrupted) /\ Cardinality(Interrupted) <= Cardinality(ScopeId)
  BY <1>2, <1>3, FS_Subset
<1>5. Cardinality(Interrupted) \in Nat
  BY <1>4, FS_CardinalityType
<1>6. QED
  BY <1>1, <1>2, <1>4, <1>5

LEMMA IdentifierLeft ==
  ASSUME LoopTyped, ScopeTyped, IdentifiersLeft,
         \/ alone # <<>> /\ Head(alone).op \in {"soon", "propagate"}
         \/ ready # <<>> /\ Head(ready).op \in {"soon", "propagate"}
  PROVE  unique <= MaxIdent
<1>1. /\ IsFiniteSet(Asking(alone)) /\ Cardinality(Asking(alone)) \in Nat
      /\ IsFiniteSet(Asking(ready)) /\ Cardinality(Asking(ready)) \in Nat
  BY AskingAppended, ThunkType DEF LoopTyped
<1>2. Asking(alone) # {} \/ Asking(ready) # {}
  <2>1. \A q \in Seq(Thunks) : q # <<>> /\ Head(q).op \in {"soon", "propagate"} => 1 \in Asking(q)
    BY HeadTailProperties, LenProperties, EmptySeq DEF Asking
  <2>2. QED
    BY <2>1 DEF LoopTyped
<1>3. Cardinality(Asking(alone)) + Cardinality(Asking(ready)) >= 1
  BY <1>1, <1>2, FS_EmptySet
<1>4. Cardinality(Interrupted) \in 0..MaxScopes /\ errors \in 0..MaxErrors /\ unique \in Int
  BY InterruptedFinite DEF ScopeTyped
<1>5. MaxScopes \in Nat /\ MaxErrors \in Nat
  BY BoundsAssumption
<1>6. QED
  BY <1>1, <1>3, <1>4, <1>5 DEF IdentifiersLeft, Requests, MaxIdent
-----------------------------------------------------------------------------
(* What the operations on the queues do to their entries. *)
LEMMA AppendedEntries ==
  ASSUME NEW q \in Seq(Thunks), NEW h \in Thunks, NEW t
  PROVE  /\ Has(Append(q, h), t) <=> Has(q, t) \/ h = t
         /\ Once(q, t) /\ (h = t => ~Has(q, t)) => Once(Append(q, h), t)
<1>1. /\ Len(q) \in Nat /\ Len(Append(q, h)) = Len(q) + 1
      /\ \A k \in 1..Len(q) : Append(q, h)[k] = q[k]
      /\ Append(q, h)[Len(q) + 1] = h
  BY AppendProperties, LenProperties
<1> DEFINE w == Append(q, h)
<1> HIDE DEF w
<1>2. /\ Len(q) \in Nat /\ Len(w) = Len(q) + 1
      /\ \A k \in 1..Len(q) : w[k] = q[k]
      /\ w[Len(q) + 1] = h
  BY <1>1 DEF w
<1>3. Has(w, t) <=> Has(q, t) \/ h = t
  BY <1>2 DEF Has
<1>4. Once(q, t) /\ (h = t => ~Has(q, t)) => Once(w, t)
  BY <1>2 DEF Has, Once
<1>5. QED
  BY <1>3, <1>4 DEF w

LEMMA TailEntries ==
  ASSUME NEW q \in Seq(Thunks), q # <<>>, NEW t
  PROVE  /\ Head(q) \in Thunks /\ Tail(q) \in Seq(Thunks)
         /\ Has(q, t) <=> Head(q) = t \/ Has(Tail(q), t)
         /\ Once(q, t) => Once(Tail(q), t) /\ (Head(q) = t => ~Has(Tail(q), t))
<1>1. /\ Len(q) \in Nat /\ Len(q) > 0 /\ Len(Tail(q)) = Len(q) - 1
      /\ \A k \in 1..Len(q) - 1 : Tail(q)[k] = q[k + 1]
      /\ Head(q) = q[1]
  BY HeadTailProperties, LenProperties, EmptySeq
<1> DEFINE w == Tail(q)
           h == Head(q)
<1> HIDE DEF w, h
<1>2. /\ Len(q) \in Nat /\ Len(q) > 0 /\ Len(w) = Len(q) - 1
      /\ \A k \in 1..Len(q) - 1 : w[k] = q[k + 1]
      /\ h = q[1]
  BY <1>1 DEF w, h
<1>3. Has(q, t) <=> h = t \/ Has(w, t)
  <2>1. Has(w, t) => Has(q, t)
    BY <1>2 DEF Has
  <2>2. Has(q, t) /\ h # t => Has(w, t)
    <3>1. SUFFICES ASSUME NEW k \in 1..Len(q), q[k] = t, h # t
                   PROVE  Has(w, t)
      BY DEF Has
    <3>2. k - 1 \in 1..Len(w) /\ w[k - 1] = t
      BY <1>2, <3>1
    <3>3. QED
      BY <3>2 DEF Has
  <2>3. h = t => Has(q, t)
    <3>1. 1 \in 1..Len(q)
      BY <1>2
    <3>2. QED
      BY <1>2, <3>1 DEF Has
  <2>4. QED
    BY <2>1, <2>2, <2>3
<1>4. Once(q, t) => Once(w, t) /\ (h = t => ~Has(w, t))
  <2>1. SUFFICES ASSUME Once(q, t)
                 PROVE  Once(w, t) /\ (h = t => ~Has(w, t))
    OBVIOUS
  <2>2. ASSUME NEW j \in 1..Len(w), NEW k \in 1..Len(w), w[j] = t, w[k] = t
        PROVE  j = k
    <3>1. j + 1 \in 1..Len(q) /\ k + 1 \in 1..Len(q) /\ q[j + 1] = t /\ q[k + 1] = t
      BY <1>2, <2>2
    <3>2. QED
      BY <2>1, <2>2, <3>1 DEF Once
  <2>3. ASSUME h = t, NEW k \in 1..Len(w), w[k] = t
        PROVE  FALSE
    <3>1. k + 1 \in 1..Len(q) /\ 1 \in 1..Len(q) /\ q[k + 1] = t /\ q[1] = t /\ k + 1 # 1
      BY <1>2, <2>3
    <3>2. QED
      BY <2>1, <3>1 DEF Once
  <2>4. QED
    BY <2>2, <2>3 DEF Once, Has
<1>5. QED
  BY <1>3, <1>4, QueueType DEF w, h

(* What a caller may have left of a queue: all of it, or all but its front *)
(* entry.                                                                  *)
RestOf(r, q) == r = q \/ (q # <<>> /\ r = Tail(q))

LEMMA RestEntries ==
  ASSUME NEW q \in Seq(Thunks), NEW r, RestOf(r, q), NEW t
  PROVE  /\ r \in Seq(Thunks)
         /\ Has(r, t) => Has(q, t)
         /\ Once(q, t) => Once(r, t)
<1>1. CASE r = q
  BY <1>1
<1>2. CASE q # <<>> /\ r = Tail(q)
  BY <1>2, TailEntries
<1>3. QED
  BY <1>1, <1>2 DEF RestOf

(* An entry for the loop does not touch what SIM_run_alone has queued for  *)
(* futures.                                                                *)
LEMMA CallSoonEntries ==
  ASSUME LoopTyped, NEW h \in Thunks, NEW r \in Seq(Thunks), NEW a \in Seq(Thunks), NEW t,
         Quiet(r, a) \/ CallSoon(h, r, a)
  PROVE  /\ t # Quiesce => (Has(alone', t) <=> Has(a, t)) /\ (Once(a, t) => Once(alone', t))
         /\ Quiet(r, a) => ready' = r
         /\ CallSoon(h, r, a) => ready' = Append(r, h)
<1>1. CASE alone' = a
  BY <1>1 DEF Quiet, CallSoon
<1>2. CASE alone' = Append(a, Quiesce)
  <2>1. /\ Has(alone', t) <=> Has(a, t) \/ Quiesce = t
        /\ Once(a, t) /\ (Quiesce = t => ~Has(a, t)) => Once(alone', t)
    BY <1>2, ThunkType, AppendedEntries
  <2>2. QED
    BY <2>1 DEF Quiet, CallSoon
<1>3. QED
  BY <1>1, <1>2 DEF Quiet, CallSoon

(* Whatever is done with the future of the task and with the handles of    *)
(* the loop, in a handler or while SIM_run_alone is being served.          *)
Handling(r, a) ==
    \/ \E f : SetResult(f, r, a)
    \/ \E i : Cancel(i, r, a)
    \/ Quiet(r, a) /\ UNCHANGED futVars
    \/ \E h \in Thunks : h.op = "propagate" /\ CallSoon(h, r, a) /\ UNCHANGED futVars

LEMMA PropagateHandles ==
  ASSUME NEW s, NEW r, NEW a, Propagate(s, r, a)
  PROVE  Handling(r, a)
BY DEF Propagate, Handling

LEMMA HandlingKeepsWakes ==
  ASSUME LoopTyped, FutTyped, WakesOnce, NEW r, RestOf(r, ready), NEW a \in Seq(Thunks), Handling(r, a)
  PROVE  WakesOnce' /\ LoopTyped'
<1>1. /\ r \in Seq(Thunks) /\ ready \in Seq(Thunks)
      /\ Has(r, WakeUp) => pc = "await" /\ fut # "pending"
      /\ Once(r, WakeUp)
      /\ \A t \in Thunks : Has(r, t) /\ t.op = "wakeup" => t = WakeUp
  BY RestEntries DEF WakesOnce, LoopTyped
<1>2. WakeUp \in Thunks /\ WakeUp.op = "wakeup"
  BY ThunkType DEF WakeUp, Thunk
<1>3. ASSUME ready' = r, UNCHANGED futVars
      PROVE  WakesOnce'
  BY <1>1, <1>3 DEF WakesOnce, futVars
<1>4. ASSUME ready' = Append(r, WakeUp), pc = "await", fut = "pending", pc' = pc, fut' \in {"set", "cancelled"}
      PROVE  WakesOnce'
  BY <1>1, <1>2, <1>4, AppendedEntries DEF WakesOnce
<1>5. ASSUME NEW h \in Thunks, h.op = "propagate", ready' = Append(r, h), UNCHANGED futVars
      PROVE  WakesOnce'
  BY <1>1, <1>2, <1>5, AppendedEntries DEF WakesOnce, futVars
<1>6. ASSUME NEW i, Cancel(i, r, a), ~Awaits(cur)
      PROVE  WakesOnce'
  BY <1>1, <1>6 DEF WakesOnce, Cancel, Quiet
<1>7. WakesOnce'
  <2>1. ASSUME NEW f, SetResult(f, r, a) PROVE WakesOnce'
    BY <1>3, <1>4, <2>1 DEF SetResult, Awaits, Quiet, CallSoon
  <2>2. ASSUME NEW i, Cancel(i, r, a) PROVE WakesOnce'
    BY <1>4, <1>6, <2>2 DEF Cancel, Awaits, CallSoon
  <2>3. QED
    BY <1>3, <1>5, <2>1, <2>2 DEF Handling, Quiet, CallSoon
<1>8. LoopTyped'
  <2>1. ASSUME NEW f, SetResult(f, r, a) PROVE LoopTyped'
    BY <1>1, <2>1, SetResultType
  <2>2. ASSUME NEW i, Cancel(i, r, a) PROVE LoopTyped'
    BY <1>1, <1>2, <2>2, CallSoonType DEF Cancel
  <2>3. QED
    BY <1>1, <1>2, <2>1, <2>2, CallSoonType DEF Handling
<1>9. QED
  BY <1>7, <1>8

(* SIM_run_alone keeps what it has queued for futures, but for the entry   *)
(* that it serves.                                                         *)
LEMMA HandlingKeepsAnswers ==
  ASSUME LoopTyped, FutTyped, AnswersFit, NEW r \in Seq(Thunks), NEW a \in Seq(Thunks),
         Handling(r, a), flight # 0 => flight' # 0,
         \/ RestOf(a, alone)
         \/ \E h \in Thunks : h.op \in {"soon", "propagate"} /\ a = Append(alone, h)
  PROVE  /\ AnswersFit' /\ pc' = pc /\ cur' = cur /\ kind' = kind
         /\ \A op \in {"set", "stop"}, n \in ThunkArg :
              /\ Pending(op, n)' => Pending(op, n)
              /\ Pending(op, n) => Pending(op, n)' \/ (RestOf(a, alone) /\ a # alone /\ Head(alone) = Thunk(op, n))
<1>1. pc' = pc /\ cur' = cur /\ kind' = kind
  <2>1. ASSUME NEW f, SetResult(f, r, a) PROVE pc' = pc /\ cur' = cur /\ kind' = kind
    BY <2>1 DEF SetResult, futVars
  <2>2. ASSUME NEW i, Cancel(i, r, a) PROVE pc' = pc /\ cur' = cur /\ kind' = kind
    BY <2>2 DEF Cancel
  <2>3. QED
    BY <2>1, <2>2 DEF Handling, futVars
<1>2. \/ Quiet(r, a)
      \/ \E h \in Thunks : CallSoon(h, r, a)
  <2>1. ASSUME NEW f, SetResult(f, r, a) PROVE Quiet(r, a) \/ CallSoon(WakeUp, r, a)
    BY <2>1 DEF SetResult
  <2>2. ASSUME NEW i, Cancel(i, r, a) PROVE Quiet(r, a) \/ CallSoon(WakeUp, r, a)
    BY <2>2 DEF Cancel
  <2>3. QED
    BY <2>1, <2>2, ThunkType DEF Handling
<1>3. \A op \in {"set", "stop"}, n \in ThunkArg : Thunk(op, n) \in Thunks /\ Thunk(op, n) # Quiesce
  BY ThunkType DEF ThunkOp, Thunk, Quiesce, ThunkArg
<1>4. ASSUME NEW op \in {"set", "stop"}, NEW n \in ThunkArg
      PROVE  /\ Pending(op, n)' <=> Has(a, Thunk(op, n))
             /\ Once(a, Thunk(op, n)) => Once(alone', Thunk(op, n))
  <2> DEFINE t == Thunk(op, n)
  <2>1. t # Quiesce
    BY <1>3
  <2> HIDE DEF t
  <2>2. (Has(alone', t) <=> Has(a, t)) /\ (Once(a, t) => Once(alone', t))
    BY <1>2, <2>1, CallSoonEntries, ThunkType
  <2>3. QED
    BY <2>2 DEF t, Has, Pending
<1>5. ASSUME NEW op \in {"set", "stop"}, NEW n \in ThunkArg
      PROVE  /\ Has(a, Thunk(op, n)) => Pending(op, n)
             /\ Pending(op, n) =>
                  Has(a, Thunk(op, n)) \/ (RestOf(a, alone) /\ a # alone /\ Head(alone) = Thunk(op, n))
             /\ Once(alone, Thunk(op, n)) => Once(a, Thunk(op, n))
  <2> DEFINE t == Thunk(op, n)
  <2>1. t.op = op /\ alone \in Seq(Thunks)
    BY DEF Thunk, LoopTyped
  <2> HIDE DEF t
  <2>2. CASE a = alone
    BY <2>2 DEF Has, Pending, t
  <2>3. CASE alone # <<>> /\ a = Tail(alone)
    <3>1. /\ Has(alone, t) <=> Head(alone) = t \/ Has(a, t)
          /\ Once(alone, t) => Once(a, t)
      BY <2>1, <2>3, TailEntries
    <3>2. RestOf(a, alone)
      BY <2>3 DEF RestOf
    <3>3. QED
      BY <2>2, <3>1, <3>2 DEF Has, Pending, t
  <2>4. ASSUME NEW h \in Thunks, h.op \in {"soon", "propagate"}, a = Append(alone, h)
        PROVE  (Has(alone, t) <=> Has(a, t)) /\ (Once(alone, t) => Once(a, t))
    <3>1. h # t
      BY <2>1, <2>4
    <3>2. QED
      BY <2>1, <2>4, <3>1, AppendedEntries
  <2>5. QED
    BY <2>2, <2>3, <2>4 DEF Has, Pending, t, RestOf
<1>6. AnswersFit'
  <2>1. SUFFICES ASSUME NEW n \in ThunkArg
                 PROVE  /\ Pending("set", n)' => n \in 1..cur' /\ (pc' = "await" /\ n = cur' => kind' = "next" /\ flight' # 0)
                        /\ Pending("stop", n)' => n \in 1..cur' /\ (pc' = "await" /\ n = cur' => kind' = "wait")
                        /\ Once(alone', Thunk("stop", n))
    BY DEF AnswersFit
  <2>2. (Pending("set", n)' => Pending("set", n)) /\ (Pending("stop", n)' => Pending("stop", n))
    BY <1>4, <1>5
  <2>3. Once(alone', Thunk("stop", n))
    BY <1>4, <1>5 DEF AnswersFit
  <2>4. QED
    BY <1>1, <2>2, <2>3 DEF AnswersFit
<1>7. QED
  BY <1>1, <1>4, <1>5, <1>6

(* The requests for identifiers. *)
Requested(h) == IF h.op \in {"soon", "propagate"} THEN 1 ELSE 0

LEMMA RequestsRest ==
  ASSUME NEW q \in Seq(Thunks), NEW r, RestOf(r, q)
  PROVE  /\ Cardinality(Asking(q)) \in Nat /\ Cardinality(Asking(r)) \in Nat
         /\ Cardinality(Asking(r)) = Cardinality(Asking(q)) - (IF r = q THEN 0 ELSE Requested(Head(q)))
<1>1. r \in Seq(Thunks)
  BY RestEntries
<1>2. Cardinality(Asking(q)) \in Nat /\ Cardinality(Asking(r)) \in Nat
  BY <1>1, AskingAppended, ThunkType
<1>3. CASE r = q
  BY <1>2, <1>3
<1>4. CASE q # <<>> /\ r = Tail(q)
  <2>1. r # q
    BY <1>4, HeadTailProperties, LenProperties
  <2>2. CASE Head(q).op \in {"soon", "propagate"}
    BY <1>2, <1>4, <2>1, <2>2, AskingTail DEF Requested
  <2>3. CASE Head(q).op \notin {"soon", "propagate"}
    BY <1>2, <1>4, <2>1, <2>3, AskingTail DEF Requested
  <2>4. QED
    BY <2>2, <2>3
<1>5. QED
  BY <1>3, <1>4 DEF RestOf

LEMMA CallSoonRequests ==
  ASSUME NEW h \in Thunks, NEW r \in Seq(Thunks), NEW a \in Seq(Thunks)
  PROVE  /\ Quiet(r, a) => Requests' = Cardinality(Asking(a)) + Cardinality(Asking(r))
         /\ CallSoon(h, r, a) => Requests' = Cardinality(Asking(a)) + Cardinality(Asking(r)) + Requested(h)
<1>1. Quiesce \in Thunks /\ Quiesce.op = "quiesce"
  BY ThunkType DEF Quiesce, Thunk
<1>2. Cardinality(Asking(a)) \in Nat /\ Cardinality(Asking(r)) \in Nat
  BY AskingAppended, <1>1
<1>3. Cardinality(Asking(Append(a, Quiesce))) = Cardinality(Asking(a))
  BY <1>1, AskingAppended
<1>4. Cardinality(Asking(Append(r, h))) = Cardinality(Asking(r)) + Requested(h)
  BY <1>2, AskingAppended DEF Requested
<1>5. Requests' = Cardinality(Asking(alone')) + Cardinality(Asking(ready'))
  BY DEF Requests, Asking
<1>6. CASE Quiet(r, a)
  <2>1. ~CallSoon(h, r, a) \/ Len(Append(r, h)) = Len(r)
    BY <1>6 DEF Quiet, CallSoon
  <2>2. Len(Append(r, h)) = Len(r) + 1 /\ Len(r) \in Nat
    BY AppendProperties, LenProperties
  <2>3. QED
    BY <1>5, <1>6, <2>1, <2>2 DEF Quiet
<1>7. CASE CallSoon(h, r, a)
  <2>1. ready' = Append(r, h) /\ Len(Append(r, h)) = Len(r) + 1 /\ Len(r) \in Nat
    BY <1>7, AppendProperties, LenProperties DEF CallSoon
  <2>2. ~Quiet(r, a)
    BY <2>1 DEF Quiet
  <2>3. Cardinality(Asking(alone')) = Cardinality(Asking(a))
    BY <1>3, <1>7 DEF CallSoon
  <2>4. Cardinality(Asking(ready')) = Cardinality(Asking(r)) + Requested(h)
    BY <1>4, <2>1
  <2>5. Requests' = Cardinality(Asking(a)) + (Cardinality(Asking(r)) + Requested(h)) /\ Requested(h) \in Nat
    BY <1>5, <2>3, <2>4 DEF Requested
  <2>6. QED
    BY <1>2, <2>2, <2>5
<1>8. QED
  BY <1>6, <1>7

LEMMA FutureRequests ==
  ASSUME NEW r \in Seq(Thunks), NEW a \in Seq(Thunks),
         (\E f : SetResult(f, r, a)) \/ (\E i : Cancel(i, r, a)) \/ Quiet(r, a)
  PROVE  Requests' = Cardinality(Asking(a)) + Cardinality(Asking(r))
<1>1. WakeUp \in Thunks /\ Requested(WakeUp) = 0
  BY ThunkType DEF WakeUp, Thunk, Requested
<1>2. Cardinality(Asking(a)) \in Nat /\ Cardinality(Asking(r)) \in Nat
  BY AskingAppended, <1>1
<1>3. ASSUME NEW f, SetResult(f, r, a) PROVE Quiet(r, a) \/ CallSoon(WakeUp, r, a)
  BY <1>3 DEF SetResult
<1>4. ASSUME NEW i, Cancel(i, r, a) PROVE Quiet(r, a) \/ CallSoon(WakeUp, r, a)
  BY <1>4 DEF Cancel
<1>5. QED
  BY <1>1, <1>2, <1>3, <1>4, CallSoonRequests
-----------------------------------------------------------------------------
(* The steps that snoopers take. *)

(* A value behind smaller ones. *)
LEMMA RisingAppended ==
  ASSUME NEW s \in Seq(1..MaxItems), NEW v \in 1..MaxItems
  PROVE  /\ Append(s, v) \in Seq(1..MaxItems) /\ Items(Append(s, v)) = Items(s) \cup {v}
         /\ Rising(s) /\ (\A x \in Items(s) : x < v) => Rising(Append(s, v))
<1> DEFINE w == Append(s, v)
<1>1. /\ Len(s) \in Nat /\ w \in Seq(1..MaxItems) /\ Len(w) = Len(s) + 1
      /\ \A k \in 1..Len(s) : w[k] = s[k]
      /\ w[Len(s) + 1] = v
  BY AppendProperties, LenProperties
<1> HIDE DEF w
<1>2. Items(w) = Items(s) \cup {v}
  BY <1>1 DEF Items
<1>3. ASSUME Rising(s), \A x \in Items(s) : x < v, NEW i \in 1..Len(w), NEW j \in 1..Len(w), i < j
      PROVE  w[i] < w[j]
  <2>1. i \in 1..Len(s)
    BY <1>1, <1>3
  <2>2. CASE j \in 1..Len(s)
    BY <1>1, <1>3, <2>1, <2>2 DEF Rising
  <2>3. CASE j = Len(s) + 1
    BY <1>1, <1>3, <2>1, <2>3 DEF Items
  <2>4. QED
    BY <1>1, <2>2, <2>3
<1>4. Rising(s) /\ (\A x \in Items(s) : x < v) => Rising(w)
  BY <1>3 DEF Rising
<1>5. QED
  BY <1>1, <1>2, <1>4 DEF w

(* The first of rising values is the smallest. *)
LEMMA RisingTail ==
  ASSUME NEW s \in Seq(1..MaxItems), s # <<>>
  PROVE  /\ Tail(s) \in Seq(1..MaxItems) /\ Head(s) \in 1..MaxItems
         /\ Items(s) = {Head(s)} \cup Items(Tail(s))
         /\ Rising(s) => Rising(Tail(s)) /\ \A x \in Items(Tail(s)) : Head(s) < x
<1> DEFINE w == Tail(s)
           h == Head(s)
<1>1. /\ Len(s) \in Nat /\ Len(s) > 0 /\ w \in Seq(1..MaxItems) /\ Len(w) = Len(s) - 1
      /\ \A k \in 1..Len(s) - 1 : w[k] = s[k + 1]
      /\ h = s[1] /\ h \in 1..MaxItems
  <2> DEFINE S == 1..MaxItems
  <2> HIDE DEF S
  <2>1. /\ w \in Seq(S) /\ Len(w) = Len(s) - 1 /\ h = s[1] /\ h \in S
        /\ \A k \in 1..Len(w) : w[k] = s[k + 1]
    <3>1. s \in Seq(S) /\ s # <<>>
      BY DEF S
    <3>2. /\ Head(s) \in S /\ Tail(s) \in Seq(S) /\ Len(Tail(s)) = Len(s) - 1
          /\ \A k \in 1..Len(Tail(s)) : Tail(s)[k] = s[k + 1]
      BY <3>1, HeadTailProperties
    <3>3. Head(s) = s[1]
      BY <3>1
    <3>4. QED
      BY <3>2, <3>3
  <2>2. Len(s) \in Nat /\ Len(s) # 0
    BY LenProperties, EmptySeq
  <2>3. QED
    BY <2>1, <2>2 DEF S
<1> HIDE DEF w, h
<1>2. \A k \in 2..Len(s) : k - 1 \in 1..Len(w) /\ w[k - 1] = s[k]
  BY <1>1
<1>3. Items(s) = {h} \cup Items(w)
  <2>1. Items(w) \subseteq Items(s)
    BY <1>1 DEF Items
  <2>2. \A k \in 1..Len(s) : s[k] \in {h} \cup Items(w)
    BY <1>1, <1>2 DEF Items
  <2>3. 1 \in 1..Len(s)
    BY <1>1
  <2>4. QED
    BY <1>1, <2>1, <2>2, <2>3 DEF Items
<1>4. Rising(s) => Rising(w)
  BY <1>1 DEF Rising
<1>5. Rising(s) => \A x \in Items(w) : h < x
  BY <1>1 DEF Rising, Items
<1>6. QED
  BY <1>1, <1>3, <1>4, <1>5 DEF w, h

(* A value at the end of the stations that it has to pass. *)
LEMMA StationsQueued ==
  ASSUME IterTyped, Stations, yielded < MaxItems, yielded' = yielded + 1,
         queue' = Append(queue, yielded'), UNCHANGED <<armed, flight, got, lost>>
  PROVE  Stations' /\ IterTyped'
<1>1. yielded \in Nat /\ MaxItems \in Nat /\ yielded' \in 1..MaxItems
  BY BoundsAssumption DEF IterTyped
<1>2. Items(got) \subseteq 1..yielded /\ Items(queue) \subseteq 1..yielded /\ Flown \subseteq 1..yielded
  BY DEF Stations
<1>3. \A x \in Items(got) \cup Flown \cup Items(queue) : x < yielded'
  <2>1. \A x \in 1..yielded : x < yielded'
    BY <1>1
  <2>2. QED
    BY <1>2, <2>1
<1>4. /\ queue' \in Seq(1..MaxItems) /\ Items(queue') = Items(queue) \cup {yielded'}
      /\ Rising(queue')
  BY <1>1, <1>3, RisingAppended DEF IterTyped, Stations
<1>5. /\ Rising(got') /\ Items(got') = Items(got) /\ Flown' = Flown
  BY DEF Flown, Items, Rising, Stations
<1>6. (1..yielded') \ lost' = ((1..yielded) \ lost) \cup {yielded'}
  BY <1>1 DEF Stations
<1>7. lost' \subseteq 1..yielded'
  BY <1>1 DEF Stations
<1>8. Items(got') \cup Flown' \cup Items(queue') = (1..yielded') \ lost'
  BY <1>4, <1>5, <1>6 DEF Stations
<1>9. Stations'
  BY <1>3, <1>4, <1>5, <1>7, <1>8 DEF Stations
<1>10. QED
  BY <1>1, <1>4, <1>9 DEF IterTyped

(* A value that is on its way, or that is lost. *)
LEMMA StationsFlown ==
  ASSUME IterTyped, Stations, yielded < MaxItems, yielded' = yielded + 1, flight = 0, queue = <<>>,
         UNCHANGED <<queue, got>>, armed' = FALSE,
         \/ flight' = yielded' /\ lost' = lost
         \/ flight' = 0 /\ lost' = lost \cup {yielded'}
  PROVE  Stations' /\ IterTyped'
<1>1. yielded \in Nat /\ MaxItems \in Nat /\ yielded' \in 1..MaxItems
  BY BoundsAssumption DEF IterTyped
<1>2. Items(queue) = {} /\ Items(queue') = {} /\ Items(got') = Items(got) /\ Flown = {}
  BY EmptySeq DEF Items, Flown
<1>3. Items(got) = (1..yielded) \ lost
  BY <1>2 DEF Stations
<1>4. Rising(got') /\ Rising(queue')
  BY DEF Stations, Rising
<1>5. CASE flight' = yielded' /\ lost' = lost
  <2>1. Flown' = {yielded'}
    BY <1>1, <1>5 DEF Flown
  <2>2. lost' \subseteq 1..yielded' /\ (1..yielded') \ lost' = ((1..yielded) \ lost) \cup {yielded'}
    BY <1>1, <1>5 DEF Stations
  <2>3. \A x \in Items(got') : x < yielded'
    BY <1>1, <1>2, <1>3
  <2>4. Stations'
    BY <1>2, <1>3, <1>4, <2>1, <2>2, <2>3 DEF Stations
  <2>5. lost' \subseteq 1..MaxItems /\ flight' \in 0..MaxItems /\ yielded' \in 0..MaxItems
    BY <1>1, <1>5 DEF IterTyped
  <2>6. QED
    BY <2>4, <2>5 DEF IterTyped
<1>6. CASE flight' = 0 /\ lost' = lost \cup {yielded'}
  <2>1. Flown' = {}
    BY <1>6 DEF Flown
  <2>2. lost' \subseteq 1..yielded' /\ (1..yielded') \ lost' = (1..yielded) \ lost
    BY <1>1, <1>6 DEF Stations
  <2>3. Stations'
    BY <1>2, <1>3, <1>4, <2>1, <2>2 DEF Stations
  <2>4. lost' \subseteq 1..MaxItems /\ flight' \in 0..MaxItems /\ yielded' \in 0..MaxItems
    BY <1>1, <1>6 DEF IterTyped
  <2>5. QED
    BY <2>3, <2>4 DEF IterTyped
<1>7. QED
  BY <1>5, <1>6

(* A value that the task receives from its await, or from the queue. *)
LEMMA StationsReceived ==
  ASSUME IterTyped, Stations, flight # 0, flight' = 0, got' = Append(got, flight), armed' \in BOOLEAN,
         UNCHANGED <<yielded, queue, lost>>
  PROVE  Stations' /\ IterTyped'
<1>1. flight \in 1..MaxItems /\ MaxItems \in Nat /\ Flown = {flight} /\ Flown' = {}
  BY BoundsAssumption DEF IterTyped, Flown
<1>2. got' \in Seq(1..MaxItems) /\ Items(got') = Items(got) \cup {flight} /\ Rising(got')
  BY <1>1, RisingAppended DEF IterTyped, Stations
<1>3. Rising(queue') /\ Items(queue') = Items(queue)
  BY DEF Stations, Rising, Items
<1>4. Stations'
  BY <1>1, <1>2, <1>3 DEF Stations
<1>5. QED
  BY <1>1, <1>2, <1>4 DEF IterTyped

LEMMA StationsTaken ==
  ASSUME IterTyped, Stations, flight = 0, queue # <<>>, got' = Append(got, Head(queue)), queue' = Tail(queue),
         UNCHANGED <<yielded, armed, flight, lost>>
  PROVE  Stations' /\ IterTyped'
<1>1. /\ Head(queue) \in 1..MaxItems /\ queue' \in Seq(1..MaxItems) /\ Rising(queue')
      /\ Items(queue) = {Head(queue)} \cup Items(queue')
      /\ \A x \in Items(queue') : Head(queue) < x
  BY RisingTail DEF IterTyped, Stations
<1>2. Flown = {} /\ Flown' = {}
  BY DEF Flown
<1>3. got' \in Seq(1..MaxItems) /\ Items(got') = Items(got) \cup {Head(queue)} /\ Rising(got')
  BY <1>1, RisingAppended DEF IterTyped, Stations
<1>4. Stations'
  BY <1>1, <1>2, <1>3 DEF Stations
<1>5. QED
  BY <1>1, <1>3, <1>4 DEF IterTyped

(* A value that is lost with its await. *)
LEMMA StationsLost ==
  ASSUME IterTyped, Stations, flight' = 0, lost' = lost \cup Flown, armed' \in BOOLEAN,
         UNCHANGED <<yielded, queue, got>>
  PROVE  Stations' /\ IterTyped'
<1>1. Flown' = {} /\ Items(got') = Items(got) /\ Items(queue') = Items(queue) /\ Rising(got') /\ Rising(queue')
  BY DEF Stations, Rising, Items, Flown
<1>2. Flown \subseteq 1..yielded /\ yielded \in 0..MaxItems
  BY DEF Stations, IterTyped
<1>3. Flown \cap (Items(got) \cup Items(queue)) = {}
  <2>1. yielded \in Int /\ \A x \in Flown : x \in Int
    BY <1>2
  <2>2. \A x \in Flown : ~(x < x)
    BY <2>1
  <2>3. QED
    BY <2>2 DEF Stations
<1>4. Items(got') \cup Flown' \cup Items(queue') = (1..yielded') \ lost'
  BY <1>1, <1>3 DEF Stations
<1>5. lost' \subseteq 1..yielded'
  BY <1>2 DEF Stations
<1>6. Stations'
  BY <1>1, <1>4, <1>5 DEF Stations
<1>7. QED
  BY <1>2, <1>5, <1>6, BoundsAssumption DEF IterTyped
-----------------------------------------------------------------------------
(* What the steps leave alone. *)
LEMMA QueuesKept ==
  ASSUME UNCHANGED <<alone, ready>>
  PROVE  /\ Requests' = Requests
         /\ \A op, n : Pending(op, n)' <=> Pending(op, n)
BY DEF Requests, Asking, Pending

LEMMA AnswersKept ==
  ASSUME AnswersFit, UNCHANGED <<alone, pc, cur, kind>>, flight # 0 => flight' # 0
  PROVE  AnswersFit'
BY DEF AnswersFit, Pending

LEMMA WakesKept ==
  ASSUME WakesOnce, UNCHANGED <<ready, pc, fut>>
  PROVE  WakesOnce'
BY DEF WakesOnce

LEMMA AwaitKept ==
  ASSUME AwaitFits, UNCHANGED <<futVars, armed, flight, queue>>, Pending("set", cur) => Pending("set", cur)'
  PROVE  AwaitFits'
BY DEF AwaitFits, futVars, Pending

LEMMA HandlesKept ==
  ASSUME HandlesOwned, FutTyped, WaitsToCome, UNCHANGED <<waitVars, pc, cur, kind>>,
         \A n \in ThunkArg : Pending("stop", n)' <=> Pending("stop", n)
  PROVE  HandlesOwned' /\ WaitsToCome'
<1>1. Await \subseteq ThunkArg
  BY BoundsAssumption DEF Await, ThunkArg
<1>2. QED
  BY <1>1 DEF HandlesOwned, WaitsToCome, waitVars, Pending

LEMMA StationsKept ==
  ASSUME Stations, IterTyped, UNCHANGED iterVars
  PROVE  Stations' /\ IterTyped'
BY DEF Stations, IterTyped, iterVars, Rising, Items, Flown

LEMMA ScopesKept ==
  ASSUME UNCHANGED <<scopes, ident, odd>>
  PROVE  Known' = Known /\ Excused' = Excused
BY DEF Known, Excused

LEMMA CancelsKept ==
  ASSUME CancelsKnown, UNCHANGED <<scopes, ident, odd, futVars>>
  PROVE  CancelsKnown'
BY ScopesKept DEF CancelsKnown, futVars

LEMMA IdentifiersKept ==
  ASSUME IdentifiersLeft, UNCHANGED <<unique, exc, errors>>, Requests' = Requests
  PROVE  IdentifiersLeft'
BY DEF IdentifiersLeft, Interrupted

(* A cancelled future, or a cancel that comes too late for it, brings an   *)
(* identifier that a scope knows.                                          *)
LEMMA CancelIsKnown ==
  ASSUME FutTyped, CancelsKnown, NEW r, NEW a, NEW i \in Known', pc = "run" => i \in Excused',
         Cancel(i, r, a), Known \subseteq Known', Excused \subseteq Excused'
  PROVE  CancelsKnown'
BY DEF CancelsKnown, Cancel, Awaits, FutTyped

LEMMA PropagateIsKnown ==
  ASSUME FutTyped, ScopeTyped, CancelsKnown, NEW s, NEW r, NEW a, Propagate(s, r, a), scopes' = scopes
  PROVE  CancelsKnown'
<1>1. CASE IsOpen(s)
  <2>1. PICK k \in 1..Len(scopes) : scopes[k] = s
    BY <1>1 DEF IsOpen
  <2>2. \A j \in 1..Len(scopes) : scopes[j] \in ScopeId
    BY ElementOfSeq DEF ScopeTyped
  <2>3. ident' = [ident EXCEPT ![s] = unique] /\ ident'[s] = unique
    BY <1>1, <2>1, <2>2 DEF Propagate, ScopeTyped
  <2>4. odd' = odd \cup {ident[s]} \cup (IF pc = "run" THEN {unique} ELSE {}) /\ Cancel(unique, r, a)
    BY <1>1 DEF Propagate
  <2>5. \A j \in 1..Len(scopes) : ident[scopes[j]] \in odd' \cup {ident'[scopes[j]]}
    BY <2>2, <2>3, <2>4 DEF ScopeTyped
  <2>6. Known' = Excused' \cup {ident'[scopes[j]] : j \in 1..Len(scopes)}
    BY DEF Known, Excused
  <2>7. Excused \subseteq Excused' /\ odd' \subseteq Excused'
    BY <2>4 DEF Excused
  <2>8. Known \subseteq Known' /\ unique \in Known'
    BY <2>1, <2>3, <2>5, <2>6, <2>7 DEF Known
  <2>9. pc = "run" => unique \in Excused'
    BY <2>4, <2>7
  <2>10. QED
    BY <2>4, <2>7, <2>8, <2>9, CancelIsKnown
<1>2. CASE ~IsOpen(s)
  BY <1>2, CancelsKept DEF Propagate
<1>3. QED
  BY <1>1, <1>2

LEMMA SetResultIsKnown ==
  ASSUME FutTyped, CancelsKnown, NEW f, NEW r, NEW a, SetResult(f, r, a), UNCHANGED <<scopes, ident, odd>>
  PROVE  CancelsKnown'
<1>1. Known' = Known /\ Excused' = Excused
  BY ScopesKept
<1>2. QED
  BY <1>1 DEF CancelsKnown, SetResult, futVars

(* A cancel leaves the iterator and its await as they fit.                 *)
LEMMA CancelFits ==
  ASSUME AwaitFits, NEW i, i # None, NEW r, NEW a, Cancel(i, r, a),
         UNCHANGED <<armed, flight, queue>>, Pending("set", cur) => Pending("set", cur)'
  PROVE  AwaitFits'
BY DEF AwaitFits, Cancel, Awaits, Pending

LEMMA PropagateFits ==
  ASSUME AwaitFits, ScopeTyped, NEW s, NEW r, NEW a, Propagate(s, r, a),
         UNCHANGED <<armed, flight, queue>>, Pending("set", cur) => Pending("set", cur)'
  PROVE  AwaitFits'
<1>1. CASE IsOpen(s)
  <2>1. unique # None
    BY DEF ScopeTyped, None
  <2>2. QED
    BY <1>1, <2>1, CancelFits DEF Propagate
<1>2. CASE ~IsOpen(s)
  BY <1>2, AwaitKept DEF Propagate
<1>3. QED
  BY <1>1, <1>2
-----------------------------------------------------------------------------
(* The steps of the snoopers. *)
LEMMA YieldKeeps ==
  ASSUME IInv, NEW ctx \in {"global", "cell"}, Yield(ctx)
  PROVE  IInv'
<1>1. LoopTyped /\ FutTyped /\ IterTyped /\ WaitTyped /\ ScopeTyped /\ {running, broken} \subseteq BOOLEAN
  BY TypeParts DEF IInv
<1>2. WaitTyped' /\ ScopeTyped' /\ {running', broken'} \subseteq BOOLEAN
  BY <1>1 DEF Yield, WaitTyped, ScopeTyped, waitVars, scopeVars
<1>3. yielded' = yielded + 1 /\ yielded < MaxItems /\ got' = got /\ yielded \in Nat
  BY <1>1 DEF Yield, IterTyped
<1>4. UNCHANGED <<waitVars, scopes, ident, odd, unique, exc, errors>>
  BY DEF Yield, waitVars, scopeVars
<1>5. CASE ~armed
  <2>1. /\ UNCHANGED <<loopVars, futVars, armed, flight, lost>>
        /\ queue' = Append(queue, yielded')
    BY <1>5 DEF Yield
  <2>2. Stations' /\ IterTyped'
    BY <1>1, <1>3, <2>1, StationsQueued DEF IInv
  <2>3. TypeOK'
    BY <1>1, <1>2, <2>1, <2>2, TypeParts DEF LoopTyped, FutTyped, loopVars, futVars
  <2>4. UNCHANGED <<alone, ready, pc, cur, kind, fut>>
    BY <2>1 DEF loopVars, futVars
  <2>5. WakesOnce' /\ AnswersFit'
    BY <2>1, <2>4, WakesKept, AnswersKept DEF IInv
  <2>6. AwaitFits'
    BY <1>5, <2>1, <2>4, QueuesKept DEF IInv, AwaitFits, futVars, Pending
  <2>7. HandlesOwned' /\ WaitsToCome'
    BY <1>1, <1>4, <2>4, HandlesKept, QueuesKept DEF IInv
  <2>8. CancelsKnown' /\ IdentifiersLeft'
    BY <1>4, <2>1, <2>4, CancelsKept, IdentifiersKept, QueuesKept DEF IInv
  <2>9. QED
    BY <2>2, <2>3, <2>5, <2>6, <2>7, <2>8 DEF IInv
<1>6. CASE armed
  <2>1. pc = "await" /\ kind = "next" /\ fut # "set" /\ flight = 0 /\ queue = <<>> /\ cur \in Await
    BY <1>6 DEF IInv, AwaitFits
  <2>2. /\ armed' = FALSE /\ UNCHANGED queue
        /\ flight' = IF ctx = "cell" \/ Awaits(cur) THEN yielded' ELSE 0
        /\ lost' = IF ctx = "cell" \/ Awaits(cur) THEN lost ELSE lost \cup {yielded'}
    BY <1>6 DEF Yield
  <2>3. Stations' /\ IterTyped'
    <3>1. \/ flight' = yielded' /\ lost' = lost
          \/ flight' = 0 /\ lost' = lost \cup {yielded'}
      BY <2>2
    <3>2. QED
      BY <1>1, <1>3, <2>1, <2>2, <3>1, StationsFlown DEF IInv
  <2>4. CASE ctx = "global"
    <3>1. SetResult(cur, ready, alone)
      BY <1>6, <2>4 DEF Yield
    <3>2. Handling(ready, alone) /\ RestOf(ready, ready) /\ RestOf(alone, alone)
      BY <3>1 DEF Handling, RestOf
    <3>3. WakesOnce'
      BY <1>1, <3>2, HandlingKeepsWakes DEF IInv, LoopTyped
    <3>4. /\ AnswersFit' /\ pc' = pc /\ cur' = cur /\ kind' = kind
          /\ \A op \in {"set", "stop"}, n \in ThunkArg : Pending(op, n)' <=> Pending(op, n)
      BY <1>1, <2>1, <3>2, HandlingKeepsAnswers DEF IInv, LoopTyped
    <3>5. TypeOK'
      BY <1>1, <1>2, <2>3, <3>1, SetResultType, TypeParts DEF LoopTyped
    <3>6. AwaitFits'
      <4>1. CASE Awaits(cur)
        BY <1>1, <1>3, <2>1, <2>2, <3>1, <4>1 DEF SetResult, AwaitFits, IInv, Pending, IterTyped
      <4>2. CASE ~Awaits(cur)
        <5>1. flight' = 0 /\ UNCHANGED futVars
          BY <2>2, <2>4, <3>1, <4>2 DEF SetResult
        <5>2. QED
          BY <1>1, <2>1, <2>2, <5>1 DEF AwaitFits, IInv, futVars
      <4>3. QED
        BY <4>1, <4>2
    <3>7. HandlesOwned' /\ WaitsToCome'
      BY <1>1, <1>4, <3>4, HandlesKept DEF IInv
    <3>8. CancelsKnown'
      BY <1>1, <1>4, <3>1, SetResultIsKnown DEF IInv
    <3>9. Requests' = Requests
      BY <1>1, <3>1, FutureRequests DEF LoopTyped, Requests
    <3>10. IdentifiersLeft'
      BY <1>4, <3>9, IdentifiersKept DEF IInv
    <3>11. QED
      BY <2>3, <3>3, <3>4, <3>5, <3>6, <3>7, <3>8, <3>10 DEF IInv
  <2>5. CASE ctx # "global"
    <3> DEFINE h == Thunk("set", cur)
    <3>1. Quiet(ready, Append(alone, h)) /\ UNCHANGED futVars /\ alone' = Append(alone, h)
      BY <1>6, <2>5 DEF Yield, Quiet
    <3>2. h \in Thunks /\ h.op = "set" /\ cur \in ThunkArg /\ MaxAwaits \in Nat /\ MaxScopes \in Nat
      BY <2>1, ThunkType, BoundsAssumption DEF Await, ThunkOp, Thunk, ThunkArg
    <3>3. LoopTyped'
      BY <1>1, <3>1, <3>2, QueueType DEF LoopTyped, Quiet
    <3>4. FutTyped' /\ pc' = pc /\ cur' = cur /\ kind' = kind /\ fut' = fut /\ by' = by
      BY <1>1, <3>1 DEF FutTyped, futVars
    <3>5. TypeOK'
      BY <1>2, <2>3, <3>3, <3>4, TypeParts
    <3>6. WakesOnce'
      BY <3>1, <3>4, WakesKept DEF IInv, Quiet
    <3>7. \A n \in ThunkArg :
            /\ Pending("set", n)' <=> Pending("set", n) \/ n = cur
            /\ Pending("stop", n)' <=> Pending("stop", n)
            /\ Once(alone, Thunk("stop", n)) => Once(alone', Thunk("stop", n))
      <4>1. \A n : (h = Thunk("set", n) <=> n = cur) /\ h # Thunk("stop", n)
        BY DEF Thunk
      <4>2. alone \in Seq(Thunks)
        BY <1>1 DEF LoopTyped
      <4> HIDE DEF h
      <4>3. \A t : /\ Has(alone', t) <=> Has(alone, t) \/ h = t
                   /\ Once(alone, t) /\ h # t => Once(alone', t)
        BY <3>1, <3>2, <4>2, AppendedEntries
      <4>4. \A op, n : (Pending(op, n)' <=> Has(alone', Thunk(op, n))) /\ (Pending(op, n) <=> Has(alone, Thunk(op, n)))
        BY DEF Pending, Has
      <4>5. QED
        BY <4>1, <4>3, <4>4
    <3> HIDE DEF h
    <3>8. ctx = "cell" /\ flight' = yielded' /\ flight' # 0
      BY <1>3, <2>2, <2>5
    <3>9. AnswersFit'
      <4>1. SUFFICES ASSUME NEW n \in ThunkArg
                     PROVE  /\ Pending("set", n)' => n \in 1..cur' /\ (pc' = "await" /\ n = cur' => kind' = "next" /\ flight' # 0)
                            /\ Pending("stop", n)' => n \in 1..cur' /\ (pc' = "await" /\ n = cur' => kind' = "wait")
                            /\ Once(alone', Thunk("stop", n))
        BY DEF AnswersFit
      <4>2. cur \in 1..cur
        BY <2>1, <3>2 DEF Await
      <4>3. QED
        BY <2>1, <3>4, <3>7, <3>8, <4>2 DEF IInv, AnswersFit
    <3>10. AwaitFits'
      <4>1. Pending("set", cur)'
        BY <3>2, <3>4, <3>7 DEF Pending
      <4>2. QED
        BY <2>1, <2>2, <3>4, <4>1 DEF AwaitFits, IInv, Pending
    <3>11. HandlesOwned' /\ WaitsToCome'
      BY <1>1, <1>4, <3>4, <3>7, HandlesKept DEF IInv
    <3>12. CancelsKnown'
      BY <1>4, <3>1, CancelsKept DEF IInv
    <3>13. Requests' = Requests
      BY <1>1, <3>1, <3>2, AskingAppended DEF LoopTyped, Requests, Quiet
    <3>14. IdentifiersLeft'
      BY <1>4, <3>13, IdentifiersKept DEF IInv
    <3>15. QED
      BY <2>3, <3>5, <3>6, <3>9, <3>10, <3>11, <3>12, <3>14 DEF IInv
  <2>6. QED
    BY <2>4, <2>5
<1>7. QED
  BY <1>5, <1>6

(* A step that is about scopes and cancels leaves the iterator and the     *)
(* waits as they are, whatever it puts into the queues for it.             *)
LEMMA ScopeStepKeeps ==
  ASSUME IInv, NEW r, RestOf(r, ready), NEW a \in Seq(Thunks), Handling(r, a), UNCHANGED <<iterVars, waitVars>>,
         \/ a = alone
         \/ alone # <<>> /\ a = Tail(alone) /\ Head(alone).op \notin {"set", "stop"}
         \/ \E h \in Thunks : h.op \in {"soon", "propagate"} /\ a = Append(alone, h)
  PROVE  /\ WakesOnce' /\ AnswersFit' /\ HandlesOwned' /\ WaitsToCome' /\ Stations'
         /\ IterTyped' /\ WaitTyped' /\ LoopTyped'
         /\ Pending("set", cur) => Pending("set", cur)'
         /\ UNCHANGED <<pc, cur, kind, armed, flight, queue>>
<1>1. LoopTyped /\ FutTyped /\ IterTyped /\ WaitTyped /\ ready \in Seq(Thunks) /\ alone \in Seq(Thunks)
  BY TypeParts DEF IInv, LoopTyped
<1>2. WakesOnce' /\ LoopTyped'
  BY <1>1, HandlingKeepsWakes DEF IInv
<1>3. r \in Seq(Thunks) /\ flight' = flight
  BY <1>1, RestEntries DEF iterVars
<1>4. RestOf(a, alone) /\ a # alone => Head(alone).op \notin {"set", "stop"}
  <2>1. ASSUME NEW h \in Thunks, a = Append(alone, h) PROVE Len(a) = Len(alone) + 1
    BY <1>1, <2>1, AppendProperties
  <2>2. alone # <<>> => Len(Tail(alone)) = Len(alone) - 1
    BY <1>1, HeadTailProperties
  <2>3. Len(alone) \in Nat
    BY <1>1, LenProperties
  <2>4. QED
    BY <2>1, <2>2, <2>3 DEF RestOf
<1>5. /\ AnswersFit' /\ pc' = pc /\ cur' = cur /\ kind' = kind
      /\ \A op \in {"set", "stop"}, n \in ThunkArg :
           /\ Pending(op, n)' => Pending(op, n)
           /\ Pending(op, n) => Pending(op, n)' \/ (RestOf(a, alone) /\ a # alone /\ Head(alone) = Thunk(op, n))
  <2>1. \/ RestOf(a, alone)
        \/ \E h \in Thunks : h.op \in {"soon", "propagate"} /\ a = Append(alone, h)
    BY DEF RestOf
  <2>2. QED
    BY <1>1, <1>3, <2>1, HandlingKeepsAnswers DEF IInv
<1>6. \A op \in {"set", "stop"}, n \in ThunkArg : Pending(op, n)' <=> Pending(op, n)
  BY <1>4, <1>5 DEF Thunk
<1>7. HandlesOwned' /\ WaitsToCome'
  BY <1>1, <1>5, <1>6, HandlesKept DEF IInv
<1>8. cur \in ThunkArg
  BY <1>1, BoundsAssumption DEF FutTyped, ThunkArg
<1>9. Pending("set", cur) => Pending("set", cur)'
  BY <1>5, <1>6, <1>8 DEF Pending
<1>10. Stations' /\ IterTyped'
  BY <1>1, StationsKept DEF IInv
<1>11. WaitTyped'
  BY <1>1 DEF WaitTyped, waitVars
<1>12. QED
  BY <1>2, <1>5, <1>7, <1>9, <1>10, <1>11 DEF iterVars

LEMMA EventKeeps ==
  ASSUME IInv, NEW f \in Await, NEW ctx \in {"global", "cell"}, Event(f, ctx)
  PROVE  IInv'
<1>1. LoopTyped /\ FutTyped /\ IterTyped /\ WaitTyped /\ ScopeTyped /\ {running, broken} \subseteq BOOLEAN
  BY TypeParts DEF IInv
<1>2. ScopeTyped' /\ {running', broken'} \subseteq BOOLEAN /\ UNCHANGED <<scopes, ident, odd, unique, exc, errors>>
  BY <1>1 DEF Event, ScopeTyped, scopeVars
<1>3. Stations' /\ IterTyped' /\ UNCHANGED <<armed, flight, queue>>
  BY <1>1, StationsKept DEF Event, IInv, iterVars
<1>4. f \in ThunkArg /\ cur \in ThunkArg /\ Await \subseteq ThunkArg
  BY <1>1, BoundsAssumption DEF FutTyped, ThunkArg, Await
<1>5. pc = "await" /\ cur = f /\ kind = "wait" /\ ~Pending("stop", f) /\ flight = 0 /\ ~armed
  BY DEF Event, IInv, HandlesOwned, AwaitFits
<1>6. stopped' = [stopped EXCEPT ![f] = TRUE]
  BY DEF Event
<1>7. CASE ctx = "global"
  <2>1. handle' = [handle EXCEPT ![f] = "off"] /\ SetResult(f, ready, alone)
    BY <1>7 DEF Event
  <2>2. Handling(ready, alone) /\ RestOf(ready, ready) /\ RestOf(alone, alone) /\ ready \in Seq(Thunks) /\ alone \in Seq(Thunks)
    BY <1>1, <2>1 DEF Handling, RestOf, LoopTyped
  <2>3. WakesOnce'
    BY <1>1, <2>2, HandlingKeepsWakes DEF IInv
  <2>4. /\ AnswersFit' /\ pc' = pc /\ cur' = cur /\ kind' = kind
        /\ \A op \in {"set", "stop"}, n \in ThunkArg : Pending(op, n)' <=> Pending(op, n)
    BY <1>1, <1>3, <2>2, HandlingKeepsAnswers DEF IInv
  <2>5. LoopTyped' /\ FutTyped'
    BY <1>1, <2>1, <2>2, SetResultType
  <2>6. WaitTyped'
    BY <1>1, <1>6, <2>1 DEF WaitTyped
  <2>7. AwaitFits'
    <3>1. fut' = "cancelled" => by' # None
      BY <1>5, <2>1 DEF SetResult, IInv, AwaitFits, futVars
    <3>2. QED
      BY <1>3, <1>5, <2>4, <3>1 DEF AwaitFits, IInv
  <2>8. HandlesOwned' /\ WaitsToCome'
    <3>1. \A n \in Await \ {f} : handle'[n] = handle[n] /\ stopped'[n] = stopped[n]
      BY <1>1, <1>6, <2>1 DEF WaitTyped
    <3>2. handle'[f] = "off" /\ ~Pending("stop", f)'
      BY <1>1, <1>4, <1>5, <2>1, <2>4 DEF WaitTyped
    <3>3. \A n \in Await : Pending("stop", n)' <=> Pending("stop", n)
      BY <1>4, <2>4
    <3>4. HandlesOwned'
      BY <1>5, <2>4, <3>1, <3>2, <3>3 DEF HandlesOwned, IInv, Pending
    <3>5. WaitsToCome'
      BY <1>5, <2>4, <3>1 DEF WaitsToCome, IInv, Await
    <3>6. QED
      BY <3>4, <3>5
  <2>9. CancelsKnown'
    BY <1>1, <1>2, <2>1, SetResultIsKnown DEF IInv
  <2>10. Requests' = Requests
    BY <2>1, <2>2, FutureRequests DEF Requests
  <2>11. QED
    BY <1>2, <1>3, <2>3, <2>4, <2>5, <2>6, <2>7, <2>8, <2>9, <2>10, TypeParts, IdentifiersKept DEF IInv
<1>8. CASE ctx = "cell"
  <2> DEFINE h == Thunk("stop", f)
  <2>1. alone' = Append(alone, h) /\ handle' = handle /\ UNCHANGED <<ready, asleep, futVars>>
    BY <1>8 DEF Event, Quiet
  <2>2. h \in Thunks /\ h.op = "stop"
    BY <1>4, ThunkType DEF ThunkOp, Thunk, ThunkArg
  <2>3. LoopTyped' /\ alone \in Seq(Thunks)
    BY <1>1, <2>1, <2>2, QueueType DEF LoopTyped
  <2>4. FutTyped' /\ pc' = pc /\ cur' = cur /\ kind' = kind /\ fut' = fut /\ by' = by
    BY <1>1, <2>1 DEF FutTyped, futVars
  <2>5. WakesOnce'
    BY <2>1, <2>4, WakesKept DEF IInv
  <2>6. \A n \in ThunkArg :
          /\ Pending("set", n)' <=> Pending("set", n)
          /\ Pending("stop", n)' <=> Pending("stop", n) \/ n = f
          /\ Once(alone, Thunk("stop", n)) => Once(alone', Thunk("stop", n))
    <3>1. \A n : (h = Thunk("stop", n) <=> n = f) /\ h # Thunk("set", n)
      BY DEF Thunk
    <3> HIDE DEF h
    <3>2. \A t : /\ Has(alone', t) <=> Has(alone, t) \/ h = t
                 /\ Once(alone, t) /\ (h = t => ~Has(alone, t)) => Once(alone', t)
      BY <2>1, <2>2, <2>3, AppendedEntries
    <3>3. \A op, n : (Pending(op, n)' <=> Has(alone', Thunk(op, n))) /\ (Pending(op, n) <=> Has(alone, Thunk(op, n)))
      BY DEF Pending, Has
    <3>4. QED
      BY <1>5, <3>1, <3>2, <3>3
  <2>7. AnswersFit'
    <3>1. f \in 1..cur /\ flight' = flight
      BY <1>3, <1>5 DEF Await
    <3>2. QED
      BY <1>5, <2>4, <2>6, <3>1 DEF AnswersFit, IInv, Pending
  <2>8. AwaitFits'
    BY <1>3, <1>5, <2>4 DEF AwaitFits, IInv
  <2>9. WaitTyped'
    BY <1>1, <1>6, <2>1 DEF WaitTyped
  <2>10. HandlesOwned' /\ WaitsToCome'
    <3>1. /\ \A n \in Await \ {f} : stopped'[n] = stopped[n]
          /\ stopped'[f] /\ handle[f] = "on" /\ Pending("stop", f)'
      BY <1>1, <1>4, <1>6, <2>6 DEF WaitTyped, Event
    <3>2. \A n \in Await \ {f} : Pending("stop", n)' <=> Pending("stop", n)
      BY <1>4, <2>6
    <3>3. HandlesOwned'
      BY <1>5, <2>1, <2>4, <3>1, <3>2 DEF HandlesOwned, IInv, Pending
    <3>4. WaitsToCome'
      BY <1>5, <2>1, <2>4, <3>1 DEF WaitsToCome, IInv, Await
    <3>5. QED
      BY <3>3, <3>4
  <2>11. CancelsKnown'
    BY <1>2, <2>1, CancelsKept DEF IInv
  <2>12. Requests' = Requests
    BY <2>1, <2>2, <2>3, AskingAppended DEF Requests
  <2>13. QED
    BY <1>2, <1>3, <2>3, <2>4, <2>5, <2>7, <2>8, <2>9, <2>10, <2>11, <2>12, TypeParts, IdentifiersKept DEF IInv
<1>9. QED
  BY <1>7, <1>8

(* A scope that is interrupted for the first time has had no request. *)
LEMMA FirstInterruption ==
  ASSUME ScopeTyped, NEW s \in ScopeId, exc[s] = "none", NEW e \in {"timeout", "error"}, exc' = [exc EXCEPT ![s] = e]
  PROVE  Cardinality(Interrupted') = Cardinality(Interrupted) + 1
<1>1. Interrupted' = Interrupted \cup {s}
  BY DEF Interrupted, ScopeTyped
<1>2. s \notin Interrupted
  BY DEF Interrupted
<1>3. QED
  BY <1>1, <1>2, InterruptedFinite, FS_AddElement

LEMMA TimeOutKeeps ==
  ASSUME IInv, NEW s \in ScopeId, NEW ctx \in {"global", "cell"}, TimeOut(s, ctx)
  PROVE  IInv'
<1>1. LoopTyped /\ FutTyped /\ IterTyped /\ WaitTyped /\ ScopeTyped /\ {running, broken} \subseteq BOOLEAN
  BY TypeParts DEF IInv
<1>2. /\ exc[s] = "none" /\ exc' = [exc EXCEPT ![s] = "timeout"]
      /\ UNCHANGED <<running, broken, futVars, iterVars, waitVars, scopes, ident, unique, errors, odd>>
  BY DEF TimeOut
<1>3. ScopeTyped' /\ {running', broken'} \subseteq BOOLEAN
  BY <1>1, <1>2 DEF TimeOut, ScopeTyped
<1>4. FutTyped'
  BY <1>1, <1>2 DEF FutTyped, futVars
<1> DEFINE p == Thunk("propagate", s)
           h == Thunk("soon", s)
<1>5. /\ p \in Thunks /\ p.op = "propagate" /\ h \in Thunks /\ h.op = "soon"
      /\ ready \in Seq(Thunks) /\ alone \in Seq(Thunks)
  BY <1>1, ThunkType, BoundsAssumption DEF LoopTyped, ThunkOp, ScopeId, Thunk
<1>6. \/ CallSoon(p, ready, alone)
      \/ Quiet(ready, Append(alone, h))
  BY DEF TimeOut
<1> HIDE DEF p, h
<1>7. /\ WakesOnce' /\ AnswersFit' /\ HandlesOwned' /\ WaitsToCome' /\ Stations'
      /\ IterTyped' /\ WaitTyped' /\ LoopTyped'
      /\ Pending("set", cur) => Pending("set", cur)'
      /\ UNCHANGED <<pc, cur, kind, armed, flight, queue>>
  <2>1. RestOf(ready, ready)
    BY DEF RestOf
  <2>2. CASE CallSoon(p, ready, alone)
    <3>1. Handling(ready, alone)
      BY <1>2, <1>5, <2>2 DEF Handling
    <3>2. QED
      BY <1>2, <1>5, <2>1, <3>1, ScopeStepKeeps
  <2>3. CASE Quiet(ready, Append(alone, h))
    <3>1. Append(alone, h) \in Seq(Thunks)
      BY <1>5, QueueType
    <3>2. Handling(ready, Append(alone, h))
      BY <1>2, <2>3 DEF Handling
    <3>3. QED
      BY <1>2, <1>5, <2>1, <3>1, <3>2, ScopeStepKeeps
  <2>4. QED
    BY <1>6, <2>2, <2>3
<1>8. AwaitFits'
  BY <1>2, <1>7, AwaitKept DEF IInv
<1>9. CancelsKnown'
  BY <1>2, CancelsKept DEF IInv
<1>10. IdentifiersLeft'
  <2>1. Requests' = Requests + 1
    <3>1. Cardinality(Asking(alone)) \in Nat /\ Cardinality(Asking(ready)) \in Nat
      BY <1>5, AskingAppended
    <3>2. CASE CallSoon(p, ready, alone)
      BY <1>5, <3>1, <3>2, CallSoonRequests DEF Requests, Requested
    <3>3. CASE Quiet(ready, Append(alone, h))
      BY <1>5, <3>1, <3>3, AskingAppended DEF Quiet, Requests
    <3>4. QED
      BY <1>6, <3>2, <3>3
  <2>2. Cardinality(Interrupted') = Cardinality(Interrupted) + 1
    BY <1>1, <1>2, FirstInterruption
  <2>3. Requests \in Nat
    BY <1>5, AskingAppended DEF Requests
  <2>4. Cardinality(Interrupted) \in 0..MaxScopes /\ unique \in Int /\ errors \in Int
    BY <1>1, InterruptedFinite DEF ScopeTyped
  <2>5. MaxScopes \in Nat
    BY BoundsAssumption
  <2>6. QED
    BY <1>2, <2>1, <2>2, <2>3, <2>4, <2>5 DEF IInv, IdentifiersLeft
<1>11. QED
  BY <1>3, <1>4, <1>7, <1>8, <1>9, <1>10, TypeParts DEF IInv

LEMMA ScopeErrorKeeps ==
  ASSUME IInv, NEW s \in ScopeId, NEW ctx \in {"global", "cell"}, ScopeError(s, ctx)
  PROVE  IInv'
<1>1. LoopTyped /\ FutTyped /\ IterTyped /\ WaitTyped /\ ScopeTyped /\ {running, broken} \subseteq BOOLEAN
  BY TypeParts DEF IInv
<1>2. /\ errors < MaxErrors /\ errors' = errors + 1 /\ exc' = [exc EXCEPT ![s] = "error"]
      /\ UNCHANGED <<running, broken, iterVars, waitVars, scopes, entered, cancels>>
  BY DEF ScopeError
<1> DEFINE h == Thunk("propagate", s)
<1>3. h \in Thunks /\ h.op = "propagate" /\ ready \in Seq(Thunks) /\ alone \in Seq(Thunks)
  BY <1>1, ThunkType, BoundsAssumption DEF LoopTyped, ThunkOp, ScopeId, Thunk
<1>4. \/ Propagate(s, ready, alone)
      \/ Quiet(ready, Append(alone, h)) /\ UNCHANGED <<futVars, ident, unique, odd>>
  BY DEF ScopeError
<1> HIDE DEF h
<1>5. /\ Requests \in Nat /\ MaxScopes \in Nat /\ MaxErrors \in Nat
      /\ Cardinality(Interrupted) \in Nat /\ Cardinality(Interrupted) <= MaxScopes
      /\ unique \in Int /\ errors \in Nat
  <2>1. MaxScopes \in Nat /\ MaxErrors \in Nat
    BY BoundsAssumption
  <2>2. Requests \in Nat
    BY <1>3, AskingAppended DEF Requests
  <2>3. Cardinality(Interrupted) \in 0..MaxScopes
    BY <1>1, InterruptedFinite
  <2>4. QED
    BY <1>1, <2>1, <2>2, <2>3 DEF ScopeTyped
<1>6. unique <= MaxIdent
  BY <1>2, <1>5 DEF IInv, IdentifiersLeft, MaxIdent
<1>7. /\ WakesOnce' /\ AnswersFit' /\ HandlesOwned' /\ WaitsToCome' /\ Stations'
      /\ IterTyped' /\ WaitTyped' /\ LoopTyped'
      /\ Pending("set", cur) => Pending("set", cur)'
      /\ UNCHANGED <<pc, cur, kind, armed, flight, queue>>
  <2>1. RestOf(ready, ready)
    BY DEF RestOf
  <2>2. CASE Propagate(s, ready, alone)
    BY <1>2, <1>3, <2>1, <2>2, PropagateHandles, ScopeStepKeeps
  <2>3. CASE Quiet(ready, Append(alone, h)) /\ UNCHANGED futVars
    <3>1. Append(alone, h) \in Seq(Thunks)
      BY <1>3, QueueType
    <3>2. Handling(ready, Append(alone, h))
      BY <2>3 DEF Handling
    <3>3. QED
      BY <1>2, <1>3, <2>1, <3>1, <3>2, ScopeStepKeeps
  <2>4. QED
    BY <1>4, <2>2, <2>3
<1>8. exc' \in [ScopeId -> {"none", "timeout", "error"}] /\ errors' \in 0..MaxErrors
  BY <1>1, <1>2, <1>5 DEF ScopeTyped
<1>9. Cardinality(Interrupted') >= Cardinality(Interrupted) /\ Cardinality(Interrupted') \in Nat
  <2>1. CASE exc[s] = "none"
    <3>1. Cardinality(Interrupted') = Cardinality(Interrupted) + 1
      BY <1>1, <1>2, <2>1, FirstInterruption
    <3>2. QED
      BY <1>5, <3>1
  <2>2. CASE exc[s] # "none"
    <3>1. Interrupted' = Interrupted
      BY <1>1, <1>2, <2>2 DEF Interrupted, ScopeTyped
    <3>2. QED
      BY <1>5, <3>1
  <2>3. QED
    BY <2>1, <2>2
<1>10. CASE Propagate(s, ready, alone)
  <2>1. /\ FutTyped' /\ ident' \in [ScopeId -> Ident] /\ unique' \in 1..MaxIdent + 1 /\ odd' \subseteq Ident
    BY <1>1, <1>3, <1>6, <1>10, PropagateType
  <2>2. ScopeTyped'
    BY <1>1, <1>2, <1>8, <2>1 DEF ScopeTyped
  <2>3. AwaitFits'
    BY <1>1, <1>7, <1>10, PropagateFits DEF IInv
  <2>4. CancelsKnown'
    BY <1>1, <1>2, <1>10, PropagateIsKnown DEF IInv
  <2>5. Requests' = Requests
    BY <1>3, <1>10, FutureRequests DEF Propagate, Requests
  <2>6. unique' <= unique + 1 /\ unique' \in Int
    BY <1>5, <1>10 DEF Propagate
  <2>7. IdentifiersLeft'
    BY <1>2, <1>5, <1>9, <2>5, <2>6 DEF IInv, IdentifiersLeft
  <2>8. QED
    BY <1>1, <1>2, <1>7, <2>1, <2>2, <2>3, <2>4, <2>7, TypeParts DEF IInv
<1>11. CASE Quiet(ready, Append(alone, h)) /\ UNCHANGED <<futVars, ident, unique, odd>>
  <2>1. FutTyped' /\ ScopeTyped'
    BY <1>1, <1>2, <1>8, <1>11 DEF FutTyped, futVars, ScopeTyped
  <2>2. AwaitFits'
    BY <1>7, <1>11, AwaitKept DEF IInv
  <2>3. CancelsKnown'
    BY <1>2, <1>11, CancelsKept DEF IInv
  <2>4. Requests' = Requests + 1
    <3>1. Cardinality(Asking(alone)) \in Nat /\ Cardinality(Asking(ready)) \in Nat
      BY <1>3, AskingAppended
    <3>2. QED
      BY <1>3, <1>11, <3>1, AskingAppended DEF Quiet, Requests
  <2>5. IdentifiersLeft'
    BY <1>2, <1>5, <1>9, <1>11, <2>4 DEF IInv, IdentifiersLeft
  <2>6. QED
    BY <1>1, <1>2, <1>7, <2>1, <2>2, <2>3, <2>5, TypeParts DEF IInv
<1>12. QED
  BY <1>4, <1>10, <1>11

LEMMA CancelTaskKeeps ==
  ASSUME IInv, CancelTask
  PROVE  IInv'
<1>1. LoopTyped /\ FutTyped /\ IterTyped /\ WaitTyped /\ ScopeTyped /\ {running, broken} \subseteq BOOLEAN
  BY TypeParts DEF IInv
<1>2. /\ pc # "run" /\ cancels < MaxCancels /\ cancels' = cancels + 1
      /\ Cancel(Foreign, ready, alone)
      /\ UNCHANGED <<running, broken, iterVars, waitVars, scopes, entered, ident, exc, unique, errors, odd>>
  BY DEF CancelTask
<1>3. Foreign \in Ident /\ Foreign # None /\ Foreign \in Excused
  BY BoundsAssumption DEF Foreign, None, Ident, Excused, MaxIdent
<1>4. ready \in Seq(Thunks) /\ alone \in Seq(Thunks) /\ RestOf(ready, ready) /\ Handling(ready, alone)
  BY <1>1, <1>2 DEF LoopTyped, RestOf, Handling
<1>5. FutTyped'
  BY <1>1, <1>2, <1>3, <1>4, CancelType
<1>6. ScopeTyped'
  BY <1>1, <1>2, BoundsAssumption DEF ScopeTyped
<1>7. /\ WakesOnce' /\ AnswersFit' /\ HandlesOwned' /\ WaitsToCome' /\ Stations'
      /\ IterTyped' /\ WaitTyped' /\ LoopTyped'
      /\ Pending("set", cur) => Pending("set", cur)'
      /\ UNCHANGED <<pc, cur, kind, armed, flight, queue>>
  BY <1>2, <1>4, ScopeStepKeeps
<1>8. AwaitFits'
  BY <1>2, <1>3, <1>7, CancelFits DEF IInv
<1>9. CancelsKnown'
  <2>1. Known' = Known /\ Excused' = Excused /\ Foreign \in Known
    BY <1>2, <1>3, ScopesKept DEF Known
  <2>2. QED
    BY <1>1, <1>2, <2>1, CancelIsKnown DEF IInv
<1>10. IdentifiersLeft'
  BY <1>2, <1>4, FutureRequests, IdentifiersKept DEF IInv, Requests
<1>11. QED
  BY <1>1, <1>2, <1>5, <1>6, <1>7, <1>8, <1>9, <1>10, TypeParts DEF IInv
-----------------------------------------------------------------------------
(* What SIM_run_alone and the loop call. *)

(* The front entry of what SIM_run_alone has queued. *)
LEMMA FrontEntry ==
  ASSUME LoopTyped, alone # <<>>
  PROVE  /\ alone \in Seq(Thunks) /\ ready \in Seq(Thunks)
         /\ Head(alone) \in Thunks /\ Tail(alone) \in Seq(Thunks)
         /\ RestOf(Tail(alone), alone) /\ RestOf(ready, ready)
         /\ Head(alone) = Thunk(Head(alone).op, Head(alone).n) /\ Head(alone).n \in ThunkArg
         /\ Pending(Head(alone).op, Head(alone).n)
<1>1. alone \in Seq(Thunks) /\ ready \in Seq(Thunks)
  BY DEF LoopTyped
<1>2. Head(alone) \in Thunks /\ Tail(alone) \in Seq(Thunks) /\ Has(alone, Head(alone))
  BY <1>1, TailEntries
<1>3. Head(alone) = Thunk(Head(alone).op, Head(alone).n) /\ Head(alone).n \in ThunkArg
  BY <1>2 DEF Thunks, Thunk, ThunkArg
<1>4. QED
  BY <1>1, <1>2, <1>3 DEF RestOf, Has, Pending

LEMMA RunSetKeeps ==
  ASSUME IInv, alone # <<>>, Head(alone).op = "set", SetResult(Head(alone).n, ready, Tail(alone)),
         UNCHANGED <<running, broken, iterVars, waitVars, scopeVars>>
  PROVE  IInv'
<1>1. LoopTyped /\ FutTyped /\ IterTyped /\ WaitTyped /\ ScopeTyped /\ {running, broken} \subseteq BOOLEAN
  BY TypeParts DEF IInv
<1> DEFINE n == Head(alone).n
           a == Tail(alone)
<1>2. /\ alone \in Seq(Thunks) /\ ready \in Seq(Thunks) /\ a \in Seq(Thunks)
      /\ RestOf(a, alone) /\ RestOf(ready, ready)
      /\ Head(alone) = Thunk("set", n) /\ n \in ThunkArg /\ Pending("set", n)
  BY <1>1, FrontEntry
<1> HIDE DEF n, a
<1>3. SetResult(n, ready, a) /\ Handling(ready, a)
  BY DEF Handling, n, a
<1>4. UNCHANGED <<armed, flight, queue, scopes, ident, odd, unique, exc, errors>>
  BY DEF iterVars, scopeVars
<1>5. n \in 1..cur /\ (Awaits(n) => kind = "next" /\ flight # 0 /\ ~armed)
  BY <1>2 DEF IInv, AnswersFit, AwaitFits, Awaits
<1>6. WakesOnce'
  BY <1>1, <1>2, <1>3, HandlingKeepsWakes DEF IInv
<1>7. /\ AnswersFit' /\ pc' = pc /\ cur' = cur /\ kind' = kind
      /\ \A op \in {"set", "stop"}, m \in ThunkArg :
           /\ Pending(op, m)' => Pending(op, m)
           /\ Pending(op, m) => Pending(op, m)' \/ Head(alone) = Thunk(op, m)
  BY <1>1, <1>2, <1>3, <1>4, HandlingKeepsAnswers DEF IInv
<1>8. LoopTyped' /\ FutTyped'
  BY <1>1, <1>2, <1>3, SetResultType
<1>9. WaitTyped' /\ ScopeTyped' /\ {running', broken'} \subseteq BOOLEAN
  BY <1>1 DEF WaitTyped, waitVars, ScopeTyped, scopeVars
<1>10. Stations' /\ IterTyped'
  BY <1>1, StationsKept DEF IInv
<1>11. AwaitFits'
  <2>1. CASE Awaits(n)
    BY <1>3, <1>4, <1>5, <1>7, <2>1 DEF SetResult, Awaits, AwaitFits, IInv, Pending
  <2>2. CASE ~Awaits(n)
    <3>1. UNCHANGED futVars
      BY <1>3, <2>2 DEF SetResult
    <3>2. CASE n = cur
      <4>1. ~(pc = "await" /\ fut = "pending")
        BY <2>2, <3>2 DEF Awaits
      <4>2. QED
        BY <1>4, <3>1, <4>1 DEF AwaitFits, IInv, futVars
    <3>3. CASE n # cur
      <4>1. cur \in ThunkArg
        BY <1>1, BoundsAssumption DEF FutTyped, ThunkArg
      <4>2. Pending("set", cur) => Pending("set", cur)'
        BY <1>2, <1>7, <3>3, <4>1 DEF Thunk, Pending
      <4>3. QED
        BY <1>4, <3>1, <4>2, AwaitKept DEF IInv
    <3>4. QED
      BY <3>2, <3>3
  <2>3. QED
    BY <2>1, <2>2
<1>12. HandlesOwned' /\ WaitsToCome'
  <2>1. \A m \in ThunkArg : Pending("stop", m)' <=> Pending("stop", m)
    BY <1>2, <1>7 DEF Thunk
  <2>2. QED
    BY <1>1, <1>7, <2>1, HandlesKept DEF IInv
<1>13. CancelsKnown'
  BY <1>1, <1>3, <1>4, SetResultIsKnown DEF IInv
<1>14. Requests' = Requests
  <2>1. Cardinality(Asking(a)) = Cardinality(Asking(alone))
    BY <1>2, AskingTail DEF a
  <2>2. QED
    BY <1>2, <1>3, <2>1, FutureRequests DEF Requests
<1>15. IdentifiersLeft'
  BY <1>4, <1>14, IdentifiersKept DEF IInv
<1>16. QED
  BY <1>6, <1>7, <1>8, <1>9, <1>10, <1>11, <1>12, <1>13, <1>15, TypeParts DEF IInv

LEMMA RunStopKeeps ==
  ASSUME IInv, alone # <<>>, Head(alone).op = "stop", SetResult(Head(alone).n, ready, Tail(alone)),
         handle' = [handle EXCEPT ![Head(alone).n] = "off"],
         UNCHANGED <<running, broken, iterVars, stopped, scopeVars>>
  PROVE  IInv'
<1>1. LoopTyped /\ FutTyped /\ IterTyped /\ WaitTyped /\ ScopeTyped /\ {running, broken} \subseteq BOOLEAN
  BY TypeParts DEF IInv
<1>0. PICK n : n = Head(alone).n
  OBVIOUS
<1> DEFINE a == Tail(alone)
<1>2. /\ alone \in Seq(Thunks) /\ ready \in Seq(Thunks) /\ a \in Seq(Thunks)
      /\ RestOf(a, alone) /\ RestOf(ready, ready)
      /\ Head(alone) = Thunk("stop", n) /\ n \in ThunkArg /\ Pending("stop", n)
  BY <1>0, <1>1, FrontEntry
<1>3. ~Has(a, Thunk("stop", n))
  BY <1>2, TailEntries DEF IInv, AnswersFit, a
<1> HIDE DEF a
<1>4. SetResult(n, ready, a) /\ Handling(ready, a)
  BY <1>0 DEF Handling, a
<1>5. UNCHANGED <<armed, flight, queue, scopes, ident, odd, unique, exc, errors>>
  BY DEF iterVars, scopeVars
<1>6. n \in 1..cur /\ (Awaits(n) => kind = "wait" /\ flight = 0 /\ ~armed) /\ n \in Await /\ Await \subseteq ThunkArg
  BY <1>1, <1>2, BoundsAssumption DEF IInv, AnswersFit, AwaitFits, Awaits, FutTyped, Await, ThunkArg
<1>7. WakesOnce'
  BY <1>1, <1>2, <1>4, HandlingKeepsWakes DEF IInv
<1>8. /\ AnswersFit' /\ pc' = pc /\ cur' = cur /\ kind' = kind
      /\ \A op \in {"set", "stop"}, m \in ThunkArg :
           /\ Pending(op, m)' => Pending(op, m)
           /\ Pending(op, m) => Pending(op, m)' \/ Head(alone) = Thunk(op, m)
  BY <1>1, <1>2, <1>4, <1>5, HandlingKeepsAnswers DEF IInv
<1>9. ~Pending("stop", n)'
  <2> DEFINE t == Thunk("stop", n)
  <2>1. t # Quiesce
    BY DEF Thunk, Quiesce
  <2> HIDE DEF t
  <2>2. \E h \in Thunks : Quiet(ready, a) \/ CallSoon(h, ready, a)
    BY <1>4, ThunkType DEF SetResult
  <2>3. Has(alone', t) <=> Has(a, t)
    BY <1>1, <1>2, <2>1, <2>2, CallSoonEntries
  <2>4. QED
    BY <1>3, <2>3 DEF t, Has, Pending
<1>10. LoopTyped' /\ FutTyped'
  BY <1>1, <1>2, <1>4, SetResultType
<1>11. WaitTyped' /\ ScopeTyped' /\ {running', broken'} \subseteq BOOLEAN
  BY <1>1 DEF WaitTyped, ScopeTyped, scopeVars
<1>12. Stations' /\ IterTyped'
  BY <1>1, StationsKept DEF IInv
<1>13. AwaitFits'
  <2>1. CASE Awaits(n)
    BY <1>4, <1>5, <1>6, <1>8, <2>1 DEF SetResult, Awaits, AwaitFits, IInv
  <2>2. CASE ~Awaits(n)
    <3>1. UNCHANGED futVars
      BY <1>4, <2>2 DEF SetResult
    <3>2. cur \in ThunkArg
      BY <1>1, BoundsAssumption DEF FutTyped, ThunkArg
    <3>3. Pending("set", cur) => Pending("set", cur)'
      BY <1>2, <1>8, <3>2 DEF Thunk, Pending
    <3>4. QED
      BY <1>5, <3>1, <3>3, AwaitKept DEF IInv
  <2>3. QED
    BY <2>1, <2>2
<1>14. HandlesOwned' /\ WaitsToCome'
  <2>1. handle' = [handle EXCEPT ![n] = "off"] /\ handle'[n] = "off"
    BY <1>0, <1>1, <1>6 DEF WaitTyped
  <2>2. \A m \in Await \ {n} : handle'[m] = handle[m] /\ (Pending("stop", m)' <=> Pending("stop", m))
    BY <1>1, <1>2, <1>6, <1>8, <2>1 DEF WaitTyped, Thunk
  <2>3. HandlesOwned'
    BY <1>8, <1>9, <2>1, <2>2 DEF HandlesOwned, IInv, Pending
  <2>4. WaitsToCome'
    BY <1>1, <1>6, <1>8, <2>2 DEF WaitsToCome, IInv, Await, FutTyped
  <2>5. QED
    BY <2>3, <2>4
<1>15. CancelsKnown'
  BY <1>1, <1>4, <1>5, SetResultIsKnown DEF IInv
<1>16. Requests' = Requests
  <2>1. Cardinality(Asking(a)) = Cardinality(Asking(alone))
    BY <1>2, AskingTail DEF a
  <2>2. QED
    BY <1>2, <1>4, <2>1, FutureRequests DEF Requests
<1>17. IdentifiersLeft'
  BY <1>5, <1>16, IdentifiersKept DEF IInv
<1>18. QED
  BY <1>7, <1>8, <1>10, <1>11, <1>12, <1>13, <1>14, <1>15, <1>17, TypeParts DEF IInv

(* The loop is entered or left. *)
LEMMA LoopKeeps ==
  ASSUME IInv, running' \in BOOLEAN, broken' \in BOOLEAN, asleep' \in BOOLEAN,
         UNCHANGED <<ready, futVars, iterVars, waitVars, scopeVars>>,
         alone' = alone \/ (alone # <<>> /\ Head(alone).op = "quiesce" /\ alone' = Tail(alone))
  PROVE  IInv'
<1>1. LoopTyped /\ FutTyped /\ IterTyped /\ WaitTyped /\ ScopeTyped /\ {running, broken} \subseteq BOOLEAN
  BY TypeParts DEF IInv
<1>2. alone \in Seq(Thunks) /\ ready \in Seq(Thunks) /\ alone' \in Seq(Thunks)
  BY <1>1, QueueType DEF LoopTyped
<1>3. LoopTyped' /\ FutTyped' /\ WaitTyped' /\ ScopeTyped'
  BY <1>1, <1>2 DEF LoopTyped, FutTyped, WaitTyped, ScopeTyped, futVars, waitVars, scopeVars
<1>4. IterTyped' /\ Stations'
  BY <1>1, StationsKept DEF IInv
<1>5. UNCHANGED <<pc, cur, kind, fut, armed, flight, queue, scopes, ident, odd, unique, exc, errors>>
  BY DEF futVars, iterVars, scopeVars
<1>6. \A op \in {"set", "stop"} : \A n :
        /\ Pending(op, n)' <=> Pending(op, n)
        /\ Once(alone, Thunk(op, n)) => Once(alone', Thunk(op, n))
  <2>1. CASE alone' = alone
    BY <2>1 DEF Pending
  <2>2. CASE alone # <<>> /\ Head(alone).op = "quiesce" /\ alone' = Tail(alone)
    <3>1. \A t : t.op # "quiesce" => (Has(alone', t) <=> Has(alone, t)) /\ (Once(alone, t) => Once(alone', t))
      BY <1>2, <2>2, TailEntries
    <3>2. \A op, n : Thunk(op, n).op = op /\ (Pending(op, n)' <=> Has(alone', Thunk(op, n)))
                     /\ (Pending(op, n) <=> Has(alone, Thunk(op, n)))
      BY DEF Pending, Has, Thunk
    <3>3. ASSUME NEW op \in {"set", "stop"}, NEW n
          PROVE  /\ Pending(op, n)' <=> Pending(op, n)
                 /\ Once(alone, Thunk(op, n)) => Once(alone', Thunk(op, n))
      <4>1. PICK t : t = Thunk(op, n) /\ t.op # "quiesce"
        BY <3>2
      <4>2. /\ Has(alone', Thunk(op, n)) <=> Has(alone, Thunk(op, n))
            /\ Once(alone, Thunk(op, n)) => Once(alone', Thunk(op, n))
        <5>1. (Has(alone', t) <=> Has(alone, t)) /\ (Once(alone, t) => Once(alone', t))
          BY <3>1, <4>1
        <5>2. QED
          BY <4>1, <5>1
      <4>3. QED
        BY <3>2, <4>2
    <3>4. QED
      BY <3>3
  <2>3. QED
    BY <2>1, <2>2
<1>7. WakesOnce'
  BY <1>5, WakesKept DEF IInv
<1>8. AnswersFit'
  BY <1>5, <1>6 DEF AnswersFit, IInv, Pending
<1>9. AwaitFits'
  BY <1>5, <1>6, AwaitKept DEF IInv, Pending
<1>10. HandlesOwned' /\ WaitsToCome'
  BY <1>1, <1>5, <1>6, HandlesKept DEF IInv
<1>11. CancelsKnown'
  BY <1>5, CancelsKept DEF IInv
<1>12. Requests' = Requests
  BY <1>2, AskingTail DEF Requests
<1>13. IdentifiersLeft'
  BY <1>5, <1>12, IdentifiersKept DEF IInv
<1>14. QED
  BY <1>3, <1>4, <1>7, <1>8, <1>9, <1>10, <1>11, <1>13, TypeParts DEF IInv

(* A request that is served takes at most one identifier. *)
LEMMA IdentifierServed ==
  ASSUME ScopeTyped, IdentifiersLeft, UNCHANGED <<exc, errors>>, unique' \in Int, unique' <= unique + 1,
         Requests \in Int, Requests' = Requests - 1
  PROVE  IdentifiersLeft'
<1>1. Interrupted' = Interrupted
  BY DEF Interrupted
<1>2. unique \in Int /\ errors \in Int
  BY DEF ScopeTyped
<1>3. Cardinality(Interrupted) \in Int
  <2>1. Cardinality(Interrupted) \in 0..MaxScopes
    BY InterruptedFinite
  <2>2. QED
    BY <2>1
<1>4. unique' - 1 + (Requests - 1) <= Cardinality(Interrupted) + errors
  BY <1>2, <1>3 DEF IdentifiersLeft
<1>5. QED
  BY <1>1, <1>4 DEF IdentifiersLeft

(* A request for an identifier is served, by SIM_run_alone or by the loop. *)
LEMMA ServedPropagateKeeps ==
  ASSUME IInv, NEW s, NEW r, NEW a, Propagate(s, r, a),
         \/ r = ready /\ alone # <<>> /\ Head(alone).op = "propagate" /\ a = Tail(alone)
         \/ a = alone /\ ready # <<>> /\ Head(ready).op = "propagate" /\ r = Tail(ready),
         UNCHANGED <<running, broken, iterVars, waitVars, scopes, entered, exc, errors, cancels>>
  PROVE  IInv'
<1>1. LoopTyped /\ FutTyped /\ IterTyped /\ WaitTyped /\ ScopeTyped /\ {running, broken} \subseteq BOOLEAN
  BY TypeParts DEF IInv
<1>2. RestOf(r, ready) /\ RestOf(a, alone) /\ ready \in Seq(Thunks) /\ alone \in Seq(Thunks)
  BY <1>1 DEF RestOf, LoopTyped
<1>3. r \in Seq(Thunks) /\ a \in Seq(Thunks)
  BY <1>2, RestEntries
<1>4. unique <= MaxIdent
  BY <1>1, IdentifierLeft DEF IInv
<1>5. /\ LoopTyped' /\ FutTyped'
      /\ ident' \in [ScopeId -> Ident] /\ unique' \in 1..MaxIdent + 1 /\ odd' \subseteq Ident
  BY <1>1, <1>3, <1>4, PropagateType
<1>6. ScopeTyped'
  BY <1>1, <1>5 DEF ScopeTyped
<1>7. /\ WakesOnce' /\ AnswersFit' /\ HandlesOwned' /\ WaitsToCome' /\ Stations'
      /\ IterTyped' /\ WaitTyped' /\ LoopTyped'
      /\ Pending("set", cur) => Pending("set", cur)'
      /\ UNCHANGED <<pc, cur, kind, armed, flight, queue>>
  BY <1>2, <1>3, PropagateHandles, ScopeStepKeeps
<1>8. AwaitFits'
  BY <1>1, <1>7, PropagateFits DEF IInv
<1>9. CancelsKnown'
  BY <1>1, PropagateIsKnown DEF IInv
<1>10. Requests' = Requests - 1 /\ Requests \in Int
  <2>1. Requests' = Cardinality(Asking(a)) + Cardinality(Asking(r))
    BY <1>3, FutureRequests DEF Propagate
  <2>2. Cardinality(Asking(alone)) \in Nat /\ Cardinality(Asking(ready)) \in Nat
    BY <1>2, AskingAppended, ThunkType
  <2>3. CASE r = ready /\ alone # <<>> /\ Head(alone).op = "propagate" /\ a = Tail(alone)
    <3>1. Cardinality(Asking(a)) = Cardinality(Asking(alone)) - 1
      BY <1>2, <2>3, AskingTail
    <3>2. QED
      BY <2>1, <2>2, <2>3, <3>1 DEF Requests
  <2>4. CASE a = alone /\ ready # <<>> /\ Head(ready).op = "propagate" /\ r = Tail(ready)
    <3>1. Cardinality(Asking(r)) = Cardinality(Asking(ready)) - 1
      BY <1>2, <2>4, AskingTail
    <3>2. QED
      BY <2>1, <2>2, <2>4, <3>1 DEF Requests
  <2>5. QED
    BY <2>3, <2>4
<1>11. unique' \in Int /\ unique' <= unique + 1
  BY <1>1 DEF Propagate, ScopeTyped
<1>12. IdentifiersLeft'
  BY <1>1, <1>10, <1>11, IdentifierServed DEF IInv
<1>13. QED
  BY <1>1, <1>5, <1>6, <1>7, <1>8, <1>9, <1>12, TypeParts DEF IInv

(* A request of a cell is handed on to the loop. *)
LEMMA SoonKeeps ==
  ASSUME IInv, alone # <<>>, Head(alone).op = "soon",
         CallSoon(Thunk("propagate", Head(alone).n), ready, Tail(alone)),
         UNCHANGED <<running, broken, futVars, iterVars, waitVars, scopeVars>>
  PROVE  IInv'
<1>1. LoopTyped /\ FutTyped /\ IterTyped /\ WaitTyped /\ ScopeTyped /\ {running, broken} \subseteq BOOLEAN
  BY TypeParts DEF IInv
<1> DEFINE h == Thunk("propagate", Head(alone).n)
           a == Tail(alone)
<1>2. /\ alone \in Seq(Thunks) /\ ready \in Seq(Thunks) /\ a \in Seq(Thunks)
      /\ RestOf(ready, ready) /\ h \in Thunks /\ h.op = "propagate"
  BY <1>1, FrontEntry, ThunkType DEF ThunkArg, ThunkOp, Thunk
<1>3. CallSoon(h, ready, a)
  OBVIOUS
<1>4. Cardinality(Asking(a)) = Cardinality(Asking(alone)) - 1
  BY <1>2, AskingTail
<1>5. a = Tail(alone)
  OBVIOUS
<1> HIDE DEF h, a
<1>6. Handling(ready, a)
  BY <1>2, <1>3 DEF Handling
<1>7. /\ WakesOnce' /\ AnswersFit' /\ HandlesOwned' /\ WaitsToCome' /\ Stations'
      /\ IterTyped' /\ WaitTyped' /\ LoopTyped'
      /\ Pending("set", cur) => Pending("set", cur)'
      /\ UNCHANGED <<pc, cur, kind, armed, flight, queue>>
  BY <1>2, <1>5, <1>6, ScopeStepKeeps
<1>8. FutTyped' /\ ScopeTyped'
  BY <1>1 DEF FutTyped, futVars, ScopeTyped, scopeVars
<1>9. UNCHANGED <<scopes, ident, odd, unique, exc, errors>>
  BY DEF scopeVars
<1>10. AwaitFits' /\ CancelsKnown'
  BY <1>7, <1>9, AwaitKept, CancelsKept DEF IInv
<1>11. Requests' = Requests
  <2>1. Cardinality(Asking(alone)) \in Nat /\ Cardinality(Asking(ready)) \in Nat
    BY <1>2, AskingAppended
  <2>2. Requests' = Cardinality(Asking(a)) + Cardinality(Asking(ready)) + 1
    BY <1>2, <1>3, CallSoonRequests DEF Requested
  <2>3. QED
    BY <1>4, <2>1, <2>2 DEF Requests
<1>12. IdentifiersLeft'
  BY <1>9, <1>11, IdentifiersKept DEF IInv
<1>13. QED
  BY <1>1, <1>7, <1>8, <1>10, <1>12, TypeParts DEF IInv

LEMMA RunAloneKeeps ==
  ASSUME IInv, RunAlone
  PROVE  IInv'
<1>1. CASE Head(alone).op = "quiesce"
  BY <1>1, LoopKeeps DEF RunAlone, Quiet, IInv, TypeOK
<1>2. CASE Head(alone).op = "set"
  BY <1>2, RunSetKeeps DEF RunAlone
<1>3. CASE Head(alone).op = "stop"
  BY <1>3, RunStopKeeps DEF RunAlone
<1>4. CASE Head(alone).op = "soon"
  BY <1>4, SoonKeeps DEF RunAlone
<1>5. CASE Head(alone).op = "propagate"
  BY <1>5, ServedPropagateKeeps DEF RunAlone
<1>6. QED
  BY <1>1, <1>2, <1>3, <1>4, <1>5 DEF RunAlone

LEMMA LoopStepsKeep ==
  ASSUME IInv, RunUntilComplete \/ QuiesceEnds \/ QuiesceRaises \/ RunPropagate
  PROVE  IInv'
<1>1. CASE RunUntilComplete
  BY <1>1, LoopKeeps DEF RunUntilComplete, loopVars, IInv, TypeOK
<1>2. CASE QuiesceEnds
  BY <1>2, LoopKeeps DEF QuiesceEnds
<1>3. CASE QuiesceRaises
  BY <1>3, LoopKeeps DEF QuiesceRaises, loopVars, IInv, TypeOK
<1>4. CASE RunPropagate
  BY <1>4, ServedPropagateKeeps DEF RunPropagate
<1>5. QED
  BY <1>1, <1>2, <1>3, <1>4
-----------------------------------------------------------------------------
(* The steps of the task. *)

(* A step of the task within its own code: it is not at an await.          *)
LEMMA OwnStepKeeps ==
  ASSUME IInv, pc = "run", pc' \in {"run", "done"}, UNCHANGED <<loopVars, running, broken, cur, kind, fut, waitVars>>,
         flight' = flight
  PROVE  /\ WakesOnce' /\ AnswersFit' /\ HandlesOwned' /\ WaitsToCome' /\ LoopTyped' /\ WaitTyped'
         /\ Requests' = Requests /\ {running', broken'} \subseteq BOOLEAN
         /\ ~armed /\ flight = 0 /\ (armed' = armed => AwaitFits')
<1>1. LoopTyped /\ FutTyped /\ WaitTyped /\ {running, broken} \subseteq BOOLEAN
  BY TypeParts DEF IInv
<1>2. UNCHANGED <<alone, ready, asleep, handle, stopped>>
  BY DEF loopVars, waitVars
<1>3. ~armed /\ flight = 0
  BY DEF IInv, AwaitFits
<1>4. WakesOnce'
  BY <1>2 DEF IInv, WakesOnce
<1>5. AnswersFit'
  BY <1>2 DEF IInv, AnswersFit, Pending
<1>6. HandlesOwned' /\ WaitsToCome'
  BY <1>2 DEF IInv, HandlesOwned, WaitsToCome, Pending
<1>7. LoopTyped' /\ WaitTyped' /\ {running', broken'} \subseteq BOOLEAN
  BY <1>1, <1>2 DEF LoopTyped, WaitTyped
<1>8. Requests' = Requests
  BY <1>2, QueuesKept
<1>9. armed' = armed => AwaitFits'
  BY <1>3 DEF IInv, AwaitFits
<1>10. QED
  BY <1>3, <1>4, <1>5, <1>6, <1>7, <1>8, <1>9

LEMMA TakeNextKeeps ==
  ASSUME IInv, TakeNext
  PROVE  IInv'
<1>1. LoopTyped /\ FutTyped /\ IterTyped /\ WaitTyped /\ ScopeTyped
  BY TypeParts DEF IInv
<1>2. /\ pc = "run" /\ queue # <<>> /\ got' = Append(got, Head(queue)) /\ queue' = Tail(queue)
      /\ UNCHANGED <<running, broken, loopVars, futVars, yielded, armed, flight, lost, waitVars, scopeVars>>
  BY DEF TakeNext
<1>3. UNCHANGED <<pc, cur, kind, fut, scopes, ident, odd, unique, exc, errors>>
  BY <1>2 DEF futVars, scopeVars
<1>4. /\ WakesOnce' /\ AnswersFit' /\ HandlesOwned' /\ WaitsToCome' /\ LoopTyped' /\ WaitTyped'
      /\ Requests' = Requests /\ {running', broken'} \subseteq BOOLEAN
      /\ flight = 0 /\ AwaitFits'
  BY <1>2, <1>3, OwnStepKeeps
<1>5. Stations' /\ IterTyped'
  BY <1>1, <1>2, <1>4, StationsTaken DEF IInv
<1>6. FutTyped' /\ ScopeTyped'
  BY <1>1, <1>2 DEF FutTyped, futVars, ScopeTyped, scopeVars
<1>7. CancelsKnown' /\ IdentifiersLeft'
  BY <1>2, <1>3, <1>4, CancelsKept, IdentifiersKept DEF IInv
<1>8. QED
  BY <1>4, <1>5, <1>6, <1>7, TypeParts DEF IInv

LEMMA EnterScopeKeeps ==
  ASSUME IInv, EnterScope
  PROVE  IInv'
<1>1. LoopTyped /\ FutTyped /\ IterTyped /\ WaitTyped /\ ScopeTyped
  BY TypeParts DEF IInv
<1>2. /\ pc = "run" /\ entered < MaxScopes /\ entered' = entered + 1 /\ scopes' = Append(scopes, entered')
      /\ UNCHANGED <<running, broken, loopVars, futVars, iterVars, waitVars, ident, exc, unique, errors, cancels, odd>>
  BY DEF EnterScope
<1>3. UNCHANGED <<pc, cur, kind, fut, by, must, armed, flight>>
  BY <1>2 DEF futVars, iterVars
<1>4. /\ WakesOnce' /\ AnswersFit' /\ HandlesOwned' /\ WaitsToCome' /\ LoopTyped' /\ WaitTyped'
      /\ Requests' = Requests /\ {running', broken'} \subseteq BOOLEAN
      /\ flight = 0 /\ AwaitFits'
  BY <1>2, <1>3, OwnStepKeeps
<1>5. Stations' /\ IterTyped'
  BY <1>1, <1>2, StationsKept DEF IInv
<1>6. FutTyped' /\ ScopeTyped'
  <2>1. entered' \in 0..MaxScopes /\ entered' \in ScopeId
    BY <1>1, <1>2, BoundsAssumption DEF ScopeTyped, ScopeId
  <2>2. scopes' \in Seq(ScopeId)
    BY <1>1, <1>2, <2>1, AppendProperties DEF ScopeTyped
  <2>3. QED
    BY <1>1, <1>2, <2>1, <2>2 DEF FutTyped, futVars, ScopeTyped
<1>7. CancelsKnown'
  BY <1>2, <1>3 DEF IInv, CancelsKnown, Excused
<1>8. IdentifiersLeft'
  BY <1>2, <1>4, IdentifiersKept DEF IInv
<1>9. QED
  BY <1>4, <1>5, <1>6, <1>7, <1>8, TypeParts DEF IInv

LEMMA LeaveScopeKeeps ==
  ASSUME IInv, LeaveScope
  PROVE  IInv'
<1>1. LoopTyped /\ FutTyped /\ IterTyped /\ WaitTyped /\ ScopeTyped
  BY TypeParts DEF IInv
<1>2. /\ pc = "run" /\ scopes # <<>> /\ scopes' = SubSeq(scopes, 1, Len(scopes) - 1)
      /\ UNCHANGED <<running, broken, loopVars, futVars, iterVars, waitVars, entered, ident, exc, unique, errors,
                     cancels, odd>>
  BY DEF LeaveScope
<1>3. UNCHANGED <<pc, cur, kind, fut, by, must, armed, flight>>
  BY <1>2 DEF futVars, iterVars
<1>4. /\ WakesOnce' /\ AnswersFit' /\ HandlesOwned' /\ WaitsToCome' /\ LoopTyped' /\ WaitTyped'
      /\ Requests' = Requests /\ {running', broken'} \subseteq BOOLEAN
      /\ flight = 0 /\ AwaitFits'
  BY <1>2, <1>3, OwnStepKeeps
<1>5. Stations' /\ IterTyped'
  BY <1>1, <1>2, StationsKept DEF IInv
<1>6. FutTyped' /\ ScopeTyped'
  <2>1. Len(scopes) \in Nat /\ \A k \in 1..Len(scopes) : scopes[k] \in ScopeId
    BY <1>1, LenProperties, ElementOfSeq DEF ScopeTyped
  <2>2. scopes' \in Seq(ScopeId)
    BY <1>2, <2>1, SubSeqProperties
  <2>3. QED
    BY <1>1, <1>2, <2>2 DEF FutTyped, futVars, ScopeTyped
<1>7. CancelsKnown'
  BY <1>2, <1>3 DEF IInv, CancelsKnown, Excused
<1>8. IdentifiersLeft'
  BY <1>2, <1>4, IdentifiersKept DEF IInv
<1>9. QED
  BY <1>4, <1>5, <1>6, <1>7, <1>8, TypeParts DEF IInv

LEMMA ReturnKeeps ==
  ASSUME IInv, Return
  PROVE  IInv'
<1>1. LoopTyped /\ FutTyped /\ IterTyped /\ WaitTyped /\ ScopeTyped
  BY TypeParts DEF IInv
<1>2. /\ pc = "run" /\ pc' = "done" /\ by' = must /\ must' = None
      /\ UNCHANGED <<running, broken, loopVars, cur, kind, fut, iterVars, waitVars, scopeVars>>
  BY DEF Return
<1>3. UNCHANGED <<armed, flight, scopes, ident, odd, unique, exc, errors>>
  BY <1>2 DEF scopeVars, iterVars
<1>4. /\ WakesOnce' /\ AnswersFit' /\ HandlesOwned' /\ WaitsToCome' /\ LoopTyped' /\ WaitTyped'
      /\ Requests' = Requests /\ {running', broken'} \subseteq BOOLEAN
      /\ flight = 0 /\ AwaitFits'
  BY <1>2, <1>3, OwnStepKeeps
<1>5. Stations' /\ IterTyped'
  BY <1>1, <1>2, StationsKept DEF IInv
<1>6. FutTyped' /\ ScopeTyped'
  <2>1. None \in Ident
    BY BoundsAssumption DEF Ident, None, MaxIdent
  <2>2. FutTyped'
    BY <1>1, <1>2, <2>1 DEF FutTyped
  <2>3. ScopeTyped'
    BY <1>1, <1>2 DEF ScopeTyped, scopeVars
  <2>4. QED
    BY <2>2, <2>3
<1>7. CancelsKnown'
  BY <1>2, <1>3 DEF IInv, CancelsKnown, Excused
<1>8. IdentifiersLeft'
  BY <1>3, <1>4, IdentifiersKept DEF IInv
<1>9. QED
  BY <1>4, <1>5, <1>6, <1>7, <1>8, TypeParts DEF IInv

(* An await that begins is for a new future. *)
LEMMA StartAwaitKeeps ==
  ASSUME IInv, pc = "run", NEW k \in {"next", "wait"}, StartAwait(k),
         UNCHANGED <<running, broken, yielded, queue, flight, got, lost, stopped, scopeVars>>
  PROVE  /\ WakesOnce' /\ AnswersFit' /\ LoopTyped' /\ FutTyped' /\ ScopeTyped' /\ Stations' /\ CancelsKnown'
         /\ IdentifiersLeft' /\ {running', broken'} \subseteq BOOLEAN
         /\ cur' = cur + 1 /\ cur' \in Await /\ pc' = "await" /\ kind' = k /\ ~armed /\ flight = 0
         /\ fut' # "set" /\ (fut' = "cancelled" => by' # None)
         /\ \A n \in ThunkArg : (Pending("stop", n)' <=> Pending("stop", n))
<1>1. LoopTyped /\ FutTyped /\ IterTyped /\ WaitTyped /\ ScopeTyped /\ {running, broken} \subseteq BOOLEAN
  BY TypeParts DEF IInv
<1>2. /\ cur < MaxAwaits /\ cur' = cur + 1 /\ kind' = k /\ pc' = "await" /\ must' = None
      /\ \/ must = None /\ fut' = "pending" /\ by' = None /\ UNCHANGED loopVars
         \/ must # None /\ fut' = "cancelled" /\ by' = must /\ CallSoon(WakeUp, ready, alone)
  BY DEF StartAwait
<1>3. ~armed /\ flight = 0
  BY DEF IInv, AwaitFits
<1>4. UNCHANGED <<scopes, ident, odd, unique, exc, errors>>
  BY DEF scopeVars
<1>5. ready \in Seq(Thunks) /\ alone \in Seq(Thunks) /\ WakeUp \in Thunks /\ WakeUp.op = "wakeup"
  BY <1>1, ThunkType DEF LoopTyped, WakeUp, Thunk
<1>6. cur' \in Await /\ cur' \in 0..MaxAwaits
  BY <1>1, <1>2, BoundsAssumption DEF FutTyped, Await
<1>7. LoopTyped'
  <2>1. CASE UNCHANGED loopVars
    BY <1>1, <2>1 DEF LoopTyped, loopVars
  <2>2. CASE CallSoon(WakeUp, ready, alone)
    BY <1>1, <1>5, <2>2, CallSoonType
  <2>3. QED
    BY <1>2, <2>1, <2>2
<1>8. FutTyped' /\ ScopeTyped'
  <2>1. None \in Ident
    BY BoundsAssumption DEF Ident, None, MaxIdent
  <2>2. QED
    BY <1>1, <1>2, <1>6, <2>1 DEF FutTyped, ScopeTyped, scopeVars
<1>9. WakesOnce'
  <2>1. CASE fut' = "pending" /\ UNCHANGED loopVars
    BY <2>1 DEF IInv, WakesOnce, loopVars
  <2>2. CASE fut' = "cancelled" /\ CallSoon(WakeUp, ready, alone)
    <3>1. ready' = Append(ready, WakeUp) /\ ~Has(ready, WakeUp)
      BY <2>2 DEF CallSoon, IInv, WakesOnce
    <3>2. QED
      BY <1>2, <1>5, <2>2, <3>1, AppendedEntries DEF IInv, WakesOnce
  <2>3. QED
    BY <1>2, <2>1, <2>2
<1>10. \A t : t # Quiesce => (Has(alone', t) <=> Has(alone, t)) /\ (Once(alone, t) => Once(alone', t))
  <2>1. CASE UNCHANGED loopVars
    BY <2>1 DEF loopVars
  <2>2. CASE CallSoon(WakeUp, ready, alone)
    BY <1>1, <1>5, <2>2, CallSoonEntries
  <2>3. QED
    BY <1>2, <2>1, <2>2
<1>11. ASSUME NEW op \in {"set", "stop"}, NEW n
       PROVE  /\ Pending(op, n)' <=> Pending(op, n)
              /\ Once(alone, Thunk(op, n)) => Once(alone', Thunk(op, n))
  <2>0. Thunk(op, n).op # Quiesce.op
    BY DEF Thunk, Quiesce
  <2>1. PICK t : t = Thunk(op, n) /\ t # Quiesce
    BY <2>0
  <2>2. (Has(alone', t) <=> Has(alone, t)) /\ (Once(alone, t) => Once(alone', t))
    BY <1>10, <2>1
  <2>3. QED
    BY <2>1, <2>2 DEF Has, Pending
<1>12. AnswersFit'
  <2>1. SUFFICES ASSUME NEW n \in ThunkArg
                 PROVE  /\ Pending("set", n)' => n \in 1..cur' /\ (pc' = "await" /\ n = cur' => kind' = "next" /\ flight' # 0)
                        /\ Pending("stop", n)' => n \in 1..cur' /\ (pc' = "await" /\ n = cur' => kind' = "wait")
                        /\ Once(alone', Thunk("stop", n))
    BY DEF AnswersFit
  <2>2. n \in 1..cur => n \in 1..cur' /\ n # cur'
    BY <1>1, <1>2 DEF FutTyped
  <2>3. QED
    BY <1>11, <2>2 DEF IInv, AnswersFit
<1>13. Stations'
  BY DEF IInv, Stations, Rising, Items, Flown
<1>14. CancelsKnown'
  <2>1. Known' = Known /\ Excused' = Excused
    BY <1>4, ScopesKept
  <2>2. must \in Known /\ None \in Known
    BY DEF IInv, CancelsKnown, Known, Excused
  <2>3. QED
    BY <1>2, <2>1, <2>2 DEF CancelsKnown
<1>15. Requests' = Requests
  <2>1. CASE UNCHANGED loopVars
    BY <2>1, QueuesKept DEF loopVars
  <2>2. CASE CallSoon(WakeUp, ready, alone)
    <3>1. Requested(WakeUp) = 0 /\ Cardinality(Asking(alone)) \in Nat /\ Cardinality(Asking(ready)) \in Nat
      BY <1>5, AskingAppended DEF Requested
    <3>2. QED
      BY <1>5, <2>2, <3>1, CallSoonRequests DEF Requests
  <2>3. QED
    BY <1>2, <2>1, <2>2
<1>16. IdentifiersLeft'
  BY <1>4, <1>15, IdentifiersKept DEF IInv
<1>17. QED
  BY <1>1, <1>2, <1>3, <1>6, <1>7, <1>8, <1>9, <1>11, <1>12, <1>13, <1>14, <1>16

LEMMA AwaitNextKeeps ==
  ASSUME IInv, AwaitNext
  PROVE  IInv'
<1>1. LoopTyped /\ FutTyped /\ IterTyped /\ WaitTyped /\ ScopeTyped
  BY TypeParts DEF IInv
<1>2. /\ pc = "run" /\ queue = <<>> /\ StartAwait("next") /\ armed' = TRUE
      /\ UNCHANGED <<running, broken, yielded, queue, flight, got, lost, waitVars, scopeVars>>
  BY DEF AwaitNext
<1>3. UNCHANGED <<handle, stopped>>
  BY <1>2 DEF waitVars
<1>4. /\ WakesOnce' /\ AnswersFit' /\ LoopTyped' /\ FutTyped' /\ ScopeTyped' /\ Stations' /\ CancelsKnown'
      /\ IdentifiersLeft' /\ {running', broken'} \subseteq BOOLEAN
      /\ cur' = cur + 1 /\ cur' \in Await /\ pc' = "await" /\ kind' = "next" /\ ~armed /\ flight = 0
      /\ fut' # "set" /\ (fut' = "cancelled" => by' # None)
      /\ \A n \in ThunkArg : (Pending("stop", n)' <=> Pending("stop", n))
  BY <1>2, <1>3, StartAwaitKeeps
<1>5. AwaitFits'
  BY <1>2, <1>4 DEF AwaitFits
<1>6. IterTyped' /\ WaitTyped'
  BY <1>1, <1>2, <1>3 DEF IterTyped, WaitTyped
<1>7. HandlesOwned' /\ WaitsToCome'
  <2>1. Await \subseteq ThunkArg /\ Await \subseteq Nat /\ cur \in Nat
    BY <1>1, BoundsAssumption DEF Await, ThunkArg, FutTyped
  <2>2. HandlesOwned'
    BY <1>2, <1>3, <1>4, <2>1 DEF IInv, HandlesOwned, Pending
  <2>3. WaitsToCome'
    BY <1>3, <1>4, <2>1 DEF IInv, WaitsToCome
  <2>4. QED
    BY <2>2, <2>3
<1>8. QED
  BY <1>4, <1>5, <1>6, <1>7, TypeParts DEF IInv

LEMMA AwaitEventKeeps ==
  ASSUME IInv, AwaitEvent
  PROVE  IInv'
<1>1. LoopTyped /\ FutTyped /\ IterTyped /\ WaitTyped /\ ScopeTyped
  BY TypeParts DEF IInv
<1>2. /\ pc = "run" /\ StartAwait("wait") /\ handle' = [handle EXCEPT ![cur'] = "on"]
      /\ UNCHANGED <<running, broken, iterVars, stopped, scopeVars>>
  BY DEF AwaitEvent
<1>3. UNCHANGED <<yielded, queue, armed, flight, got, lost>>
  BY <1>2 DEF iterVars
<1>4. /\ WakesOnce' /\ AnswersFit' /\ LoopTyped' /\ FutTyped' /\ ScopeTyped' /\ Stations' /\ CancelsKnown'
      /\ IdentifiersLeft' /\ {running', broken'} \subseteq BOOLEAN
      /\ cur' = cur + 1 /\ cur' \in Await /\ pc' = "await" /\ kind' = "wait" /\ ~armed /\ flight = 0
      /\ fut' # "set" /\ (fut' = "cancelled" => by' # None)
      /\ \A n \in ThunkArg : (Pending("stop", n)' <=> Pending("stop", n))
  BY <1>2, <1>3, StartAwaitKeeps
<1>5. AwaitFits'
  BY <1>3, <1>4 DEF AwaitFits
<1>6. IterTyped' /\ WaitTyped'
  BY <1>1, <1>2, <1>3, <1>4 DEF IterTyped, WaitTyped
<1>7. HandlesOwned' /\ WaitsToCome'
  <2>1. Await \subseteq ThunkArg /\ Await \subseteq Nat /\ cur \in Nat
    BY <1>1, BoundsAssumption DEF Await, ThunkArg, FutTyped
  <2>2. /\ \A n \in Await : n # cur' => handle'[n] = handle[n]
        /\ handle'[cur'] = "on" /\ stopped' = stopped /\ cur' > cur
    BY <1>1, <1>2, <1>4, <2>1 DEF WaitTyped
  <2>3. ~stopped[cur'] /\ handle[cur'] = "none"
    BY <1>4, <2>2 DEF IInv, WaitsToCome
  <2>4. ~Pending("stop", cur')
    BY <1>4, <2>3 DEF IInv, HandlesOwned
  <2>6. ASSUME NEW f \in Await
        PROVE  /\ Pending("stop", f)' => handle'[f] = "on" /\ stopped'[f]
               /\ handle'[f] = "on" => Pending("stop", f)' \/ (cur' = f /\ ~stopped'[f])
    <3>1. Pending("stop", f)' <=> Pending("stop", f)
      BY <1>4, <2>1
    <3>2. CASE f = cur'
      BY <2>2, <2>3, <2>4, <3>1, <3>2
    <3>3. CASE f # cur'
      BY <1>2, <2>2, <3>1, <3>3 DEF IInv, HandlesOwned
    <3>4. QED
      BY <3>2, <3>3
  <2>7. HandlesOwned'
    BY <1>4, <2>6 DEF HandlesOwned, Pending
  <2>8. WaitsToCome'
    BY <1>4, <2>1, <2>2 DEF IInv, WaitsToCome
  <2>9. QED
    BY <2>7, <2>8
<1>8. QED
  BY <1>4, <1>5, <1>6, <1>7, TypeParts DEF IInv

LEMMA ResumeKeeps ==
  ASSUME IInv, Resume
  PROVE  IInv'
<1>1. LoopTyped /\ FutTyped /\ IterTyped /\ WaitTyped /\ ScopeTyped /\ {running, broken} \subseteq BOOLEAN
  BY TypeParts DEF IInv
<1>2. /\ pc = "await" /\ ready # <<>> /\ Head(ready).op = "wakeup" /\ ready' = Tail(ready) /\ must' = None
      /\ LeaveAwait /\ (ResumeWithResult \/ ResumeCancelled)
      /\ UNCHANGED <<alone, asleep, running, broken, cur, kind, fut, yielded, queue, entered, ident, exc, unique,
                     errors, cancels, odd>>
  BY DEF Resume
<1>3. ready \in Seq(Thunks) /\ alone \in Seq(Thunks)
  BY <1>1 DEF LoopTyped
<1>4. Head(ready) = WakeUp /\ ~Has(ready', WakeUp) /\ ready' \in Seq(Thunks) /\ fut # "pending"
  <2>1. Head(ready) \in Thunks /\ Tail(ready) \in Seq(Thunks) /\ Has(ready, Head(ready))
    BY <1>2, <1>3, TailEntries
  <2>2. Head(ready) = WakeUp /\ Has(ready, WakeUp) /\ Once(ready, WakeUp)
    BY <1>2, <2>1 DEF IInv, WakesOnce
  <2>3. ~Has(Tail(ready), WakeUp)
    BY <1>2, <1>3, <2>2, TailEntries
  <2>4. QED
    BY <1>2, <2>1, <2>2, <2>3 DEF IInv, WakesOnce
<1>5. pc' \in {"run", "done"}
  BY <1>2 DEF ResumeWithResult, ResumeCancelled
<1>6. WakesOnce'
  <2>1. \A t : Has(ready', t) => Has(ready, t)
    BY <1>2, <1>3, TailEntries
  <2>2. Once(ready', WakeUp)
    BY <1>4 DEF Has, Once
  <2>3. QED
    BY <1>4, <2>1, <2>2 DEF IInv, WakesOnce
<1>7. AnswersFit'
  BY <1>2, <1>5 DEF IInv, AnswersFit, Pending
<1>8. armed' = FALSE
  BY <1>2 DEF LeaveAwait, IInv, AwaitFits
<1>9. flight' = 0
  BY <1>1, <1>2 DEF ResumeWithResult, ResumeCancelled, IInv, AwaitFits, FutTyped
<1>10. AwaitFits'
  BY <1>5, <1>8, <1>9 DEF AwaitFits
<1>11. Stations' /\ IterTyped'
  <2>1. CASE ResumeWithResult /\ kind = "next"
    <3>1. flight # 0 /\ got' = Append(got, flight) /\ lost' = lost
      BY <1>1, <1>2, <1>4, <2>1 DEF ResumeWithResult, Raised, IInv, AwaitFits, FutTyped
    <3>2. QED
      BY <1>1, <1>2, <1>8, <1>9, <3>1, StationsReceived DEF IInv
  <2>2. CASE ResumeWithResult /\ kind # "next"
    <3>1. flight = 0 /\ ~armed /\ got' = got /\ lost' = lost
      BY <2>2 DEF ResumeWithResult, IInv, AwaitFits
    <3>2. UNCHANGED iterVars
      BY <1>1, <1>2, <1>8, <1>9, <3>1 DEF iterVars, IterTyped
    <3>3. QED
      BY <1>1, <3>2, StationsKept DEF IInv
  <2>3. CASE ResumeCancelled
    <3>1. lost' = lost \cup Flown /\ got' = got
      BY <2>3 DEF ResumeCancelled, Flown
    <3>2. QED
      BY <1>1, <1>2, <1>8, <1>9, <3>1, StationsLost DEF IInv
  <2>4. QED
    BY <1>2, <2>1, <2>2, <2>3
<1>12. cur \in Await /\ Await \subseteq Nat /\ (~Pending("stop", cur) => ~Pending("stop", cur)')
  BY <1>2, BoundsAssumption DEF IInv, AwaitFits, Await, Pending
<1>13. WaitTyped' /\ HandlesOwned' /\ WaitsToCome'
  <2>1. stopped' = stopped
    BY <1>2 DEF LeaveAwait
  <2>2. CASE kind = "wait" /\ ~stopped[cur]
    <3>1. handle' = [handle EXCEPT ![cur] = "off"]
      BY <1>2, <2>2 DEF LeaveAwait
    <3>2. ~Pending("stop", cur)
      BY <1>12, <2>2 DEF IInv, HandlesOwned
    <3>3. \A f \in Await \ {cur} : handle'[f] = handle[f]
      BY <1>1, <3>1 DEF WaitTyped
    <3>4. handle'[cur] = "off" /\ handle' \in [Await -> {"none", "on", "off"}]
      BY <1>1, <1>12, <3>1 DEF WaitTyped
    <3>5. HandlesOwned'
      BY <1>2, <1>5, <1>12, <2>1, <3>2, <3>3, <3>4 DEF IInv, HandlesOwned, Pending
    <3>6. WaitsToCome'
      BY <1>2, <1>12, <2>1, <3>3 DEF IInv, WaitsToCome
    <3>7. QED
      BY <1>1, <2>1, <3>4, <3>5, <3>6 DEF WaitTyped
  <2>3. CASE ~(kind = "wait" /\ ~stopped[cur])
    <3>1. handle' = handle
      BY <1>2, <2>3 DEF LeaveAwait
    <3>2. HandlesOwned'
      BY <1>2, <1>5, <2>1, <2>3, <3>1 DEF IInv, HandlesOwned, Pending
    <3>3. WaitsToCome'
      BY <1>2, <2>1, <3>1 DEF IInv, WaitsToCome
    <3>4. QED
      BY <1>1, <2>1, <3>1, <3>2, <3>3 DEF WaitTyped
  <2>4. QED
    BY <2>2, <2>3
<1>14. Raised \in Ident /\ Raised \in Known /\ None \in Ident
  BY <1>1, <1>2, BoundsAssumption DEF Raised, FutTyped, IInv, CancelsKnown, Ident, None, MaxIdent
<1>15. FutTyped'
  BY <1>1, <1>2, <1>5, <1>14 DEF FutTyped, ResumeWithResult, ResumeCancelled
<1>16. ScopeTyped'
  <2>1. scopes' \in Seq(ScopeId)
    <3>1. Len(scopes) \in Nat /\ \A k \in 1..Len(scopes) : scopes[k] \in ScopeId
      BY <1>1, LenProperties, ElementOfSeq DEF ScopeTyped
    <3>2. \A k \in 1..Len(scopes) : SubSeq(scopes, 1, k - 1) \in Seq(ScopeId)
      BY <3>1, SubSeqProperties
    <3>3. CASE scopes' = scopes
      BY <1>1, <3>3 DEF ScopeTyped
    <3>4. CASE scopes' = <<>>
      BY <3>4, EmptySeq
    <3>5. CASE Catching(Raised) # {} /\ scopes' = SubSeq(scopes, 1, (CHOOSE k \in Catching(Raised) : TRUE) - 1)
      <4>1. PICK k \in 1..Len(scopes) : scopes' = SubSeq(scopes, 1, k - 1)
        BY <3>5 DEF Catching
      <4>2. QED
        BY <3>2, <4>1
    <3>6. QED
      BY <1>2, <3>3, <3>4, <3>5 DEF ResumeWithResult, ResumeCancelled
  <2>2. QED
    BY <1>1, <1>2, <2>1 DEF ScopeTyped
<1>17. CancelsKnown'
  <2>1. Excused' = Excused /\ None \in Excused
    BY <1>2 DEF Excused
  <2>2. pc' = "done" => by' \in Excused
    <3>1. SUFFICES ASSUME pc' = "done" PROVE by' \in Excused
      OBVIOUS
    <3>2. by' = Raised /\ Raised # None /\ Catching(Raised) = {}
      BY <1>2, <3>1 DEF ResumeWithResult, ResumeCancelled
    <3>3. \A k \in 1..Len(scopes) : ident[scopes[k]] # Raised
      BY <3>2 DEF Catching
    <3>4. QED
      BY <1>14, <3>2, <3>3 DEF Known
  <2>3. QED
    BY <1>2, <1>5, <2>1, <2>2 DEF CancelsKnown
<1>18. Requests' = Requests
  BY <1>2, <1>3, AskingTail DEF Requests
<1>19. IdentifiersLeft'
  BY <1>2, <1>18, IdentifiersKept DEF IInv
<1>20. LoopTyped' /\ {running', broken'} \subseteq BOOLEAN
  BY <1>1, <1>2, <1>4 DEF LoopTyped
<1>21. QED
  BY <1>6, <1>7, <1>10, <1>11, <1>13, <1>15, <1>16, <1>17, <1>19, <1>20, TypeParts DEF IInv
-----------------------------------------------------------------------------
(* The inductive invariant. *)
LEMMA InitInv == Init => IInv
<1> SUFFICES ASSUME Init PROVE IInv
  OBVIOUS
<1>1. {MaxItems, MaxAwaits, MaxScopes, MaxErrors, MaxCancels} \subseteq Nat /\ MaxIdent \in Nat
  BY BoundsAssumption DEF MaxIdent
<1>2. alone = <<>> /\ ready = <<>> /\ queue = <<>> /\ got = <<>> /\ scopes = <<>>
  BY DEF Init
<1>3. Len(alone) = 0 /\ Len(ready) = 0 /\ Len(queue) = 0 /\ Len(got) = 0
  BY <1>2
<1>4. LoopTyped /\ IterTyped
  <2>1. <<>> \in Seq(Thunks) /\ <<>> \in Seq(1..MaxItems)
    BY EmptySeq
  <2>2. alone \in Seq(Thunks) /\ ready \in Seq(Thunks) /\ queue \in Seq(1..MaxItems) /\ got \in Seq(1..MaxItems)
    BY <1>2, <2>1
  <2>3. asleep \in BOOLEAN /\ armed \in BOOLEAN
    BY DEF Init
  <2>4. yielded \in 0..MaxItems /\ flight \in 0..MaxItems /\ lost \subseteq 1..MaxItems
    BY <1>1 DEF Init
  <2>5. QED
    BY <2>2, <2>3, <2>4 DEF LoopTyped, IterTyped
<1>5. FutTyped /\ WaitTyped
  BY <1>1 DEF Init, FutTyped, WaitTyped, Ident, None
<1>6. ScopeTyped
  BY <1>1, EmptySeq DEF Init, ScopeTyped, Ident, None
<1>7. TypeOK
  BY <1>4, <1>5, <1>6, TypeParts DEF Init
<1>8. \A t : ~Has(alone, t) /\ ~Has(ready, t) /\ Once(alone, t) /\ Once(ready, t)
  BY <1>3 DEF Has, Once
<1>9. WakesOnce
  BY <1>8 DEF WakesOnce
<1>10. \A op, n : ~Pending(op, n)
  BY <1>3 DEF Pending
<1>11. AnswersFit
  BY <1>8, <1>10 DEF AnswersFit
<1>12. AwaitFits
  BY DEF Init, AwaitFits
<1>13. HandlesOwned /\ WaitsToCome
  BY <1>10 DEF Init, HandlesOwned, WaitsToCome
<1>14. Stations
  <2>1. Items(got) = {} /\ Items(queue) = {} /\ Flown = {} /\ yielded = 0 /\ lost = {}
    BY <1>3 DEF Init, Items, Flown
  <2>2. QED
    BY <1>3, <2>1 DEF Stations, Rising
<1>15. CancelsKnown
  BY DEF Init, CancelsKnown, Excused
<1>16. IdentifiersLeft
  <2>1. Asking(alone) = {} /\ Asking(ready) = {} /\ Interrupted = {}
    BY <1>3 DEF Init, Asking, Interrupted
  <2>2. unique = 1 /\ errors = 0
    BY DEF Init
  <2>3. QED
    BY <2>1, <2>2, FS_EmptySet DEF IdentifiersLeft, Requests
<1>17. QED
  BY <1>7, <1>9, <1>11, <1>12, <1>13, <1>14, <1>15, <1>16 DEF IInv

LEMMA NextInv == IInv /\ [Next]_vars => IInv'
<1> SUFFICES ASSUME IInv, [Next]_vars PROVE IInv'
  OBVIOUS
<1>1. ASSUME NEW ctx \in Context, Yield(ctx) PROVE IInv'
  BY <1>1, YieldKeeps DEF Context
<1>2. ASSUME NEW ctx \in Context, NEW f \in Await, Event(f, ctx) PROVE IInv'
  BY <1>2, EventKeeps DEF Context
<1>3. ASSUME NEW ctx \in Context, NEW s \in ScopeId, TimeOut(s, ctx) PROVE IInv'
  BY <1>3, TimeOutKeeps DEF Context
<1>4. ASSUME NEW ctx \in Context, NEW s \in ScopeId, ScopeError(s, ctx) PROVE IInv'
  BY <1>4, ScopeErrorKeeps DEF Context
<1>5. CASE CancelTask
  BY <1>5, CancelTaskKeeps
<1>6. CASE RunAlone
  BY <1>6, RunAloneKeeps
<1>7. CASE RunUntilComplete \/ QuiesceEnds \/ QuiesceRaises \/ RunPropagate
  BY <1>7, LoopStepsKeep
<1>8. CASE Resume
  BY <1>8, ResumeKeeps
<1>9. CASE AwaitNext
  BY <1>9, AwaitNextKeeps
<1>10. CASE TakeNext
  BY <1>10, TakeNextKeeps
<1>11. CASE AwaitEvent
  BY <1>11, AwaitEventKeeps
<1>12. CASE EnterScope
  BY <1>12, EnterScopeKeeps
<1>13. CASE LeaveScope
  BY <1>13, LeaveScopeKeeps
<1>14. CASE Return
  BY <1>14, ReturnKeeps
<1>15. CASE UNCHANGED vars
  BY <1>15, LoopKeeps DEF vars, loopVars, IInv, TypeOK
<1>16. QED
  BY <1>1, <1>2, <1>3, <1>4, <1>5, <1>6, <1>7, <1>8, <1>9, <1>10, <1>11, <1>12, <1>13, <1>14, <1>15
     DEF Next, Snoopers, LoopStep, TaskStep

(* The invariant says what the run checks of the values. *)
LEMMA InOrderInv ==
  ASSUME IInv
  PROVE  IteratorInOrder
<1>1. /\ queue \in Seq(1..MaxItems) /\ got \in Seq(1..MaxItems) /\ Stations /\ AwaitFits
      /\ flight \in 0..MaxItems /\ MaxItems \in Nat
  BY BoundsAssumption DEF IInv, TypeOK
<1>2. Flying \in Seq(1..MaxItems) /\ Items(Flying) = Flown /\ Rising(Flying)
  <2>1. CASE flight = 0
    BY <2>1, EmptySeq DEF Flying, Items, Flown, Rising
  <2>2. CASE flight # 0
    <3>1. Flying = <<flight>> /\ Len(Flying) = 1 /\ Flying[1] = flight /\ flight \in 1..MaxItems
      BY <1>1, <2>2 DEF Flying
    <3>2. Flying \in Seq(1..MaxItems)
      BY <3>1
    <3>3. QED
      BY <3>1, <3>2, <2>2 DEF Items, Flown, Rising
  <2>3. QED
    BY <2>1, <2>2
<1>3. ASSUME NEW s \in Seq(1..MaxItems), NEW t \in Seq(1..MaxItems)
      PROVE  /\ s \o t \in Seq(1..MaxItems) /\ Items(s \o t) = Items(s) \cup Items(t)
             /\ Rising(s) /\ Rising(t) /\ (\A x \in Items(s), y \in Items(t) : x < y) => Rising(s \o t)
  <2> DEFINE w == s \o t
  <2>1. /\ w \in Seq(1..MaxItems) /\ Len(s) \in Nat /\ Len(t) \in Nat /\ Len(w) = Len(s) + Len(t)
        /\ \A k \in 1..Len(s) + Len(t) : w[k] = IF k <= Len(s) THEN s[k] ELSE t[k - Len(s)]
    BY ConcatProperties, LenProperties
  <2> HIDE DEF w
  <2>2. \A k \in 1..Len(s) : k \in 1..Len(w) /\ w[k] = s[k]
    BY <2>1
  <2>3. \A k \in 1..Len(t) : Len(s) + k \in 1..Len(w) /\ w[Len(s) + k] = t[k]
    <3> SUFFICES ASSUME NEW k \in 1..Len(t)
                 PROVE  Len(s) + k \in 1..Len(w) /\ w[Len(s) + k] = t[k]
      OBVIOUS
    <3>1. /\ Len(s) + k \in 1..Len(s) + Len(t) /\ ~(Len(s) + k <= Len(s))
          /\ (Len(s) + k) - Len(s) = k
      BY <2>1
    <3>2. w[Len(s) + k] = t[(Len(s) + k) - Len(s)]
      BY <2>1, <3>1
    <3>3. QED
      BY <2>1, <3>1, <3>2
  <2>4. \A k \in 1..Len(w) : k \in 1..Len(s) \/ (k - Len(s) \in 1..Len(t) /\ k = Len(s) + (k - Len(s)))
    BY <2>1
  <2>5. Items(w) = Items(s) \cup Items(t)
    <3>1. Items(s) \cup Items(t) \subseteq Items(w)
      BY <2>2, <2>3 DEF Items
    <3>2. \A k \in 1..Len(w) : w[k] \in Items(s) \cup Items(t)
      BY <2>2, <2>3, <2>4 DEF Items
    <3>3. QED
      BY <3>1, <3>2 DEF Items
  <2>6. ASSUME Rising(s), Rising(t), \A x \in Items(s), y \in Items(t) : x < y,
               NEW i \in 1..Len(w), NEW j \in 1..Len(w), i < j
        PROVE  w[i] < w[j]
    <3>1. CASE j \in 1..Len(s)
      BY <2>1, <2>2, <2>6, <3>1 DEF Rising
    <3>2. CASE i \in 1..Len(s) /\ j - Len(s) \in 1..Len(t)
      BY <2>1, <2>6, <3>2 DEF Items
    <3>3. CASE i - Len(s) \in 1..Len(t) /\ j - Len(s) \in 1..Len(t)
      <4>1. \A m, n \in 1..Len(t) : m < n => t[m] < t[n]
        BY <2>6 DEF Rising
      <4>2. i - Len(s) < j - Len(s) /\ w[i] = t[i - Len(s)] /\ w[j] = t[j - Len(s)]
        BY <2>1, <2>6, <3>3
      <4>3. QED
        BY <3>3, <4>1, <4>2
    <3>4. QED
      BY <2>1, <2>4, <2>6, <3>1, <3>2, <3>3
  <2>7. Rising(s) /\ Rising(t) /\ (\A x \in Items(s), y \in Items(t) : x < y) => Rising(w)
    BY <2>6 DEF Rising
  <2>8. QED
    BY <2>1, <2>5, <2>7 DEF w
<1>4. /\ got \o Flying \in Seq(1..MaxItems) /\ Items(got \o Flying) = Items(got) \cup Flown
      /\ Rising(got \o Flying)
  BY <1>1, <1>2, <1>3 DEF Stations
<1>5. /\ Items((got \o Flying) \o queue) = Items(got) \cup Flown \cup Items(queue)
      /\ Rising((got \o Flying) \o queue)
  BY <1>1, <1>3, <1>4 DEF Stations
<1>6. QED
  BY <1>1, <1>5 DEF IteratorInOrder, Stations, AwaitFits

(* The state keeps its types, identifiers stay within those that the scopes *)
(* and their exceptions need, and no await for a value ends without one.   *)
THEOREM TypeCorrect == Spec => []TypeOK
<1>1. IInv => TypeOK
  BY DEF IInv
<1>2. QED
  BY <1>1, InitInv, NextInv, PTL DEF Spec

(* The values reach the task in the order in which the snooper yields them, *)
(* and only those are missing that were on their way to an await when it   *)
(* was cancelled, whatever cancels, timeouts and contexts interleave.      *)
THEOREM InOrderAlways == Spec => []IteratorInOrder
<1>1. IInv => IteratorInOrder
  BY InOrderInv
<1>2. QED
  BY <1>1, InitInv, NextInv, PTL DEF Spec

(* A callback of wait is there while the task waits or until SIM_run_alone *)
(* gets to its cancellation, which is queued once.                         *)
THEOREM HandlesOwnedAlways == Spec => []HandlesOwned
<1>1. IInv => HandlesOwned
  BY DEF IInv
<1>2. QED
  BY <1>1, InitInv, NextInv, PTL DEF Spec

(* The exception of a scope stays inside it, but for identifiers that the  *)
(* scope has replaced and those it took while the task was in its own step. *)
THEOREM CancelContainedAlways == Spec => []CancelContained
<1>1. IInv => CancelContained
  BY DEF IInv, CancelsKnown, CancelContained, Excused
<1>2. QED
  BY <1>1, InitInv, NextInv, PTL DEF Spec
=============================================================================
