----------------------------- MODULE PLICProofs -----------------------------
(***************************************************************************)
(* The interrupt controller keeps its lines exact and loses no interrupt,  *)
(* for any interrupts, contexts, hardwired bits and widths, and whatever   *)
(* the software does.                                                      *)
(***************************************************************************)
EXTENDS PLIC, TLAPS

(* The handlers update a line from the change they have made; that is      *)
(* right only because no interrupt is both pending and being served.       *)
Disjoint == active \cap pending = {}

Inv == LineExact /\ NoneLost /\ Disjoint

----------------------------------------------------------------------------
(* Type correctness. *)

(* A controller that has just been created is typed. *)
LEMMA InitType == Init => TypeOK
<1>1. 0 \in 0..MaxPriority /\ \A c \in Contexts : 0 <= MaxThreshold[c]
  BY PLICAssumption
<1>2. Init => priority \in [Interrupts -> 0..MaxPriority]
  BY <1>1 DEF Init
<1>3. Init => /\ threshold \in [Contexts -> Nat]
              /\ \A c \in Contexts : threshold[c] <= MaxThreshold[c]
  BY <1>1 DEF Init
<1>4. Init => eip \in [Contexts -> BOOLEAN] /\ serving \in [Contexts -> SUBSET Interrupts]
  BY DEF Init
<1>5. QED
  BY <1>2, <1>3, <1>4 DEF Init, TypeOK

(* A value cut to a width fits into it. *)
LEMMA Masked ==
  ASSUME NEW value \in Nat, NEW max \in Nat
  PROVE  value % (max + 1) \in 0..max
OBVIOUS

(* The registers after a reset are typed. *)
LEMMA HardResetType ==
  ASSUME TypeOK, HardReset, raw' \in SUBSET Interrupts,
         stopped' \in BOOLEAN, hreset' \in BOOLEAN
  PROVE  TypeOK'
<1>1. threshold' \in [Contexts -> Nat] /\ \A c \in Contexts : threshold'[c] <= MaxThreshold[c]
  BY PLICAssumption DEF HardReset
<1>2. priority' \in [Interrupts -> 0..MaxPriority]
  BY PLICAssumption DEF HardReset
<1>3. QED
  BY <1>1, <1>2 DEF HardReset, TypeOK

(* Every signal keeps the types. *)
LEMMA SignalType ==
  ASSUME TypeOK, NEW i \in Interrupts, Signal(i)
  PROVE  TypeOK'
BY DEF Signal, Raise, Lower, SetPending, TypeOK, config, signals

(* A write to a priority register keeps the types: the value is cut to the *)
(* width of the register.                                                  *)
LEMMA PriorityType ==
  ASSUME TypeOK, NEW i \in Interrupts, NEW v \in Values, WritePriority(i, v)
  PROVE  TypeOK'
<1>1. v % (MaxPriority + 1) \in 0..MaxPriority
  BY PLICAssumption, Masked
<1>2. QED
  BY <1>1 DEF WritePriority, TypeOK, signals, Exceeds

(* So do the writes to the enables and the threshold of a context.         *)
LEMMA ConfigureType ==
  ASSUME TypeOK, NEW c \in Contexts, Configure(c)
  PROVE  TypeOK'
<1>1. ASSUME NEW v \in Values, WriteThreshold(c, v) PROVE TypeOK'
  <2>1. v % (MaxThreshold[c] + 1) \in 0..MaxThreshold[c] /\ MaxThreshold[c] \in Nat
    BY PLICAssumption, Masked
  <2>2. QED
    BY <1>1, <2>1 DEF WriteThreshold, TypeOK, signals, Exceeds
<1>2. ASSUME NEW r, NEW s \in SUBSET Word(r), WriteEnable(c, r, s) PROVE TypeOK'
  BY <1>2, PLICAssumption DEF WriteEnable, Word, TypeOK, signals, Exceeds
<1>3. QED
  BY <1>1, <1>2 DEF Configure

(* Claiming and completing keep the types.                                 *)
LEMMA ServeType ==
  ASSUME TypeOK, NEW c \in Contexts,
         Claim(c) \/ \E i \in Interrupts : Complete(c, i)
  PROVE  TypeOK'
<1>1. CASE Claim(c)
  BY <1>1 DEF Claim, TypeOK, config, signals, Exceeds
<1>2. ASSUME NEW i \in Interrupts, Complete(c, i) PROVE TypeOK'
  <2>1. UNCHANGED <<raw, config, signals>> /\ serving' \in [Contexts -> SUBSET Interrupts]
    BY <1>2 DEF Complete, TypeOK
  <2>2. active' \in SUBSET Interrupts /\ pending' \in SUBSET Interrupts
    BY <1>2 DEF Complete, TypeOK
  <2>3. \/ eip' = eip
        \/ eip' = [d \in Contexts |-> eip[d] \/ Exceeds(d)']
    BY <1>2 DEF Complete
  <2>4. eip' \in [Contexts -> BOOLEAN]
    BY <2>3 DEF TypeOK, Exceeds
  <2>5. QED
    BY <2>1, <2>2, <2>4 DEF TypeOK, config, signals
<1>3. QED
  BY <1>1, <1>2

(* Reset and clock keep the types. *)
LEMMA PlatformType ==
  ASSUME TypeOK, Platform
  PROVE  TypeOK'
<1>1. CASE RaiseReset
  <2>1. CASE stopped
    BY <1>1, <2>1 DEF RaiseReset, TypeOK, config
  <2>2. CASE ~stopped
    <3>1. HardReset /\ raw' = raw /\ stopped' = stopped /\ hreset' = TRUE
      BY <1>1, <2>2 DEF RaiseReset
    <3>2. QED
      BY <3>1, HardResetType DEF TypeOK
  <2>3. QED
    BY <2>1, <2>2
<1>2. CASE LowerReset \/ StopClock
  BY <1>2 DEF LowerReset, StopClock, TypeOK, config
<1>3. CASE StartClock
  <2>1. CASE hreset
    <3>1. HardReset /\ raw' = raw /\ hreset' = hreset /\ stopped' = FALSE
      BY <1>3, <2>1 DEF StartClock
    <3>2. QED
      BY <3>1, HardResetType DEF TypeOK
  <2>2. CASE ~hreset
    BY <1>3, <2>2 DEF StartClock, SetPending, TypeOK, config
  <2>3. QED
    BY <2>1, <2>2
<1>4. QED
  BY <1>1, <1>2, <1>3 DEF Platform

(***************************************************************************)
(* Every register keeps its width, whatever software writes to it          *)
(* (priority.write, threshold.write, the enable masks).                    *)
(***************************************************************************)
THEOREM TypeCorrect == Spec => []TypeOK
<1>1. Init => TypeOK
  BY InitType
<1>2. TypeOK /\ [Next]_vars => TypeOK'
  BY SignalType, PriorityType, ConfigureType, ServeType, PlatformType
     DEF Next, vars, config, signals, TypeOK
<1>3. QED
  BY <1>1, <1>2, PTL DEF Spec

----------------------------------------------------------------------------
(* The lines, and the interrupts that are not lost. *)

(* At the start nothing is raised, pending or announced. *)
LEMMA InitInv == Init => Inv
BY DEF Init, Inv, LineExact, NoneLost, Disjoint, Exceeds, Ready

(* A reset leaves no line high, as nothing is enabled, and every signal    *)
(* that is high pending.                                                   *)
LEMMA HardResetInv ==
  ASSUME HardReset, raw' = raw
  PROVE  Inv'
BY DEF HardReset, Inv, LineExact, NoneLost, Disjoint, Exceeds, Ready

(* Making interrupts pending that are not being served keeps the lines     *)
(* exact, although set_pending only looks at these interrupts.             *)
LEMMA SetPendingExact ==
  ASSUME TypeOK, Inv, NEW new \in SUBSET Interrupts, new \cap active = {},
         SetPending(new), UNCHANGED <<active, config>>
  PROVE  LineExact' /\ Disjoint'
<1>1. \A i \in Interrupts, c \in Contexts :
        priority[i] \in Nat /\ threshold[c] \in Nat
  BY PLICAssumption DEF TypeOK
<1>2. \A c \in Contexts :
        Ready(c)' = Ready(c) \cup {i \in new \cap enable[c] : priority[i] > 0}
  BY DEF SetPending, Ready, TypeOK, config
<1>3. \A c \in Contexts :
        Exceeds(c)' <=> Exceeds(c) \/ \E i \in new \cap enable[c] : priority[i] > threshold[c]
  BY <1>1, <1>2 DEF Exceeds, TypeOK, config
<1>4. LineExact'
  BY <1>3 DEF SetPending, Inv, LineExact
<1>5. Disjoint'
  BY DEF SetPending, Inv, Disjoint
<1>6. QED
  BY <1>4, <1>5

(* A signal keeps the invariant: one that rises becomes pending, unless    *)
(* the clock is stopped or it is being served.                             *)
LEMMA SignalInv ==
  ASSUME TypeOK, Inv, NEW i \in Interrupts, Signal(i)
  PROVE  Inv'
<1>1. CASE Lower(i)
  BY <1>1 DEF Lower, Inv, LineExact, NoneLost, Disjoint, Exceeds, Ready, config, signals
<1>2. CASE Raise(i) /\ (stopped \/ i \in active)
  BY <1>2 DEF Raise, Inv, LineExact, NoneLost, Disjoint, Exceeds, Ready, config, signals
<1>3. CASE Raise(i) /\ ~stopped /\ i \notin active
  <2>1. SetPending({i}) /\ UNCHANGED <<active, config, stopped>> /\ raw' = raw \cup {i}
    BY <1>3 DEF Raise, signals
  <2>2. LineExact' /\ Disjoint'
    BY <1>3, <2>1, SetPendingExact
  <2>3. NoneLost'
    BY <2>1 DEF SetPending, NoneLost, Inv
  <2>4. QED
    BY <2>2, <2>3 DEF Inv
<1>4. QED
  BY <1>1, <1>2, <1>3 DEF Signal

(* A change of a priority moves only the lines of the contexts that the    *)
(* interrupt is pending for.                                               *)
LEMMA PriorityInv ==
  ASSUME TypeOK, Inv, NEW i \in Interrupts, NEW v \in Values, WritePriority(i, v)
  PROVE  Inv'
<1>1. UNCHANGED <<raw, pending, active, enable, threshold, stopped>>
  BY DEF WritePriority, signals
<1>2. \A j \in Interrupts \ {i} : priority'[j] = priority[j]
  BY DEF WritePriority, TypeOK
<1>3. ASSUME NEW c \in Contexts, i \notin pending \cap enable[c]
      PROVE  Exceeds(c)' <=> Exceeds(c)
  BY <1>1, <1>2, <1>3 DEF Exceeds, Ready, TypeOK
<1>4. LineExact'
  <2> SUFFICES ASSUME NEW c \in Contexts PROVE eip'[c] <=> Exceeds(c)'
    BY DEF LineExact
  <2>1. CASE i \in pending \cap enable[c]
    BY <2>1 DEF WritePriority, Exceeds
  <2>2. CASE i \notin pending \cap enable[c]
    <3>1. eip'[c] = eip[c]
      BY <2>2 DEF WritePriority
    <3>2. QED
      BY <2>2, <3>1, <1>3 DEF Inv, LineExact
  <2>3. QED
    BY <2>1, <2>2
<1>5. QED
  BY <1>1, <1>4 DEF Inv, NoneLost, Disjoint

(* A context that is reconfigured gets its line computed again.            *)
LEMMA ConfigureInv ==
  ASSUME TypeOK, Inv, NEW c \in Contexts, Configure(c)
  PROVE  Inv'
<1>1. UNCHANGED <<raw, pending, active, priority, stopped>>
  BY DEF Configure, WriteThreshold, WriteEnable, signals
<1>2. eip' = [eip EXCEPT ![c] = Exceeds(c)']
  BY DEF Configure, WriteThreshold, WriteEnable
<1>3. \A d \in Contexts \ {c} : enable'[d] = enable[d] /\ threshold'[d] = threshold[d]
  BY DEF Configure, WriteThreshold, WriteEnable, TypeOK
<1>4. \A d \in Contexts \ {c} : Exceeds(d)' <=> Exceeds(d)
  BY <1>1, <1>3 DEF Exceeds, Ready
<1>5. LineExact'
  BY <1>2, <1>4 DEF Inv, LineExact, TypeOK
<1>6. QED
  BY <1>1, <1>5 DEF Inv, NoneLost, Disjoint

(* A claim takes the interrupt from all contexts, so lines can only fall.  *)
LEMMA ClaimInv ==
  ASSUME TypeOK, Inv, NEW c \in Contexts, Claim(c)
  PROVE  Inv'
<1>1. PICK i \in Interrupts :
        /\ active' = active \cup {i}
        /\ pending' = pending \ {i}
        /\ UNCHANGED <<raw, config, signals>>
        /\ eip' = [d \in Contexts |-> eip[d] /\ Exceeds(d)']
        /\ i \in Ready(c)
  BY DEF Claim, Highest
<1>2. \A d \in Contexts : Exceeds(d)' => Exceeds(d)
  BY <1>1 DEF Exceeds, Ready, config
<1>3. LineExact'
  BY <1>1, <1>2 DEF Inv, LineExact
<1>4. NoneLost' /\ Disjoint'
  BY <1>1 DEF Inv, NoneLost, Disjoint, signals
<1>5. QED
  BY <1>3, <1>4 DEF Inv

(* A completion that the controller hears gives the interrupt back to all  *)
(* contexts if its signal is still high, so lines can only rise.           *)
LEMMA CompleteInv ==
  ASSUME TypeOK, Inv, NEW c \in Contexts, NEW i \in Interrupts, Complete(c, i)
  PROVE  Inv'
<1>1. UNCHANGED <<raw, config, stopped>>
  BY DEF Complete, signals
<1>2. CASE UNCHANGED <<pending, active, eip>>
  BY <1>1, <1>2 DEF Inv, LineExact, NoneLost, Disjoint, Exceeds, Ready, config
<1>3. CASE i \in active /\ active' = active \ {i} /\ i \in raw
           /\ pending' = pending \cup {i}
           /\ eip' = [d \in Contexts |-> eip[d] \/ Exceeds(d)']
  <2>1. \A d \in Contexts : Exceeds(d) => Exceeds(d)'
    BY <1>1, <1>3 DEF Exceeds, Ready, config
  <2>2. LineExact'
    BY <1>3, <2>1 DEF Inv, LineExact
  <2>3. NoneLost' /\ Disjoint'
    BY <1>1, <1>3 DEF Inv, NoneLost, Disjoint
  <2>4. QED
    BY <2>2, <2>3 DEF Inv
<1>4. CASE i \in active /\ active' = active \ {i} /\ i \notin raw
           /\ UNCHANGED <<pending, eip>>
  <2>1. \A d \in Contexts : Ready(d)' = Ready(d)
    BY <1>1, <1>4 DEF Ready, Inv, Disjoint, config
  <2>2. LineExact'
    BY <1>1, <1>4, <2>1 DEF Inv, LineExact, Exceeds, config
  <2>3. NoneLost' /\ Disjoint'
    BY <1>1, <1>4 DEF Inv, NoneLost, Disjoint
  <2>4. QED
    BY <2>2, <2>3 DEF Inv
<1>5. QED
  BY <1>2, <1>3, <1>4 DEF Complete

(* Reset and clock keep the invariant: when the clock starts, the signals  *)
(* that rose in the meantime become pending.                               *)
LEMMA PlatformInv ==
  ASSUME TypeOK, Inv, Platform
  PROVE  Inv'
<1>1. CASE RaiseReset /\ ~stopped
  BY <1>1, HardResetInv DEF RaiseReset
<1>2. CASE (RaiseReset /\ stopped) \/ LowerReset \/ StopClock
  BY <1>2 DEF RaiseReset, LowerReset, StopClock, Inv, LineExact, NoneLost, Disjoint,
              Exceeds, Ready, config
<1>3. CASE StartClock /\ hreset
  BY <1>3, HardResetInv DEF StartClock
<1>4. CASE StartClock /\ ~hreset
  <2> DEFINE new == raw \ (pending \cup active)
  <2>1. SetPending(new) /\ UNCHANGED <<active, config>> /\ raw' = raw
    BY <1>4 DEF StartClock
  <2>2. new \in SUBSET Interrupts /\ new \cap active = {}
    BY DEF TypeOK
  <2>3. LineExact' /\ Disjoint'
    BY <2>1, <2>2, SetPendingExact
  <2>4. NoneLost'
    BY <2>1 DEF SetPending, NoneLost
  <2>5. QED
    BY <2>3, <2>4 DEF Inv
<1>5. QED
  BY <1>1, <1>2, <1>3, <1>4 DEF Platform

(* Every step keeps the invariant. *)
LEMMA NextInv == TypeOK /\ Inv /\ [Next]_vars => Inv'
<1> SUFFICES ASSUME TypeOK, Inv, [Next]_vars PROVE Inv'
  OBVIOUS
<1>1. CASE UNCHANGED vars
  BY <1>1 DEF vars, Inv, LineExact, NoneLost, Disjoint, Exceeds, Ready, config, signals
<1>2. CASE Next
  BY <1>2, SignalInv, PriorityInv, ConfigureInv, ClaimInv, CompleteInv, PlatformInv
     DEF Next
<1>3. QED
  BY <1>1, <1>2

(***************************************************************************)
(* The line of a context always says exactly whether there is something    *)
(* for it to do, although every handler updates only some of the lines.    *)
(***************************************************************************)
THEOREM LineAlwaysExact == Spec => []LineExact
<1>1. Inv => LineExact
  BY DEF Inv
<1>2. QED
  BY <1>1, InitInv, NextInv, TypeCorrect, PTL DEF Spec

(***************************************************************************)
(* With a running clock a signal that is high is pending or being served,  *)
(* whatever the software, the resets and the clock have done before.       *)
(***************************************************************************)
THEOREM NoneEverLost == Spec => []NoneLost
<1>1. Inv => NoneLost
  BY DEF Inv
<1>2. QED
  BY <1>1, InitInv, NextInv, TypeCorrect, PTL DEF Spec

----------------------------------------------------------------------------
(* Who serves an interrupt. *)

(* Every step of software that completes only what it has claimed keeps    *)
(* the contexts apart.                                                     *)
LEMMA NextOneServer ==
  ASSUME Hasty = {}, Intruders = {}
  PROVE  TypeOK /\ OneServer /\ [Next]_vars => OneServer'
<1> SUFFICES ASSUME TypeOK, OneServer, [Next]_vars PROVE OneServer'
  OBVIOUS
<1>1. ASSUME UNCHANGED <<active, serving>>, active \cap pending' = {} PROVE OneServer'
  BY <1>1 DEF OneServer
<1>2. CASE UNCHANGED vars
  BY <1>1, <1>2 DEF vars, OneServer
<1>3. ASSUME NEW i \in Interrupts, Signal(i) PROVE OneServer'
  BY <1>1, <1>3 DEF Signal, Raise, Lower, SetPending, OneServer
<1>4. ASSUME NEW i \in Interrupts, NEW v \in Values, WritePriority(i, v) PROVE OneServer'
  BY <1>1, <1>4 DEF WritePriority, OneServer
<1>5. ASSUME NEW c \in Contexts, Configure(c) PROVE OneServer'
  BY <1>1, <1>5 DEF Configure, WriteThreshold, WriteEnable, OneServer
<1>6. ASSUME NEW c \in Contexts, Claim(c) PROVE OneServer'
  <2>1. PICK i \in Interrupts :
          /\ i \in pending
          /\ active' = active \cup {i}
          /\ pending' = pending \ {i}
          /\ serving' = [serving EXCEPT ![c] = @ \cup {i}]
    BY <1>6 DEF Claim, Highest, Ready
  <2>2. \A d \in Contexts : i \notin serving[d]
    BY <2>1 DEF OneServer
  <2>3. \A d \in Contexts : serving'[d] = IF d = c THEN serving[d] \cup {i} ELSE serving[d]
    BY <2>1 DEF TypeOK
  <2>4. QED
    BY <2>1, <2>2, <2>3 DEF OneServer
<1>7. ASSUME NEW c \in Contexts, NEW i \in Interrupts, Complete(c, i) PROVE OneServer'
  <2>1. i \in serving[c] /\ ~Off /\ i \in enable[c]
    BY <1>7 DEF Complete, MayComplete
  <2>2. i \in active
    BY <2>1 DEF OneServer
  <2>3. active' = active \ {i} /\ pending' \subseteq pending \cup {i}
    BY <1>7, <2>1, <2>2 DEF Complete
  <2>4. \A d \in Contexts : serving'[d] = IF d = c THEN serving[d] \ {i} ELSE serving[d]
    BY <1>7 DEF Complete, TypeOK
  <2>5. \A d \in Contexts \ {c} : i \notin serving[d]
    BY <2>1 DEF OneServer
  <2>6. \A d, e \in Contexts : d # e => serving'[d] \cap serving'[e] = {}
    BY <2>4 DEF OneServer
  <2>7. active' = UNION {serving'[d] : d \in Contexts}
    <3>1. \A j : j \in active <=> \E d \in Contexts : j \in serving[d]
      BY DEF OneServer
    <3>2. \A j : j \in active' <=> \E d \in Contexts : j \in serving'[d]
      BY <3>1, <2>3, <2>4, <2>5
    <3>3. QED
      BY <3>2
  <2>8. active' \cap pending' = {}
    BY <2>3 DEF OneServer
  <2>9. QED
    BY <2>6, <2>7, <2>8 DEF OneServer
<1>8. ASSUME HardReset PROVE OneServer'
  BY <1>8 DEF HardReset, OneServer
<1>9. CASE Platform
  BY <1>1, <1>8, <1>9 DEF Platform, RaiseReset, LowerReset, StopClock, StartClock,
                          SetPending, OneServer
<1>10. QED
  BY <1>2, <1>3, <1>4, <1>5, <1>6, <1>7, <1>9 DEF Next

(***************************************************************************)
(* An interrupt is served by one context at a time, and every active one   *)
(* by some context, if contexts complete only what they have claimed, and  *)
(* while the controller listens.                                           *)
(***************************************************************************)
THEOREM AlwaysOneServer ==
  ASSUME Hasty = {}, Intruders = {}
  PROVE  Spec => []OneServer
<1>1. Init => OneServer
  BY DEF Init, OneServer
<1>2. QED
  BY <1>1, NextOneServer, TypeCorrect, PTL DEF Spec

(* The same where completions are dropped: nothing leaves active that      *)
(* somebody else serves.                                                   *)
LEMMA NextServedOnce ==
  ASSUME Intruders = {}
  PROVE  TypeOK /\ ServedOnce /\ [Next]_vars => ServedOnce'
<1> SUFFICES ASSUME TypeOK, ServedOnce, [Next]_vars PROVE ServedOnce'
  OBVIOUS
<1>1. ASSUME UNCHANGED <<active, serving>>, active \cap pending' = {} PROVE ServedOnce'
  BY <1>1 DEF ServedOnce
<1>2. CASE UNCHANGED vars
  BY <1>1, <1>2 DEF vars, ServedOnce
<1>3. ASSUME NEW i \in Interrupts, Signal(i) PROVE ServedOnce'
  BY <1>1, <1>3 DEF Signal, Raise, Lower, SetPending, ServedOnce
<1>4. ASSUME NEW i \in Interrupts, NEW v \in Values, WritePriority(i, v) PROVE ServedOnce'
  BY <1>1, <1>4 DEF WritePriority, ServedOnce
<1>5. ASSUME NEW c \in Contexts, Configure(c) PROVE ServedOnce'
  BY <1>1, <1>5 DEF Configure, WriteThreshold, WriteEnable, ServedOnce
<1>6. ASSUME NEW c \in Contexts, Claim(c) PROVE ServedOnce'
  <2>1. PICK i \in Interrupts :
          /\ i \in pending \ active
          /\ active' = active \cup {i}
          /\ pending' = pending \ {i}
          /\ serving' = [serving EXCEPT ![c] = @ \cup {i}]
    BY <1>6 DEF Claim, Highest, Ready
  <2>2. \A d \in Contexts : i \notin serving[d]
    BY <2>1 DEF ServedOnce
  <2>3. \A d \in Contexts : serving'[d] = IF d = c THEN serving[d] \cup {i} ELSE serving[d]
    BY <2>1 DEF TypeOK
  <2>4. QED
    BY <2>1, <2>2, <2>3 DEF ServedOnce
<1>7. ASSUME NEW c \in Contexts, NEW i \in Interrupts, Complete(c, i) PROVE ServedOnce'
  <2>1. i \in serving[c]
    BY <1>7 DEF Complete, MayComplete
  <2>2. \/ active' = active /\ pending' = pending
        \/ active' = active \ {i} /\ pending' \subseteq pending \cup {i}
    BY <1>7 DEF Complete
  <2>3. \A d \in Contexts : serving'[d] = IF d = c THEN serving[d] \ {i} ELSE serving[d]
    BY <1>7 DEF Complete, TypeOK
  <2>4. \A d \in Contexts : i \notin serving'[d] /\ serving'[d] \subseteq serving[d]
    BY <2>1, <2>3 DEF ServedOnce
  <2>5. QED
    BY <2>2, <2>4 DEF ServedOnce
<1>8. ASSUME HardReset PROVE ServedOnce'
  BY <1>8 DEF HardReset, ServedOnce
<1>9. CASE Platform
  BY <1>1, <1>8, <1>9 DEF Platform, RaiseReset, LowerReset, StopClock, StartClock,
                          SetPending, ServedOnce
<1>10. QED
  BY <1>2, <1>3, <1>4, <1>5, <1>6, <1>7, <1>9 DEF Next

(***************************************************************************)
(* No interrupt is served by two contexts, whenever they complete what     *)
(* they have claimed and whether or not they are heard.                    *)
(***************************************************************************)
THEOREM AlwaysServedOnce ==
  ASSUME Intruders = {}
  PROVE  Spec => []ServedOnce
<1>1. Init => ServedOnce
  BY DEF Init, ServedOnce
<1>2. QED
  BY <1>1, NextServedOnce, TypeCorrect, PTL DEF Spec

----------------------------------------------------------------------------
(* What no step may do. *)

(***************************************************************************)
(* A pulse is not forgotten: pending bits are cleared by a claim, which    *)
(* makes the interrupt active, or by a reset (signal_lower leaves them).   *)
(***************************************************************************)
THEOREM PulseAlwaysKept == Spec => PulseKept
<1>1. ASSUME [Next]_vars
      PROVE  [\A i \in pending \ pending' : i \in active' \/ hreset']_vars
  <2> SUFFICES ASSUME Next, NEW i \in pending \ pending'
               PROVE  i \in active' \/ hreset'
    BY <1>1
  <2>1. ASSUME NEW c \in Contexts, Claim(c) PROVE i \in active'
    BY <2>1 DEF Claim
  <2>2. ASSUME NEW j \in Interrupts, Signal(j) PROVE FALSE
    BY <2>2 DEF Signal, Raise, Lower, SetPending
  <2>3. ASSUME NEW j \in Interrupts, NEW v \in Values, WritePriority(j, v) PROVE FALSE
    BY <2>3 DEF WritePriority
  <2>4. ASSUME NEW c \in Contexts, Configure(c) PROVE FALSE
    BY <2>4 DEF Configure, WriteThreshold, WriteEnable
  <2>5. ASSUME NEW c \in Contexts, NEW j \in Interrupts, Complete(c, j) PROVE FALSE
    BY <2>5 DEF Complete
  <2>6. CASE Platform
    BY <2>6 DEF Platform, RaiseReset, LowerReset, StopClock, StartClock, SetPending
  <2>7. QED
    BY <2>1, <2>2, <2>3, <2>4, <2>5, <2>6 DEF Next
<1>2. QED
  BY <1>1, PTL DEF Spec, PulseKept

(***************************************************************************)
(* With a stopped clock nothing is forwarded and no access has an effect   *)
(* (is_disabled in the bank, the test of CLOCK_DISABLE in the IRQ ports    *)
(* and in hard_reset).                                                     *)
(***************************************************************************)
THEOREM StoppedAlwaysFrozen == Spec => StoppedIsFrozen
<1>1. ASSUME [Next]_vars
      PROVE  [stopped /\ stopped' => UNCHANGED <<pending, active, config, eip>>]_vars
  <2> SUFFICES ASSUME Next, stopped, stopped'
               PROVE  UNCHANGED <<pending, active, config, eip>>
    BY <1>1
  <2>1. ASSUME NEW i \in Interrupts, Signal(i)
        PROVE  UNCHANGED <<pending, active, config, eip>>
    BY <2>1 DEF Signal, Raise, Lower
  <2>2. \A i \in Interrupts, v \in Values : ~WritePriority(i, v)
    BY DEF WritePriority, Off
  <2>3. \A c \in Contexts : ~Configure(c) /\ ~Claim(c)
    BY DEF Configure, WriteThreshold, WriteEnable, Claim, Off
  <2>4. ASSUME NEW c \in Contexts, NEW i \in Interrupts, Complete(c, i)
        PROVE  UNCHANGED <<pending, active, config, eip>>
    BY <2>4 DEF Complete, Off
  <2>5. CASE Platform
    BY <2>5 DEF Platform, RaiseReset, LowerReset, StopClock, StartClock
  <2>6. QED
    BY <2>1, <2>2, <2>3, <2>4, <2>5 DEF Next
<1>2. QED
  BY <1>1, PTL DEF Spec, StoppedIsFrozen
=============================================================================
