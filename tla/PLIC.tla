-------------------------------- MODULE PLIC --------------------------------
(***************************************************************************)
(* The RISC-V platform-level interrupt controller (plic.dml).  Devices     *)
(* raise and lower interrupt signals, contexts (a hart in a privilege      *)
(* mode) set priorities, enables and thresholds, claim the highest pending *)
(* interrupt and complete it, and the platform resets the controller or    *)
(* stops its clock.  A register is the set of interrupts whose bit is 1.   *)
(***************************************************************************)
EXTENDS Integers, FiniteSets

CONSTANTS
  Interrupts,     \* interrupt ids, 1 .. max_interrupt
  Contexts,       \* contexts with a connected irq_dev
  Values,         \* values that software writes to priorities and thresholds
  MaxPriority,    \* max_priority, 2^x - 1
  MaxThreshold,   \* max_threshold of each context, 2^x - 1
  EnableSet,      \* enable bits of each context that are hardwired as 1
  EnableClr,      \* enable bits of each context that are hardwired as 0
  Hasty,          \* contexts that complete when the controller cannot hear it
  Intruders       \* contexts that complete what another one has claimed

ASSUME PLICAssumption ==
  /\ Interrupts \subseteq Nat \ {0}
  /\ Values \subseteq Nat
  /\ MaxPriority \in Nat
  /\ MaxThreshold \in [Contexts -> Nat]
  /\ EnableSet \in [Contexts -> SUBSET Interrupts]
  /\ EnableClr \in [Contexts -> SUBSET Interrupts]
  /\ Hasty \subseteq Contexts
  /\ Intruders \subseteq Contexts

VARIABLES
  raw,        \* level of the interrupt signals
  pending,
  active,     \* claimed and not completed
  priority,
  enable,
  threshold,
  eip,        \* level of the interrupt line of each context
  stopped,    \* CLOCK_DISABLE is high
  hreset,     \* HRESET is high
  serving     \* what the software of each context has claimed

config == <<priority, enable, threshold>>
signals == <<stopped, hreset>>
vars == <<raw, pending, active, config, eip, signals, serving>>

Init ==
  /\ raw = {}
  /\ pending = {}
  /\ active = {}
  /\ priority = [i \in Interrupts |-> 0]
  /\ enable = [c \in Contexts |-> {}]
  /\ threshold = [c \in Contexts |-> 0]
  /\ eip = [c \in Contexts |-> FALSE]
  /\ stopped = FALSE
  /\ hreset = FALSE
  /\ serving = [c \in Contexts |-> {}]

----------------------------------------------------------------------------
(* get_highest: the interrupts a context has to choose from, and the one   *)
(* it is given, of the highest priority, and of the lowest id among those. *)
Ready(c) == {i \in (pending \ active) \cap enable[c] : priority[i] > 0}

Highest(c, i) ==
  /\ i \in Ready(c)
  /\ \A j \in Ready(c) \ {i} :
       priority[j] < priority[i] \/ (priority[j] = priority[i] /\ i < j)

(* The priority that get_highest returns exceeds the threshold. *)
Exceeds(c) == \E i \in Ready(c) : priority[i] > threshold[c]

(* A bank access has no effect while the controller is off. *)
Off == stopped \/ hreset

(* set_pending for every interrupt of a set. *)
SetPending(new) ==
  /\ pending' = pending \cup new
  /\ eip' = [c \in Contexts |->
               eip[c] \/ \E i \in new \cap enable[c] : priority[i] > threshold[c]]

----------------------------------------------------------------------------
(* The interrupt signals. *)

(* Mutant: an interrupt being served becomes pending. *)
RaiseWhileActive(i) ==
  /\ i \notin raw
  /\ raw' = raw \cup {i}
  /\ IF stopped THEN UNCHANGED <<pending, eip>> ELSE SetPending({i})
  /\ UNCHANGED <<active, config, signals, serving>>

Raise(i) ==
  /\ i \notin raw
  /\ raw' = raw \cup {i}
  /\ IF stopped \/ i \in active THEN UNCHANGED <<pending, eip>>
     ELSE SetPending({i})
  /\ UNCHANGED <<active, config, signals, serving>>

(* What is pending stays pending. *)
Lower(i) ==
  /\ i \in raw
  /\ raw' = raw \ {i}
  /\ UNCHANGED <<pending, active, config, eip, signals, serving>>

----------------------------------------------------------------------------
(* Register accesses. *)

(* Mutant: a line is never taken back. *)
WritePriorityRaises(i, value) ==
  /\ ~Off
  /\ priority' = [priority EXCEPT ![i] = value % (MaxPriority + 1)]
  /\ UNCHANGED <<raw, pending, active, enable, threshold, signals, serving>>
  /\ eip' = [c \in Contexts |->
               eip[c] \/ (i \in pending \cap enable[c] /\ Exceeds(c)')]

(* The lines of the contexts that the interrupt is pending for follow. *)
WritePriority(i, value) ==
  /\ ~Off
  /\ priority' = [priority EXCEPT ![i] = value % (MaxPriority + 1)]
  /\ UNCHANGED <<raw, pending, active, enable, threshold, signals, serving>>
  /\ eip' = [c \in Contexts |->
               IF i \in pending \cap enable[c] THEN Exceeds(c)' ELSE eip[c]]

(* A write to one of the 32-bit enable registers updates the line. *)
Word(r) == {i \in Interrupts : i \div 32 = r}

WriteEnable(c, r, value) ==
  /\ ~Off
  /\ enable' = [enable EXCEPT ![c] =
       (@ \ Word(r)) \cup (((value \cup EnableSet[c]) \cap Word(r)) \ EnableClr[c])]
  /\ UNCHANGED <<raw, pending, active, priority, threshold, signals, serving>>
  /\ eip' = [eip EXCEPT ![c] = Exceeds(c)']

WriteThreshold(c, value) ==
  /\ ~Off
  /\ threshold' = [threshold EXCEPT ![c] = value % (MaxThreshold[c] + 1)]
  /\ UNCHANGED <<raw, pending, active, priority, enable, signals, serving>>
  /\ eip' = [eip EXCEPT ![c] = Exceeds(c)']

(* Reading the claim register.  The threshold does not matter: a context   *)
(* may claim what its line does not announce.                              *)
Claim(c) ==
  \E i \in Interrupts :
    /\ ~Off
    /\ Highest(c, i)
    /\ active' = active \cup {i}
    /\ pending' = pending \ {i}
    /\ UNCHANGED <<raw, config, signals>>
    /\ eip' = [d \in Contexts |-> eip[d] /\ Exceeds(d)']
    /\ serving' = [serving EXCEPT ![c] = @ \cup {i}]

(* The software of a context completes what it has claimed, while the      *)
(* controller listens and has the interrupt enabled; the hasty ones do not *)
(* care, and intruders take what is not theirs.                            *)
MayComplete(c, i) ==
  \/ i \in serving[c] /\ (c \in Hasty \/ (~Off /\ i \in enable[c]))
  \/ c \in Intruders /\ i \in active

(* Mutant: the lines do not announce an interrupt that is pending again. *)
CompleteQuiet(c, i) ==
  /\ MayComplete(c, i)
  /\ serving' = [serving EXCEPT ![c] = @ \ {i}]
  /\ IF Off \/ i \notin active \cap enable[c]
     THEN UNCHANGED <<pending, active, eip>>
     ELSE /\ active' = active \ {i}
          /\ pending' = IF i \in raw THEN pending \cup {i} ELSE pending
          /\ UNCHANGED eip
  /\ UNCHANGED <<raw, config, signals>>

(* Writing the claim register.  An interrupt whose signal is still high is *)
(* pending again.                                                          *)
Complete(c, i) ==
  /\ MayComplete(c, i)
  /\ serving' = [serving EXCEPT ![c] = @ \ {i}]
  /\ UNCHANGED <<raw, config, signals>>
  /\ IF Off \/ i \notin active \cap enable[c]
     THEN UNCHANGED <<pending, active, eip>>
     ELSE /\ active' = active \ {i}
          /\ IF i \in raw
             THEN /\ pending' = pending \cup {i}
                  /\ eip' = [d \in Contexts |-> eip[d] \/ Exceeds(d)']
             ELSE UNCHANGED <<pending, eip>>

----------------------------------------------------------------------------
(* Reset and clock. *)

(* hard_reset with a running clock: all registers but raw, and then the    *)
(* signals that are high are pending again.                                *)
HardReset ==
  /\ priority' = [i \in Interrupts |-> 0]
  /\ enable' = [c \in Contexts |-> {}]
  /\ threshold' = [c \in Contexts |-> 0]
  /\ active' = {}
  /\ pending' = raw
  /\ eip' = [c \in Contexts |-> FALSE]
  /\ serving' = [c \in Contexts |-> {}]

(* A reset while the clock is stopped is delayed, or ignored if HRESET is  *)
(* lowered before the clock runs again.                                    *)
RaiseReset ==
  /\ ~hreset
  /\ hreset' = TRUE
  /\ IF stopped THEN UNCHANGED <<pending, active, config, eip, serving>>
     ELSE HardReset
  /\ UNCHANGED <<raw, stopped>>

LowerReset ==
  /\ hreset
  /\ hreset' = FALSE
  /\ UNCHANGED <<raw, pending, active, config, eip, stopped, serving>>

StopClock ==
  /\ ~stopped
  /\ stopped' = TRUE
  /\ UNCHANGED <<raw, pending, active, config, eip, hreset, serving>>

(* Mutant: the signals that rose in the meantime are not looked at. *)
StartClockForgets ==
  /\ stopped
  /\ stopped' = FALSE
  /\ IF hreset THEN HardReset
     ELSE UNCHANGED <<pending, active, config, eip, serving>>
  /\ UNCHANGED <<raw, hreset>>

StartClock ==
  /\ stopped
  /\ stopped' = FALSE
  /\ IF hreset THEN HardReset
     ELSE /\ SetPending(raw \ (pending \cup active))
          /\ UNCHANGED <<active, config, serving>>
  /\ UNCHANGED <<raw, hreset>>

----------------------------------------------------------------------------
Signal(i) == Raise(i) \/ Lower(i)

Configure(c) ==
  \/ \E v \in Values : WriteThreshold(c, v)
  \/ \E r \in {i \div 32 : i \in Interrupts} :
       \E s \in SUBSET Word(r) : WriteEnable(c, r, s)

Platform == RaiseReset \/ LowerReset \/ StopClock \/ StartClock

Next ==
  \/ \E i \in Interrupts : Signal(i)
  \/ \E i \in Interrupts, v \in Values : WritePriority(i, v)
  \/ \E c \in Contexts : Configure(c) \/ Claim(c)
  \/ \E c \in Contexts, i \in Interrupts : Complete(c, i)
  \/ Platform

Spec == Init /\ [][Next]_vars

(* The software of a context reads the claim register when its line is     *)
(* high, and completes what it has claimed.                                *)
Fairness ==
  \A c \in Contexts :
    /\ WF_vars(eip[c] /\ Claim(c))
    /\ \A i \in Interrupts : WF_vars(i \in serving[c] /\ Complete(c, i))

FairSpec == Spec /\ Fairness

----------------------------------------------------------------------------
(* Properties. *)

TypeOK ==
  /\ raw \in SUBSET Interrupts
  /\ pending \in SUBSET Interrupts
  /\ active \in SUBSET Interrupts
  /\ priority \in [Interrupts -> 0..MaxPriority]
  /\ enable \in [Contexts -> SUBSET Interrupts]
  /\ threshold \in [Contexts -> Nat]
  /\ \A c \in Contexts : threshold[c] <= MaxThreshold[c]
  /\ eip \in [Contexts -> BOOLEAN]
  /\ stopped \in BOOLEAN
  /\ hreset \in BOOLEAN
  /\ serving \in [Contexts -> SUBSET Interrupts]

(***************************************************************************)
(* The line of a context is high if and only if an interrupt that it has   *)
(* enabled is pending, not being served, and exceeds its threshold.  The   *)
(* code never computes the lines from scratch: every handler updates those *)
(* that it takes to be affected (priority.write, threshold.write,          *)
(* claim_highest_pending, complete_interrupt, set_pending).                *)
(***************************************************************************)
LineExact == \A c \in Contexts : eip[c] <=> Exceeds(c)

(***************************************************************************)
(* No interrupt is lost: with a running clock, an interrupt whose signal   *)
(* is high is pending or being served (IRQ, complete_interrupt,            *)
(* handle_all_raised_irqs).                                                *)
(***************************************************************************)
NoneLost == ~stopped => raw \subseteq pending \cup active

(***************************************************************************)
(* An interrupt is served by one context at a time, every active interrupt *)
(* is being served by somebody, and is not pending at the same time        *)
(* (claim_highest_pending and complete_interrupt).  Contexts complete what *)
(* they have claimed.                                                      *)
(***************************************************************************)
OneServer ==
  /\ \A c, d \in Contexts : c # d => serving[c] \cap serving[d] = {}
  /\ active = UNION {serving[c] : c \in Contexts}
  /\ active \cap pending = {}

(***************************************************************************)
(* What remains of it when completions are dropped, as they come while     *)
(* accesses are ignored or the interrupt is disabled (complete_interrupt): *)
(* such an interrupt stays active and is given to nobody, and no other     *)
(* context is given what somebody still serves.                            *)
(***************************************************************************)
ServedOnce ==
  /\ \A c, d \in Contexts : c # d => serving[c] \cap serving[d] = {}
  /\ UNION {serving[c] : c \in Contexts} \subseteq active
  /\ active \cap pending = {}

(***************************************************************************)
(* An interrupt, once pending, stays so until it is claimed or the         *)
(* controller is reset, however short the pulse was (signal_lower).        *)
(***************************************************************************)
PulseKept ==
  [][\A i \in pending \ pending' : i \in active' \/ hreset']_vars

(***************************************************************************)
(* With a stopped clock nothing is forwarded and no access has an effect   *)
(* (documentation of CLOCK_DISABLE).                                       *)
(***************************************************************************)
StoppedIsFrozen ==
  [][stopped /\ stopped' => UNCHANGED <<pending, active, config, eip>>]_vars

(***************************************************************************)
(* Bits set in enable_set are hardwired as 1: once they are seen as 1 they *)
(* stay so (documentation of the attribute enable_set).                    *)
(***************************************************************************)
HardwiredStays ==
  [][\A c \in Contexts :
       (enable[c] \cap EnableSet[c]) \ EnableClr[c] \subseteq enable'[c]]_vars

(***************************************************************************)
(* A device that keeps its signal high is served again and again, if its   *)
(* interrupt stays enabled, also where it is being served, above the       *)
(* threshold and the most urgent one (complete_interrupt makes it pending  *)
(* again, and the lines must say so).                                      *)
(***************************************************************************)
Urgent(c, i) ==
  /\ ~Off
  /\ i \in raw \cap enable[c]
  /\ \A d \in Contexts : i \in serving[d] => i \in enable[d]
  /\ priority[i] > threshold[c]
  /\ \A j \in Interrupts \ {i} : priority[j] < priority[i]

ServedAgain ==
  \A c \in Contexts, i \in Interrupts :
    <>[]Urgent(c, i) => []<>(i \in active) /\ []<>(i \notin active)
=============================================================================
