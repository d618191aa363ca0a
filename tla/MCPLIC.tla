------------------------------- MODULE MCPLIC -------------------------------
(***************************************************************************)
(* Instances of the controller for model checking.  Interrupts 31 and 32   *)
(* have their enable bits in different registers.  Writing 2 to a register *)
(* of one bit shows the masking.                                           *)
(***************************************************************************)
EXTENDS PLIC

CONSTANTS c1, c2

Two   == {31, 32}

OneBit == [c \in Contexts |-> 1]
NoBits == [c \in Contexts |-> {}]

(* One context has an interrupt that it cannot disable, and one that it    *)
(* cannot enable.                                                          *)
Fixed   == [c \in Contexts |-> IF c = c1 THEN {31} ELSE {}]
Blocked == [c \in Contexts |-> IF c = c1 THEN {32} ELSE {}]
=============================================================================
