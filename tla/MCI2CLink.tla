----------------------------- MODULE MCI2CLink -----------------------------
(***************************************************************************)
(* Instances of the link for model checking.  One address of every kind    *)
(* that the link tells apart: general call, high-speed code, an ordinary   *)
(* address in both directions, a 10-bit prefix in both directions.         *)
(***************************************************************************)
EXTENDS I2CLinkBus

GeneralCall == {0}
HighSpeed   == {8}
PlainWrite  == {64}
PlainRead   == {65}
TenBit      == {240, 241}

EveryKind   == GeneralCall \cup HighSpeed \cup PlainWrite \cup PlainRead \cup TenBit
WithoutRead == GeneralCall \cup HighSpeed \cup PlainWrite \cup {240}
OneOfEach   == GeneralCall \cup HighSpeed \cup PlainRead \cup TenBit
=============================================================================
