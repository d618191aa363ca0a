------------------------------- MODULE I2CBus -------------------------------
(***************************************************************************)
(* What the I2C link promises to its masters: one arbiter that gives the   *)
(* bus to one of them at a time, although in i2c-link-v2.c no such arbiter *)
(* exists and every endpoint decides from its own copy of the owner.       *)
(***************************************************************************)
CONSTANTS Masters, None

VARIABLES
  owner,   \* the master that has the bus, or None
  client   \* "idle", "asking" for a start to be answered, or "using" the bus

busVars == <<owner, client>>

Init ==
  /\ owner = None
  /\ client = [m \in Masters |-> "idle"]

Becomes(m, from, to) ==
  /\ client[m] \in from
  /\ client' = [client EXCEPT ![m] = to]

(* A master starts, or starts again in the middle of its transaction. *)
Ask(m) ==
  /\ Becomes(m, {"idle", "using"}, "asking")
  /\ UNCHANGED owner

(* Some of the others that were asking may lose in the same step. *)
Win(m) ==
  /\ owner = None /\ client[m] = "asking"
  /\ owner' = m
  /\ \E losers \in SUBSET {n \in Masters \ {m} : client[n] = "asking"} :
       client' = [n \in Masters |-> IF n \in losers THEN "idle" ELSE client[n]]

Lose(m) ==
  /\ owner \notin {None, m}
  /\ Becomes(m, {"asking"}, "idle")
  /\ UNCHANGED owner

(* The owner's start is answered, with ACK or with NOACK. *)
Answer(m) ==
  /\ owner = m
  /\ Becomes(m, {"asking"}, "using")
  /\ UNCHANGED owner

(* The master stops; the bus is free only when the stop has taken effect,  *)
(* and by then the master may already be asking again.                     *)
Finish(m) ==
  /\ owner = m
  /\ Becomes(m, {"using"}, "idle")
  /\ UNCHANGED owner

Release(m) ==
  /\ owner = m /\ client[m] \in {"idle", "asking"}
  /\ owner' = None
  /\ UNCHANGED client

(* A start on a bus without other slaves is answered as soon as it wins. *)
WinUnanswered(m) ==
  /\ owner = None
  /\ owner' = m
  /\ Becomes(m, {"asking"}, "using")

Next ==
  \E m \in Masters :
    Ask(m) \/ Win(m) \/ WinUnanswered(m) \/ Lose(m) \/ Answer(m) \/ Finish(m) \/ Release(m)

Spec == Init /\ [][Next]_busVars

(* A start in progress is won, lost or answered. *)
Resolve(m) == Win(m) \/ WinUnanswered(m) \/ Lose(m) \/ Answer(m)

FairSpec == Spec /\ \A m \in Masters : WF_busVars(Resolve(m))

(***************************************************************************)
(* The master that uses the bus is its owner, so two never use it at once. *)
(***************************************************************************)
TypeOK ==
  /\ owner \in Masters \cup {None}
  /\ client \in [Masters -> {"idle", "asking", "using"}]

OwnerUses == \A m \in Masters : client[m] = "using" => owner = m

Exclusive ==
  \A m, n \in Masters : client[m] = "using" /\ client[n] = "using" => m = n
=============================================================================
